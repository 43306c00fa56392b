CONSTANTS
  OffDelay = 3
  Inertia = 1
  LastTrack = 1
SPECIFICATION Spec
INVARIANT AsteriskIfUnsaved
