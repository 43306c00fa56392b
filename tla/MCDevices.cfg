CONSTANTS
  ArmInertia = 3
  C_POSITION = 160
  OffDelay = 3
  Inertia = 2
  LastTrack = 2
  Keys = {k1, k2}
  Noise = noise
  TypedLimit = 5
  CR = CR
  LF = LF
  DEL = DEL
  Others = {c1}
  EOF = EOF
  Garbage = Garbage
  InputLimit = 4
  Rest <- MCRest
  RamContents <- MCRamContents
  PowerUpTicks = 3
  Revisions = {0, 1}
SPECIFICATION FairDevices
INVARIANTS
  HeadFollowsRotor
  Settled
  ScreenIsTrue
  OneStepPerCycle
  StopPendingIfAsked
  NoKeyLost
  ClearedInOrder
  LinesFedInOrder
PROPERTIES
  ImplementsPositioner
  OnlyTurningDiskWritten
  MotorStops
  EndIsSeen
  NothingWrittenUnreset
  StartsAtVector
  PowerUpRuns
