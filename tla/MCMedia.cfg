CONSTANTS
  StopAfter = 5
  SampleCycles = 2
  HeadWidths = {2}
  HeadCount = 2
  WaveCycles = 1
  Longest = 4
  FlatTop = 3
  FlatBottom = 3
  MaxPulses = 2
  Recordings <- MCRecordings
  C_QTRACK = 4
  Kludge = 2
  CellCount = 3
  DefaultLength = 3
  Images <- MCImages
  NoImage = NoImage
  Unset = Unset
  WriteLimit = 2
SPECIFICATION MediaSpec
CHECK_DEADLOCK FALSE
INVARIANTS
  UnmodifiedTapeIsSaved
  ClockIsTrue
  FileTellsIntervals
  LevelFollowsTape
  UnmodifiedIsSaved
PROPERTIES
  NothingLostUnasked
  TracksSurviveSaves
  BitReadIsOnTrack
  ImplementsFloppy
