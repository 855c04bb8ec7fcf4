SPECIFICATION Spec
CONSTANTS
  Requests <- AllRequests
  CacheSize = 2
  MaxSessions = 2
  MaxFrames = 1
  MaxStarts = 2
  MaxFailures = 1
INVARIANTS
  TypeOK
  RunsOnce
  MarksOnce
  ServiceTracksRecorder
  EveryTakeIsFinished
PROPERTY OnlyItsRecorderReopens
