SPECIFICATION Spec
CONSTANTS
  NumChannels = 2
  BatchSizes = {1}
  AudioLimit = 2
  RequestIds = {}
  None = None
  MaxJournal = 8
  MaxIoErrors = 2
  RecoverLive = FALSE
INVARIANTS
  CommittedIsDurable
  RecoveryIsExact
  CompleteIsExact
