SPECIFICATION Spec
CONSTANTS
  NumChannels = 2
  BatchSizes = {1}
  AudioLimit = 2
  RequestIds = {r1}
  None = None
  MaxJournal = 9
  MaxIoErrors = 1
  RecoverLive = FALSE
INVARIANT ClaimIsRecoverable
