SPECIFICATION Spec
CONSTANTS
  NumChannels = 2
  BatchSizes = {1, 2}
  AudioLimit = 3
  RequestIds = {r1}
  None = None
  MaxJournal = 9
  MaxIoErrors = 0
  RecoverLive = FALSE
PROPERTY ImplementsDurableTake
INVARIANTS
  TypeOK
  CommittedIsDurable
  ClaimIsRecoverable
  SessionBehindJournal
  CommittedIsAligned
  RecoveryIsExact
  RefusalLosesNothing
  CompleteIsExact
