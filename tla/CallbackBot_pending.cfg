SPECIFICATION FairSpec
CONSTANTS
  Txs = {"garbled", "unknownType", "deployment", "noTo", "plain", "other", "cut", "oneinch"}
  Kind <- MCKind
  None = None
  Absent = Absent
  Malformed = Malformed
  MaxBlock = 1
  MaxMessages = 1
  MaxDeliveries = 2
  MaxDisconnects = 1
INVARIANTS
  CallbackTypeOK
PROPERTIES
  ReportsNextBlock
  EveryTransactionRead
  FailureEndsTheBot
CHECK_DEADLOCK FALSE
