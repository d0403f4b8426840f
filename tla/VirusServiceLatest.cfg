SPECIFICATION Spec
CONSTANTS
  Samples = {"s1", "s2"}
  WordLen = 2
  BlockLen = 2
  RowBlocks = 3
  UploadLen = 10
  UpdateLen = 11
  ServerRecv = 23
  RecvLen = 14
  DecryptOut = 5
  ReplyCap = 20
  Zeros <- MCZeros
  Ones <- MCOnes
  Backslashes <- MCBackslashes
  Backlog = 1
  Splits = FALSE
  SameKey = {TRUE}
  MaxConns = 2
  Initial <- TwoRows
  MaxStarts = 2
  NoFile = NoFile
  MaxSends = 3
INVARIANTS UpToDate
CHECK_DEADLOCK FALSE
