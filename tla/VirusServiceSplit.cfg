SPECIFICATION Spec
CONSTANTS
  Samples = {"cut", "slash"}
  WordLen = 2
  BlockLen = 1
  RowBlocks = 3
  UploadLen = 7
  UpdateLen = 8
  ServerRecv = 12
  RecvLen = 7
  DecryptOut = 5
  ReplyCap = 11
  Zeros <- MCZeros
  Ones <- MCOnes
  Backslashes <- MCBackslashes
  Backlog = 1
  Splits = TRUE
  SameKey = {TRUE}
  MaxConns = 2
  Initial <- NoRows
  MaxStarts = 2
  NoFile = NoFile
  MaxSends = 2
INVARIANTS TableFromUploads
CHECK_DEADLOCK FALSE
