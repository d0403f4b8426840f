SPECIFICATION FairSpec
CONSTANTS
  Folders = {"", "x"}
  Files <- MCFiles
  Denied = "Denied"
  Walk <- MCWalk
  Unreadable = {"sealed"}
  TooLarge = {"big"}
  Digest <- MCDigest
  Library <- MCLibrary
  NoText = "none"
  Nobody = 0
  MayDelete = TRUE
  MaxOpens = 2
INVARIANTS TypeOK OnlyInfectedDeleted OnlyInfectedListed OpenFilesAccounted
PROPERTIES WorkersEnd
CHECK_DEADLOCK FALSE
