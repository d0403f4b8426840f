SPECIFICATION Spec
CONSTANTS
  Folders = {"", "x"}
  Files <- MCFiles
  Denied = "Denied"
  Walk <- MCWalk
  Unreadable = {"sealed"}
  TooLarge = {"big"}
  Digest <- MCDigest
  Library <- MCLibrary
  NoText = "none"
  Nobody = 0
  MayDelete = FALSE
  MaxOpens = 1
INVARIANTS InfectedListed
CHECK_DEADLOCK FALSE
