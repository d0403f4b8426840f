SPECIFICATION Spec
CONSTANTS
  Drives = {"C", "D", "F"}
  Files <- MCFiles
  Denied = "Denied"
  Walk <- MCWalk
  Unreadable = {"held"}
  TooLarge = {"big"}
  Digest <- MCDigest
  Library <- MCLibrary
  NoText = ""
  Nobody <- MCNobody
  CloseWays = {"X", "Esc"}
  MaxOpens = 1
INVARIANTS InfectedListed
CHECK_DEADLOCK FALSE
