SPECIFICATION FairSpec
CONSTANTS
  Drives = {"C", "D"}
  Files <- MCFiles
  Denied = "Denied"
  Walk <- ReopenWalk
  Unreadable = {"held"}
  TooLarge = {"big"}
  Digest <- MCDigest
  Library <- TinyLibrary
  NoText = ""
  Nobody <- MCNobody
  CloseWays = {"X", "Esc"}
  MaxOpens = 2
INVARIANTS ExclusiveFile InfectedListed
PROPERTIES ReportsOnce WorkersEnd
CHECK_DEADLOCK FALSE
