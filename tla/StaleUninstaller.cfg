SPECIFICATION Spec
CONSTANTS
  Sessions <- MCSessions
  Pids = {1, 2}
  Own = 1
  Protected = {}
  MaxStarts = 1
  MaxListed = 2
  MaxHeaps = 2
  MaxBlocks = 1
  Services <- ServiceOrder
  NoService = ""
  Startable = {"s1", "s2"}
  Stoppable = {"s1", "s2"}
  Unopened = {"s2"}
  Values = {"", "v", "w"}
  NoName = ""
  Fits = {"", "v"}
  Rubbish = "rubbish"
  Installed <- SoftwareOrder
  HasCommand = {"k1", "k3"}
  NoCommand = ""
  Garbage = "garbage"
  FileWalk <- Walk
  In = "in"
  Out = "out"
  Denied = "denied"
  NoIcon = "noicon"
  MaxFileLists = 2
  Folders = {"", "p"}
  NoPath = ""
  Found <- FoundIn
  Postfixes = {"", ".obj", ".exe"}
  NoSuffix = ""
  Matching <- MatchingIn
  Locked = {"p1"}
  Default <- Obj
  TypedTexts <- Texts
INVARIANT OwnUninstaller
CHECK_DEADLOCK FALSE
