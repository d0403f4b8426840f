SPECIFICATION Spec
CONSTANTS
  Word = 128
  Leftover = {0, 10, 30, 127}
  PE = {"a", "b"}
  Image <- MCImage
  Other = "other"
  NoFile = "nofile"
  Typed <- MCTyped
INVARIANT RealRVA
CHECK_DEADLOCK FALSE
