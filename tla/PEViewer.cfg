SPECIFICATION Spec
CONSTANTS
  Word = 128
  Leftover = {0, 10, 30, 127}
  PE = {"a", "b"}
  Image <- MCImage
  Other = "other"
  NoFile = "nofile"
  Typed <- MCTyped
INVARIANTS TypeOK CalculatorAgrees TableRight ExportsComplete BlockOfRow
CHECK_DEADLOCK FALSE
