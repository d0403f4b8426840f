---------------------------- MODULE MCMainWindow ----------------------------
EXTENDS MainWindow

MCSessions == {{"process", "heap"}, {"process", "blacklist"}, {"services"}, {"startup"},
               {"software"}, {"files"}, {"cleaner"}}
ServiceOrder == <<"s1", "s2">>
SoftwareOrder == <<"k1", "k2", "k3">>
Walk == <<"f1", In, "f2", "f3", Denied, Out, "f4">>
FoundIn == [d \in Folders |->
  IF d = "" THEN <<Denied>> ELSE <<"p1", In, "p2", Denied, Out, "p3">>]
MatchingIn == [s \in Postfixes |->
  CASE s = "" -> Files [] s = ".obj" -> {"p1", "p2"} [] OTHER -> {"p2", "p3"}]
Obj == [pieces |-> <<".obj", ".exe">>, tail |-> ""]
Texts == {[pieces |-> <<".exe">>, tail |-> ".obj"], [pieces |-> <<"">>, tail |-> ""]}

\* Two volumes whose names begin alike, and a drive that tells none.
DeviceOf == [d \in {"A", "C", "D", "E", "F"} |->
  CASE d = "C" -> <<"v", "1">> [] d = "D" -> <<"v", "1", "0">> [] d = "F" -> <<"w">>
    [] OTHER -> <<"none">>]
Path == INSTANCE DevicePath WITH
  Drives <- <<"A", "C", "D", "E", "F">>, Floppies <- {"A"}, Device <- DeviceOf, NoDevice <- <<"none">>

\* The theorems of DevicePathProofs on these drives; behind E: nothing is found.
ASSUME PathsShown ==
  /\ Path!DosPath2NTPath(<<"v", "1", "x">>) = [drive |-> "C", rest |-> <<"x">>]
  /\ Path!DosPath2NTPath(<<"v", "1", "0", "x">>) = [drive |-> "C", rest |-> <<"0", "x">>]
  /\ Path!DosPath2NTPath(<<"w", "x">>) = Path!NotShown
=============================================================================
