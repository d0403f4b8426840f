---------------------------- MODULE MCByPathScan ----------------------------
(***************************************************************************)
(* Two folders for the scan of a folder: one with two infected files, one   *)
(* that cannot be read and a clean one, and the root that a cancelled       *)
(* picker stands for, with a file of 2 GiB and a directory that cannot be   *)
(* listed.                                                                  *)
(***************************************************************************)
EXTENDS ByPathScan

MCFiles == {"a", "b", "clean", "sealed", "big"}
MCDigest == [f \in MCFiles |-> CASE f \in {"a", "sealed"} -> "aa" [] f = "b" -> "bb" [] OTHER -> "dd"]
MCWalk == [d \in Folders |-> IF d = "" THEN <<"big", "Denied", "a">>
                                      ELSE <<"b", "clean", "sealed", "a">>]
MCLibrary == <<"aa", "bb">>
=============================================================================
