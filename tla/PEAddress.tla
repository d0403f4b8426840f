----------------------------- MODULE PEAddress -----------------------------
(***************************************************************************)
(* Conversion between relative virtual addresses and file offsets           *)
(* (GlobalVals.cpp).  A section table is a sequence of [va, raw, ptr]:      *)
(* VirtualAddress, SizeOfRawData and PointerToRawData.  Both functions walk *)
(* the table and end at the first section that decides; when none does they *)
(* fall off their end without a return value, so any word may come back.    *)
(* An outcome names the section whose name was stored in the global         *)
(* sectionName; 0 stands for a call that left it alone.                     *)
(***************************************************************************)
EXTENDS Integers, Sequences

CONSTANTS
  Word,      \* the number of DWORDs, 2^32 in the program
  Leftover   \* bound: the DWORDs a call without a return value may leave behind

Words == 0 .. Word - 1

ASSUME WordAssumption == Word \in Nat \ {0, 1} /\ Leftover \subseteq Words

OutOfRange == Word - 1            \* return -1
Outcome == [value : Words, section : Nat]
Failed == [value |-> OutOfRange, section |-> 0]
Undefined == {[value |-> w, section |-> 0] : w \in Leftover}

Section == [va : Words, raw : Words, ptr : Words]

\* The first section of the walk that ends it.
First(S) == CHOOSE i \in S : \A j \in S : i <= j

\* "<=" : the address behind a section counts as its own.
HasRva(s, rva) == rva >= s.va /\ rva <= (s.va + s.raw) % Word

RvaToFoa(secs, rva) ==
  LET ends == {i \in DOMAIN secs : rva < secs[i].va \/ HasRva(secs[i], rva)}
      s == secs[First(ends)]
  IN IF ends = {} THEN Undefined
     ELSE IF rva < s.va THEN {Failed}
     ELSE {[value |-> (rva - s.va + s.ptr) % Word, section |-> First(ends)]}

\* The upper bound is an address in memory, not an offset in the file.
HasFoa(s, foa) == foa >= s.ptr /\ foa <= (s.va + s.raw) % Word

FoaToRva(secs, foa) ==
  LET ends == {i \in DOMAIN secs : HasFoa(secs[i], foa)}
      s == secs[First(ends)]
  IN IF foa < secs[1].ptr THEN {Failed}
     ELSE IF ends = {} THEN Undefined
     ELSE {[value |-> (foa - s.ptr + s.va) % Word, section |-> First(ends)]}

-----------------------------------------------------------------------------
(* What a linker writes, and what the conversions should return for it.     *)

\* Sections follow each other in memory and in the file.
WellFormed(secs) ==
  /\ secs \in Seq(Section)
  /\ \A i \in DOMAIN secs :
       secs[i].va + secs[i].raw < Word /\ secs[i].ptr + secs[i].raw < Word
  /\ \A i, j \in DOMAIN secs :
       i < j => secs[i].va < secs[j].va /\ secs[i].va + secs[i].raw <= secs[j].va
  /\ \A i \in DOMAIN secs :
       i + 1 \in DOMAIN secs /\ secs[i].raw > 0 /\ secs[i + 1].raw > 0 =>
         secs[i + 1].ptr = secs[i].ptr + secs[i].raw

\* rva is the address of a byte of section i that is in the file.
Inside(secs, i, rva) == rva >= secs[i].va /\ rva < secs[i].va + secs[i].raw

\* The offset of that byte.
OffsetOf(secs, i, rva) == rva - secs[i].va + secs[i].ptr

=============================================================================
