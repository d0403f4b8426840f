--------------------------- MODULE PEViewerProofs ---------------------------
(***************************************************************************)
(* What rvaTofoa and foaTorva return, for every table of sections a linker  *)
(* writes and every width of a DWORD, and from that what the calculator and *)
(* the tables and relocation blocks of the PE viewer show, whatever files   *)
(* and dialogs came before.                                                 *)
(***************************************************************************)
EXTENDS PEViewer, ListControlProofs, FiniteSetTheorems

-----------------------------------------------------------------------------
(* The conversions.                                                         *)

\* An address inside a range, moved with the range to where it ends before W.
LEMMA MovedFits ==
  ASSUME NEW r \in Nat, NEW v \in Nat, NEW n \in Nat, NEW p \in Nat, NEW W \in Nat,
         r >= v, r < v + n, p + n < W
  PROVE  r - v + p \in Nat /\ r - v + p < W
OBVIOUS

\* A sum that fits a DWORD is not changed by the width of a DWORD.
LEMMA SmallMod ==
  ASSUME NEW w \in Nat \ {0}, NEW n \in Nat, n < w
  PROVE  n % w = n
  OBVIOUS

\* A walk that ends at k and at no section before k has k as its first end.
LEMMA FirstIs ==
  ASSUME NEW S \in SUBSET Nat, NEW k \in S, \A j \in S : k <= j
  PROVE  First(S) = k
<1>1. First(S) \in S /\ First(S) <= k
  BY DEF First
<1>2. First(S) \in Nat /\ k \in Nat /\ k <= First(S)
  BY <1>1
<1> QED
  BY <1>1, <1>2

\* The address of a byte that is in the file converts to the offset of that
\* byte, whatever the table.  The name kept is the byte's section's, unless
\* the byte is the first one behind the section before it (GlobalVals.cpp:24).
THEOREM RvaToFoaRight ==
  ASSUME NEW secs, WellFormed(secs), NEW i \in DOMAIN secs, NEW rva \in Words,
         Inside(secs, i, rva)
  PROVE  \E k \in {i - 1, i} :
           /\ RvaToFoa(secs, rva) =
                {[value |-> OffsetOf(secs, i, rva), section |-> k]}
           /\ k = i \/ (k \in DOMAIN secs /\ rva = secs[k].va + secs[k].raw)
<1> DEFINE Ends == {j \in DOMAIN secs : rva < secs[j].va \/ HasRva(secs[j], rva)}
<1>w. Word \in Nat \ {0} /\ Words = 0 .. Word - 1
  BY WordAssumption DEF Words
<1>d. DOMAIN secs \subseteq Nat /\ Ends \subseteq Nat
  BY DEF WellFormed
<1>s. \A j \in DOMAIN secs :
        /\ secs[j].va \in Nat /\ secs[j].raw \in Nat /\ secs[j].ptr \in Nat
        /\ (secs[j].va + secs[j].raw) % Word = secs[j].va + secs[j].raw
        /\ secs[j].va + secs[j].raw < Word /\ secs[j].ptr + secs[j].raw < Word
  <2> TAKE j \in DOMAIN secs
  <2>1. secs[j] \in Section
    BY DEF WellFormed
  <2>2. secs[j].va \in Nat /\ secs[j].raw \in Nat /\ secs[j].ptr \in Nat
    BY <2>1, <1>w DEF Section
  <2>3. secs[j].va + secs[j].raw < Word /\ secs[j].ptr + secs[j].raw < Word
    BY DEF WellFormed
  <2>4. (secs[j].va + secs[j].raw) % Word = secs[j].va + secs[j].raw
    <3>1. secs[j].va + secs[j].raw \in Nat
      BY <2>2
    <3> QED
      BY <3>1, <2>3, <1>w, SmallMod, Zenon
  <2> QED
    BY <2>2, <2>3, <2>4
<1>o. \A j, k \in DOMAIN secs : j < k =>
        secs[j].va < secs[k].va /\ secs[j].va + secs[j].raw <= secs[k].va
  BY DEF WellFormed
<1>r. rva \in Nat /\ i \in Nat
  BY <1>w, <1>d
<1>i. i \in Ends
  BY <1>s, <1>r DEF Inside, HasRva
\* A section before i that ends the walk ends at rva and stands right before i.
<1>b. ASSUME NEW j \in Ends, j < i
      PROVE  j = i - 1 /\ rva = secs[j].va + secs[j].raw /\ rva = secs[i].va
  <2>1. secs[j].va < secs[i].va /\ secs[j].va + secs[j].raw <= secs[i].va
    BY <1>b, <1>o
  <2>2. rva >= secs[i].va
    BY DEF Inside
  <2>3. rva <= secs[j].va + secs[j].raw
    BY <1>s, <1>r, <2>1, <2>2 DEF HasRva
  <2>4. rva = secs[j].va + secs[j].raw /\ rva = secs[i].va
    BY <1>s, <1>r, <2>1, <2>2, <2>3
  <2>5. j + 1 = i
    <3> SUFFICES ASSUME j + 1 < i PROVE FALSE
      BY <1>b, <1>d, <1>r
    <3>1. j + 1 \in DOMAIN secs
      <4>1. DOMAIN secs = 1 .. Len(secs) /\ Len(secs) \in Nat
        BY DEF WellFormed
      <4> QED
        BY <4>1, <1>r, <1>d
    <3>2. secs[j].va + secs[j].raw <= secs[j + 1].va /\ secs[j + 1].va < secs[i].va
      BY <1>o, <3>1, <1>d
    <3> QED
      BY <2>4, <3>1, <3>2, <1>s
  <2> QED
    BY <2>4, <2>5, <1>d
<1>1. CASE \A j \in Ends : i <= j
  <2>1. First(Ends) = i
    BY <1>1, <1>i, <1>d, FirstIs
  <2>2. ~(rva < secs[i].va) /\ Ends # {}
    BY <1>i, <1>s, <1>r DEF Inside
  <2>3. (rva - secs[i].va + secs[i].ptr) % Word = OffsetOf(secs, i, rva)
    <3>1. OffsetOf(secs, i, rva) \in Nat /\ OffsetOf(secs, i, rva) < Word
      <4>1. /\ secs[i].va \in Nat /\ secs[i].raw \in Nat /\ secs[i].ptr \in Nat
            /\ secs[i].ptr + secs[i].raw < Word
        BY <1>s
      <4>2. rva >= secs[i].va /\ rva < secs[i].va + secs[i].raw
        BY DEF Inside
      <4> QED
        BY <4>1, <4>2, <1>r, <1>w, MovedFits DEF OffsetOf
    <3> QED
      BY <3>1, <1>w, SmallMod, Zenon DEF OffsetOf
  <2> QED
    BY <2>1, <2>2, <2>3 DEF RvaToFoa
<1>2. CASE \E j \in Ends : ~(i <= j)
  <2>1. PICK j \in Ends : j < i
    BY <1>2, <1>d, <1>r
  <2>2. j = i - 1 /\ rva = secs[j].va + secs[j].raw /\ rva = secs[i].va
    BY <2>1, <1>b
  <2>3. First(Ends) = j
    <3>1. ASSUME NEW k \in Ends PROVE j <= k
      BY <1>b, <1>d, <2>2, <1>r
    <3> QED
      BY <3>1, <1>d, FirstIs
  <2>4. secs[j].raw > 0 /\ secs[i].raw > 0
    BY <2>1, <2>2, <1>s, <1>o, <1>r DEF Inside
  <2>5. secs[i].ptr = secs[j].ptr + secs[j].raw
    <3>1. j \in DOMAIN secs /\ i = j + 1
      BY <2>1, <2>2, <1>d, <1>r
    <3> QED
      BY <2>4, <3>1 DEF WellFormed
  <2>6. ~(rva < secs[j].va) /\ Ends # {}
    BY <2>1, <2>2, <1>s
  <2>7. (rva - secs[j].va + secs[j].ptr) % Word = OffsetOf(secs, i, rva)
    <3>1. j \in DOMAIN secs
      BY <2>1
    <3>2. rva - secs[j].va + secs[j].ptr = secs[i].ptr
      BY <3>1, <1>s, <2>2, <2>5
    <3>3. OffsetOf(secs, i, rva) = secs[i].ptr
      BY <1>s, <2>2 DEF OffsetOf
    <3>4. secs[i].ptr \in Nat /\ secs[i].ptr < Word
      <4>1. /\ secs[i].ptr \in Nat /\ secs[i].raw \in Nat
            /\ secs[i].ptr + secs[i].raw < Word
        BY <1>s
      <4> QED
        BY <4>1, <1>w
    <3> QED
      BY <3>2, <3>3, <3>4, <1>w, SmallMod, Zenon
  <2> QED
    BY <2>2, <2>3, <2>6, <2>7 DEF RvaToFoa
<1> QED
  BY <1>1, <1>2

\* The offset of a byte of a section converts back to the byte's address and section
\* exactly when the offset is not below the first section, is not above the section's
\* end in memory, and no earlier section reaches it with the end it has in memory: the
\* bound of GlobalVals.cpp:56, for every table of sections and every section of it.
THEOREM FoaToRvaRight ==
  ASSUME NEW secs, WellFormed(secs), NEW i \in DOMAIN secs, NEW rva \in Words, Inside(secs, i, rva)
  PROVE  FoaToRva(secs, OffsetOf(secs, i, rva)) = {[value |-> rva, section |-> i]}
           <=> /\ OffsetOf(secs, i, rva) >= secs[1].ptr
               /\ OffsetOf(secs, i, rva) <= secs[i].va + secs[i].raw
               /\ \A j \in 1 .. i - 1 :
                    ~ (secs[j].ptr <= OffsetOf(secs, i, rva)
                         /\ OffsetOf(secs, i, rva) <= secs[j].va + secs[j].raw)
<1> DEFINE foa == OffsetOf(secs, i, rva)
           Ends == {j \in DOMAIN secs : HasFoa(secs[j], foa)}
           Reached(j) == secs[j].ptr <= foa /\ foa <= secs[j].va + secs[j].raw
<1>w. Word \in Nat \ {0} /\ rva \in Nat /\ rva < Word
  BY WordAssumption DEF Words
<1>d. /\ DOMAIN secs = 1 .. Len(secs) /\ Len(secs) \in Nat /\ i \in Nat /\ i >= 1
      /\ \A j \in DOMAIN secs : secs[j] \in Section
  BY DEF WellFormed
<1>s. \A j \in DOMAIN secs :
        /\ secs[j].va \in Nat /\ secs[j].raw \in Nat /\ secs[j].ptr \in Nat
        /\ secs[j].va + secs[j].raw < Word
  <2>1. \A j \in DOMAIN secs : secs[j].va \in Nat /\ secs[j].raw \in Nat /\ secs[j].ptr \in Nat
    BY <1>d, <1>w DEF Section, Words
  <2>. QED
    BY <2>1 DEF WellFormed
<1>f. foa \in Nat /\ foa >= secs[i].ptr /\ foa - secs[i].ptr + secs[i].va = rva
  BY <1>s, <1>w DEF OffsetOf, Inside
<1>h. \A j \in DOMAIN secs : HasFoa(secs[j], foa) <=> Reached(j)
  <2> TAKE j \in DOMAIN secs
  <2>1. (secs[j].va + secs[j].raw) % Word = secs[j].va + secs[j].raw
    <3>1. secs[j].va + secs[j].raw \in Nat /\ secs[j].va + secs[j].raw < Word
      BY <1>s
    <3>. QED
      BY <3>1, <1>w, SmallMod, Zenon
  <2>. QED
    BY <2>1, <1>s, <1>f DEF HasFoa
<1>e. Ends \subseteq Nat /\ \A j \in Ends : j \in DOMAIN secs /\ j >= 1
  BY <1>d
<1>m. (foa - secs[i].ptr + secs[i].va) % Word = rva
  BY <1>f, <1>w, SmallMod, Zenon
<1> HIDE DEF foa, Ends, Reached
<1>1. ASSUME foa >= secs[1].ptr, Reached(i), \A j \in 1 .. i - 1 : ~Reached(j)
      PROVE  FoaToRva(secs, foa) = {[value |-> rva, section |-> i]}
  <2>1. i \in Ends
    BY <1>h, <1>1 DEF Ends
  <2>2. \A j \in Ends : i <= j
    BY <1>d, <1>e, <1>h, <1>1 DEF Ends
  <2>3. First(Ends) = i
    BY <1>e, <2>1, <2>2, FirstIs
  <2>4. ~(foa < secs[1].ptr)
    BY <1>1, <1>f, <1>s, <1>d
  <2>. QED
    BY <1>m, <2>1, <2>3, <2>4 DEF FoaToRva, Ends
<1>2. ASSUME FoaToRva(secs, foa) = {[value |-> rva, section |-> i]}
      PROVE  foa >= secs[1].ptr /\ Reached(i) /\ \A j \in 1 .. i - 1 : ~Reached(j)
  <2>1. PICK o : o = [value |-> rva, section |-> i]
    OBVIOUS
  <2>2. o \in FoaToRva(secs, foa) /\ o.section = i /\ i # 0
    BY <1>2, <1>d, <2>1
  <2>3. \A u \in Undefined : u.section = 0
    BY DEF Undefined
  <2>4. ~(foa < secs[1].ptr)
    BY <2>2 DEF FoaToRva, Failed
  <2>5. Ends # {}
    BY <2>2, <2>3, <2>4 DEF FoaToRva, Ends
  <2>6. First(Ends) = i
    BY <2>2, <2>4, <2>5 DEF FoaToRva, Ends
  <2>7. PICK n \in Ends : \A j \in Ends : n <= j
    BY <1>e, <2>5, LeastNumber
  <2>8. n = i
    BY <1>e, <2>6, <2>7, FirstIs
  <2>9. Reached(i)
    BY <1>h, <2>7, <2>8 DEF Ends
  <2>10. ASSUME NEW j \in 1 .. i - 1, Reached(j) PROVE FALSE
    <3>1. j \in DOMAIN secs
      BY <1>d
    <3>2. j \in Ends
      BY <1>h, <2>10, <3>1 DEF Ends
    <3>. QED
      BY <2>7, <2>8, <3>2, <1>d
  <2>11. foa >= secs[1].ptr
    <3>1. 1 \in DOMAIN secs
      BY <1>d
    <3>2. secs[1].ptr \in Nat
      BY <1>s, <3>1
    <3>. QED
      BY <1>f, <2>4, <3>2
  <2>. QED
    BY <2>9, <2>10, <2>11
<1>. QED
  <2>1. foa <= secs[i].va + secs[i].raw <=> Reached(i)
    BY <1>f, <1>s DEF Reached
  <2>. QED
    BY <1>1, <1>2, <2>1 DEF foa, Reached

-----------------------------------------------------------------------------
(* What a file says of its addresses.                                       *)

LEMMA WordFacts == Word \in Nat \ {0} /\ Word > 1 /\ Words = 0 .. Word - 1 /\ Words \subseteq Nat
BY WordAssumption DEF Words

\* The table of sections of a PE file.
LEMMA SectionsOf ==
  ASSUME NEW f \in PE
  PROVE  /\ WellFormed(Image[f].secs)
         /\ DOMAIN Image[f].secs = 1 .. Len(Image[f].secs) /\ Len(Image[f].secs) \in Nat \ {0}
         /\ \A i \in DOMAIN Image[f].secs :
              /\ Image[f].secs[i].va \in Nat /\ Image[f].secs[i].raw \in Nat
              /\ Image[f].secs[i].ptr \in Nat
<1>1. WellFormed(Image[f].secs) /\ Image[f].secs # <<>> /\ Image[f].secs \in Seq(Section)
  BY ImageAssumption DEF WellFormed
<1>2. \A i \in DOMAIN Image[f].secs : Image[f].secs[i] \in Section
  BY <1>1
<1>. QED
  BY <1>1, <1>2, WordFacts DEF Section

\* Whatever the section table is, a conversion returns a word and names a section or none.
LEMMA RvaToFoaTyped ==
  ASSUME NEW f \in PE, NEW rva \in Words, NEW o \in RvaToFoa(Image[f].secs, rva)
  PROVE  o \in Outcome
<1> DEFINE secs == Image[f].secs
           ends == {i \in DOMAIN secs : rva < secs[i].va \/ HasRva(secs[i], rva)}
<1>1. CASE o \in Undefined
  BY <1>1, WordAssumption DEF Undefined, Outcome
<1>2. CASE o = Failed
  BY <1>2, WordFacts DEF Failed, OutOfRange, Outcome
<1>3. CASE ends # {} /\ o = [value |-> (rva - secs[First(ends)].va + secs[First(ends)].ptr) % Word,
                             section |-> First(ends)]
  <2>1. First(ends) \in ends
    <3>1. ends \in SUBSET Nat
      BY SectionsOf
    <3> HIDE DEF ends
    <3>2. \E x \in ends : \A y \in ends : x <= y
      BY <1>3, <3>1, LeastNumber
    <3>. QED
      BY <3>2 DEF First
  <2>2. PICK k \in DOMAIN secs : k = First(ends)
    BY <2>1
  <2>3. k \in Nat /\ secs[k].va \in Nat /\ secs[k].ptr \in Nat
    BY SectionsOf
  <2>4. (rva - secs[k].va + secs[k].ptr) % Word \in Words
    <3>1. PICK n \in Int : n = rva - secs[k].va + secs[k].ptr
      BY <2>3, WordFacts
    <3>2. n % Word \in 0 .. Word - 1
      BY <3>1, WordFacts
    <3>. QED
      BY <3>1, <3>2 DEF Words
  <2>. QED
    BY <1>3, <2>2, <2>3, <2>4 DEF Outcome
<1>. QED
  BY <1>1, <1>2, <1>3 DEF RvaToFoa

LEMMA FoaToRvaTyped ==
  ASSUME NEW f \in PE, NEW foa \in Words, NEW o \in FoaToRva(Image[f].secs, foa)
  PROVE  o \in Outcome
<1> DEFINE secs == Image[f].secs
           ends == {i \in DOMAIN secs : HasFoa(secs[i], foa)}
<1>1. CASE o \in Undefined
  BY <1>1, WordAssumption DEF Undefined, Outcome
<1>2. CASE o = Failed
  BY <1>2, WordFacts DEF Failed, OutOfRange, Outcome
<1>3. CASE ends # {} /\ o = [value |-> (foa - secs[First(ends)].ptr + secs[First(ends)].va) % Word,
                             section |-> First(ends)]
  <2>1. First(ends) \in ends
    <3>1. ends \in SUBSET Nat
      BY SectionsOf
    <3> HIDE DEF ends
    <3>2. \E x \in ends : \A y \in ends : x <= y
      BY <1>3, <3>1, LeastNumber
    <3>. QED
      BY <3>2 DEF First
  <2>2. PICK k \in DOMAIN secs : k = First(ends)
    BY <2>1
  <2>3. k \in Nat /\ secs[k].va \in Nat /\ secs[k].ptr \in Nat
    BY SectionsOf
  <2>4. (foa - secs[k].ptr + secs[k].va) % Word \in Words
    <3>1. PICK n \in Int : n = foa - secs[k].ptr + secs[k].va
      BY <2>3, WordFacts
    <3>2. n % Word \in 0 .. Word - 1
      BY <3>1, WordFacts
    <3>. QED
      BY <3>1, <3>2 DEF Words
  <2>. QED
    BY <1>3, <2>2, <2>3, <2>4 DEF Outcome
<1>. QED
  BY <1>1, <1>2, <1>3 DEF FoaToRva

\* The offset of an address in the file, by way of whatever section: the byte's own or
\* one that ends at it.
LEMMA OffsetFound ==
  ASSUME NEW f \in PE, NEW rva \in Words, NEW o \in RvaToFoa(Image[f].secs, rva), InFile(f, rva)
  PROVE  /\ o.value = Offset(f, rva) /\ o.section \in DOMAIN Image[f].secs
         /\ \/ Inside(Image[f].secs, o.section, rva)
            \/ rva = Image[f].secs[o.section].va + Image[f].secs[o.section].raw
<1> DEFINE secs == Image[f].secs
<1>1. PICK i \in DOMAIN secs : i = CHOOSE c \in DOMAIN secs : Inside(secs, c, rva)
  BY DEF InFile
<1>2. Inside(secs, i, rva)
  BY <1>1 DEF InFile
<1>3. Offset(f, rva) = OffsetOf(secs, i, rva)
  BY <1>1 DEF Offset
<1>4. PICK k \in {i - 1, i} :
        /\ RvaToFoa(secs, rva) = {[value |-> OffsetOf(secs, i, rva), section |-> k]}
        /\ k = i \/ (k \in DOMAIN secs /\ rva = secs[k].va + secs[k].raw)
  <2>1. WellFormed(secs)
    BY SectionsOf
  <2> HIDE DEF secs
  <2>. QED
    BY <1>2, <2>1, RvaToFoaRight
<1>5. o.value = OffsetOf(secs, i, rva) /\ o.section = k
  BY <1>4
<1>. QED
  BY <1>2, <1>3, <1>4, <1>5

\* Of a section that holds an address the offset is the offset, whichever section the
\* choice falls on: sections do not overlap.
LEMMA OffsetIs ==
  ASSUME NEW f \in PE, NEW i \in DOMAIN Image[f].secs, NEW rva \in Words, Inside(Image[f].secs, i, rva)
  PROVE  InFile(f, rva) /\ Offset(f, rva) = OffsetOf(Image[f].secs, i, rva)
<1> DEFINE secs == Image[f].secs
<1>1. InFile(f, rva)
  BY DEF InFile
<1>2. PICK j \in DOMAIN secs : j = CHOOSE c \in DOMAIN secs : Inside(secs, c, rva)
  OBVIOUS
<1>3. Inside(secs, j, rva) /\ Offset(f, rva) = OffsetOf(secs, j, rva)
  BY <1>2 DEF Offset
<1>4. \A k, l \in DOMAIN secs : k < l => secs[k].va + secs[k].raw <= secs[l].va
  BY SectionsOf DEF WellFormed
<1>5. i = j
  <2>1. ~(i < j) /\ ~(j < i)
    <3>1. /\ secs[i].va \in Nat /\ secs[i].raw \in Nat /\ secs[j].va \in Nat /\ secs[j].raw \in Nat
          /\ rva \in Nat
      BY SectionsOf, WordFacts
    <3>2. rva >= secs[i].va /\ rva < secs[i].va + secs[i].raw
          /\ rva >= secs[j].va /\ rva < secs[j].va + secs[j].raw
      BY <1>3 DEF Inside
    <3>. QED
      BY <1>4, <3>1, <3>2
  <2>2. i \in Nat /\ j \in Nat
    BY SectionsOf
  <2>. QED
    BY <2>1, <2>2
<1>. QED
  BY <1>1, <1>3, <1>5


-----------------------------------------------------------------------------
(* Type correctness and the calculator.                                     *)

LEMMA OutcomesTyped ==
  /\ \A rva \in Words : ToFoa(rva) \subseteq Outcome
  /\ \A foa \in Words : ToRva(foa) \subseteq Outcome
<1>1. Undefined \subseteq Outcome
  BY WordAssumption DEF Undefined, Outcome
<1>2. ASSUME NEW rva \in Words PROVE ToFoa(rva) \subseteq Outcome
  BY <1>1, RvaToFoaTyped DEF ToFoa, Secs
<1>3. ASSUME NEW foa \in Words PROVE ToRva(foa) \subseteq Outcome
  BY <1>1, FoaToRvaTyped DEF ToRva, Secs
<1>. QED
  BY <1>2, <1>3

Texts == Words \cup {Blank}
CalcType == [editable : 1 .. 3, va : Texts, rva : Texts, foa : Texts, section : {calc.section}, by : 0 .. 3]

ViewerInv ==
  /\ dialog \in {"none", "file", "calc", "dirs"} \cup Tables
  /\ buff \in Files /\ head \in Files /\ shown \in PE \cup {NoFile}
  /\ isActive \in 1 .. 3 /\ calc \in CalcType
  /\ last \in [rva : Words, foa : Words] /\ DOMAIN dpMap \subseteq Words
  /\ ended \in BOOLEAN
  /\ buff \in PE => head = buff

LEMMA ParsedTyped ==
  ASSUME NEW text \in Texts
  PROVE  Parsed(text) \in Words
<1>1. PICK h \in Nat : h = Word \div 2 /\ 0 < h /\ h <= Word
  BY WordFacts
<1>2. CASE text = Blank
  BY <1>2, WordFacts DEF Parsed
<1>3. CASE text # Blank
  <2>1. text \in Words /\ text \in Nat
    BY <1>3, WordFacts DEF Texts
  <2>2. Parsed(text) = IF text < h THEN text ELSE h - 1
    BY <1>1, <1>3 DEF Parsed
  <2>3. h - 1 \in Words
    BY <1>1, WordFacts
  <2>. QED
    BY <2>1, <2>2, <2>3
<1>. QED
  BY <1>2, <1>3

LEMMA ModTyped ==
  ASSUME NEW n \in Int
  PROVE  n % Word \in Words
BY WordFacts

LEMMA ClearedTyped ==
  ASSUME NEW mode \in 1 .. 3
  PROVE  /\ Cleared(mode) \in [editable : 1 .. 3, va : Texts, rva : Texts, foa : Texts,
                               section : {Cleared(mode).section}, by : 0 .. 3]
         /\ Cleared(mode).by = 0
BY DEF Cleared, Texts

\* What a click on the calculator's button leaves in its fields.
Click(c, mode, va, rva, foa, name) ==
  c \in [editable : 1 .. 3, va : {va}, rva : {rva}, foa : {foa}, section : {name}, by : {mode}]

\* The two fields a mode writes, and the one it converts from.
Writes(c, mode, va, rva, foa, name) ==
  \/ c = [calc EXCEPT !.rva = rva, !.foa = foa, !.section = name, !.by = mode] /\ va = calc.va
  \/ c = [calc EXCEPT !.va = va, !.foa = foa, !.section = name, !.by = mode] /\ rva = calc.rva
  \/ c = [calc EXCEPT !.rva = rva, !.va = va, !.section = name, !.by = mode] /\ foa = calc.foa

LEMMA FieldsWritten ==
  ASSUME ViewerInv, NEW c, NEW mode, NEW va, NEW rva, NEW foa, NEW name,
         Writes(c, mode, va, rva, foa, name)
  PROVE  Click(c, mode, va, rva, foa, name)
<1>1. PICK n : n = calc.section
  OBVIOUS
<1>2. calc \in [editable : 1 .. 3, va : Texts, rva : Texts, foa : Texts, section : {n}, by : 0 .. 3]
  BY <1>1 DEF ViewerInv, CalcType
<1>3. CASE c = [calc EXCEPT !.rva = rva, !.foa = foa, !.section = name, !.by = mode] /\ va = calc.va
  BY <1>2, <1>3 DEF Click
<1>4. CASE c = [calc EXCEPT !.va = va, !.foa = foa, !.section = name, !.by = mode] /\ rva = calc.rva
  BY <1>2, <1>4 DEF Click
<1>5. CASE c = [calc EXCEPT !.rva = rva, !.va = va, !.section = name, !.by = mode] /\ foa = calc.foa
  BY <1>2, <1>5 DEF Click
<1>. QED
  BY <1>3, <1>4, <1>5 DEF Writes

LEMMA SumTyped == \A m, n \in Words : (m + n) % Word \in Words /\ (m - n) % Word \in Words
BY WordFacts

LEMMA CalculatedIs ==
  ASSUME ViewerInv, NEW base \in Words, NEW c \in Calculated(base)
  PROVE  \/ \E rva \in Words : \E o \in ToFoa(rva) :
              /\ rva = (Parsed(calc.va) - base) % Word
              /\ Click(c, 1, calc.va, rva, o.value, NameAfter(o, sectionName))
         \/ \E va \in Words : \E o \in ToFoa(Parsed(calc.rva)) :
              /\ va = (Parsed(calc.rva) + base) % Word
              /\ Click(c, 2, va, calc.rva, o.value, NameAfter(o, sectionName))
         \/ \E va \in Words : \E o \in ToRva(Parsed(calc.foa)) :
              Click(c, 3, va, o.value, calc.foa, NameAfter(o, sectionName))
<1>1. calc.va \in Texts /\ calc.rva \in Texts /\ calc.foa \in Texts
  BY DEF ViewerInv, CalcType
<1>2. Parsed(calc.va) \in Words /\ Parsed(calc.rva) \in Words /\ Parsed(calc.foa) \in Words
  BY <1>1, ParsedTyped
<1>3. CASE isActive = 1
  <2>1. PICK rva \in Words : rva = (Parsed(calc.va) - base) % Word
    BY <1>2, SumTyped
  <2>2. c \in FromVA(base)
    BY <1>3 DEF Calculated
  <2>3. PICK o \in ToFoa(rva) :
          c = [calc EXCEPT !.rva = rva, !.foa = o.value, !.section = NameAfter(o, sectionName), !.by = 1]
    BY <2>1, <2>2 DEF FromVA
  <2>4. Writes(c, 1, calc.va, rva, o.value, NameAfter(o, sectionName))
    BY <2>3 DEF Writes
  <2>. QED
    BY <2>1, <2>4, FieldsWritten
<1>4. CASE isActive = 2
  <2>1. PICK va \in Words : va = (Parsed(calc.rva) + base) % Word
    BY <1>2, SumTyped
  <2>2. c \in FromRVA(base)
    BY <1>4 DEF Calculated
  <2>3. PICK o \in ToFoa(Parsed(calc.rva)) :
          c = [calc EXCEPT !.va = va, !.foa = o.value, !.section = NameAfter(o, sectionName), !.by = 2]
    BY <2>1, <2>2 DEF FromRVA
  <2>4. Writes(c, 2, va, calc.rva, o.value, NameAfter(o, sectionName))
    BY <2>3 DEF Writes
  <2>. QED
    BY <2>1, <2>4, FieldsWritten
<1>5. CASE isActive = 3
  <2>1. c \in FromFOA(base)
    BY <1>5 DEF Calculated
  <2>2. PICK o \in ToRva(Parsed(calc.foa)) :
          c = [calc EXCEPT !.rva = o.value, !.va = (o.value + base) % Word,
                           !.section = NameAfter(o, sectionName), !.by = 3]
    BY <2>1 DEF FromFOA
  <2>3. o.value \in Words
    BY <1>2, OutcomesTyped DEF Outcome
  <2>4. PICK va \in Words : va = (o.value + base) % Word
    BY <2>3, SumTyped
  <2>5. Writes(c, 3, va, o.value, calc.foa, NameAfter(o, sectionName))
    BY <2>2, <2>4 DEF Writes
  <2>. QED
    BY <2>4, <2>5, FieldsWritten
<1>. QED
  BY <1>3, <1>4, <1>5 DEF ViewerInv

LEMMA BasesTyped == ViewerInv => Bases \subseteq Words
BY ImageAssumption, WordAssumption DEF ViewerInv, Bases

LEMMA DirectoryTyped == \A kind \in Tables : Directory(kind) \subseteq Outcome
<1>1. \A kind \in Tables : buff \in PE => Image[buff].dir[kind] \in Words
  BY ImageAssumption
<1>2. Undefined \subseteq Outcome
  BY WordAssumption DEF Undefined, Outcome
<1>. QED
  BY <1>1, <1>2, OutcomesTyped DEF Directory

LEMMA HoldsTyped ==
  /\ \A foa : Known("relocs", foa) => Holds("relocs", foa) \in Contents.relocs
  /\ \A foa : Known("imports", foa) => Holds("imports", foa) \in Contents.imports
  /\ \A foa : Known("thunks", foa) => Holds("thunks", foa) \in Contents.thunks
  /\ \A foa : Known("exports", foa) => Holds("exports", foa) \in Contents.exports
  /\ \A foa : Known("resources", foa) => Holds("resources", foa) \in Contents.resources
<1>1. \A kind, foa : Known(kind, foa) => /\ Holds(kind, foa) = Image[buff].holds[<<kind, foa>>]
                                         /\ buff \in PE /\ <<kind, foa>> \in DOMAIN Image[buff].holds
  BY DEF Known, Holds
<1>2. ASSUME NEW kind, NEW foa, Known(kind, foa) PROVE Holds(kind, foa) \in Contents[kind]
  <2>1. PICK x : x = <<kind, foa>>
    OBVIOUS
  <2>2. Image[buff].holds[x] \in Contents[x[1]]
    BY <1>1, <1>2, <2>1, ImageAssumption
  <2>. QED
    BY <1>1, <1>2, <2>1, <2>2
<1>. QED
  BY <1>2 DEF Contents

LEMMA ToFoasTyped ==
  ASSUME NEW rvas, NEW outs \in ToFoas(rvas)
  PROVE  /\ DOMAIN outs = DOMAIN rvas
         /\ \A i \in DOMAIN rvas : outs[i] \in ToFoa(rvas[i])
BY DEF ToFoas

\* Initially nothing is open.
LEMMA ViewerInvInit == Init => ViewerInv
<1> SUFFICES ASSUME Init PROVE ViewerInv
  OBVIOUS
<1>1. calc \in CalcType
  <2>1. calc = Cleared(2)
    BY DEF Init
  <2>. QED
    BY <2>1, ClearedTyped DEF CalcType
<1>2. last \in [rva : Words, foa : Words]
  BY WordFacts DEF Init
<1>3. DOMAIN dpMap = {}
  BY DEF Init
<1>4. NoFile \notin PE
  BY ImageAssumption
<1>5. /\ dialog \in {"none", "file", "calc", "dirs"} /\ isActive \in 1 .. 3 
      /\ buff = NoFile /\ head = NoFile /\ shown = NoFile
  BY DEF Init
<1>6. NoFile \in Files
  BY DEF Files
<1>7. ended \in BOOLEAN
  BY Zenon DEF Init
<1>. QED
  BY <1>1, <1>2, <1>3, <1>4, <1>5, <1>6, <1>7 DEF ViewerInv

\* The fields are as before, or cleared.
LEMMA CalcKept == ViewerInv /\ calc' = calc => calc' \in CalcType'
BY DEF ViewerInv, CalcType

LEMMA CalcCleared == ASSUME NEW mode \in 1 .. 3, calc' = Cleared(mode) PROVE calc' \in CalcType'
BY ClearedTyped DEF CalcType

\* A field is typed into.
LEMMA FieldTyped ==
  ASSUME NEW S, NEW T, NEW old \in [editable : 1 .. 3, va : T, rva : T, foa : T, section : S, by : 0 .. 3],
         NEW text \in T, NEW c,
         \/ c = [old EXCEPT !.va = text, !.by = 0]
         \/ c = [old EXCEPT !.rva = text, !.by = 0]
         \/ c = [old EXCEPT !.foa = text, !.by = 0]
  PROVE  c \in [editable : 1 .. 3, va : T, rva : T, foa : T, section : S, by : 0 .. 3]
<1>1. 0 \in 0 .. 3
  OBVIOUS
<1>2. CASE c = [old EXCEPT !.va = text, !.by = 0]
  BY <1>1, <1>2
<1>3. CASE c = [old EXCEPT !.rva = text, !.by = 0]
  BY <1>1, <1>3
<1>4. CASE c = [old EXCEPT !.foa = text, !.by = 0]
  BY <1>1, <1>4
<1>. QED
  BY <1>2, <1>3, <1>4

LEMMA ToFoasIn ==
  ASSUME NEW rvas, NEW outs \in ToFoas(rvas), NEW i \in DOMAIN rvas, rvas[i] \in Words
  PROVE  outs[i] \in Outcome /\ outs[i].value \in Words
BY ToFoasTyped, OutcomesTyped DEF Outcome

\* What the relocation dialog reads: the pages of the blocks are words, and so are the
\* numbers they get.
LEMMA BlocksTyped ==
  ASSUME NEW foa
  PROVE  /\ Holds("relocs", foa) \in Contents.relocs
         /\ \A i \in DOMAIN Holds("relocs", foa) : Holds("relocs", foa)[i].va \in Words
<1>1. CASE Known("relocs", foa)
  <2>1. PICK blocks : blocks = Holds("relocs", foa)
    OBVIOUS
  <2>2. blocks \in Contents.relocs
    BY <1>1, <2>1, HoldsTyped
  <2>3. \A i \in DOMAIN blocks : blocks[i] \in Block
    BY <2>2 DEF Contents
  <2>4. \A i \in DOMAIN blocks : blocks[i].va \in Words
    BY <2>3 DEF Block
  <2>. QED
    BY <2>1, <2>2, <2>4
<1>2. CASE ~Known("relocs", foa)
  BY <1>2 DEF Holds, Contents
<1>. QED
  BY <1>1, <1>2

LEMMA RelocsTyped ==
  ASSUME ViewerInv, OpenRelocs
  PROVE  DOMAIN dpMap' \subseteq Words /\ last' \in [rva : Words, foa : Words]
<1>1. PICK o \in Directory("relocs") :
        LET blocks == Holds("relocs", o.value)
            n == Len(blocks)
        IN \E outs \in ToFoas([i \in DOMAIN blocks |-> blocks[i].va]) :
             /\ dpMap' = Keyed(blocks, outs)
             /\ last' = IF n = 0 THEN last ELSE [rva |-> blocks[n].va, foa |-> outs[n].value]
  BY DEF OpenRelocs
<1>2. PICK blocks : blocks = Holds("relocs", o.value)
  OBVIOUS
<1>3. blocks \in Contents.relocs /\ \A i \in DOMAIN blocks : blocks[i].va \in Words
  BY <1>2, BlocksTyped
<1>4. PICK n \in Nat : n = Len(blocks) /\ DOMAIN blocks = 1 .. n
  BY <1>3 DEF Contents
<1>5. PICK rvas : rvas = [i \in DOMAIN blocks |-> blocks[i].va]
  OBVIOUS
<1>6. PICK outs \in ToFoas(rvas) :
        /\ dpMap' = Keyed(blocks, outs)
        /\ last' = IF n = 0 THEN last ELSE [rva |-> blocks[n].va, foa |-> outs[n].value]
  BY <1>1, <1>2, <1>4, <1>5
<1>7. \A i \in DOMAIN blocks : outs[i].value \in Words
  BY <1>3, <1>5, ToFoasIn
<1>8. DOMAIN dpMap' \subseteq Words
  <2>1. DOMAIN dpMap' = {outs[i].value : i \in DOMAIN blocks} \cup DOMAIN dpMap
    BY <1>6 DEF Keyed
  <2>. QED
    BY <2>1, <1>7 DEF ViewerInv
<1>9. last' \in [rva : Words, foa : Words]
  <2>1. CASE n = 0
    BY <1>6, <2>1 DEF ViewerInv
  <2>2. CASE n # 0
    <3>1. n \in DOMAIN blocks
      BY <1>4, <2>2
    <3>. QED
      BY <1>3, <1>6, <1>7, <2>2, <3>1
  <2>. QED
    BY <2>1, <2>2
<1>. QED
  BY <1>8, <1>9

\* Every action keeps the types, and a PE file in memory is the one the headers are read of.
LEMMA ViewerInvStep == ViewerInv /\ [Next]_vars => ViewerInv'
<1> SUFFICES ASSUME ViewerInv, [Next]_vars PROVE ViewerInv'
  OBVIOUS
<1>f. /\ dialog \in {"none", "file", "calc", "dirs"} \cup Tables
      /\ buff \in Files /\ head \in Files /\ shown \in PE \cup {NoFile}
      /\ isActive \in 1 .. 3 /\ calc \in CalcType
      /\ last \in [rva : Words, foa : Words] /\ DOMAIN dpMap \subseteq Words
      /\ ended \in BOOLEAN
      /\ buff \in PE => head = buff
  BY DEF ViewerInv
\* Steps that leave the fields and what the relocations left alone.
<1>k. ASSUME calc' = calc, last' = last, dpMap' = dpMap, isActive' = isActive,
             dialog' \in {"none", "file", "calc", "dirs"} \cup Tables, ended' \in BOOLEAN,
             buff' \in Files, head' \in Files, shown' \in PE \cup {NoFile},
             buff' \in PE => head' = buff'
      PROVE  ViewerInv'
  <2>1. calc' \in CalcType'
    BY <1>k, CalcKept
  <2>. QED
    BY <1>f, <1>k, <2>1 DEF ViewerInv
<1>e. ASSUME NEW kind \in Tables, Enter(kind), last' = last, dpMap' = dpMap PROVE ViewerInv'
  <2>1. /\ calc' = calc /\ isActive' = isActive /\ dialog' \in {"none", "file", "calc", "dirs"} \cup Tables
        /\ ended' \in BOOLEAN /\ buff' \in Files /\ head' \in Files /\ shown' \in PE \cup {NoFile}
        /\ buff' \in PE => head' = buff'
    BY <1>e, <1>f DEF Enter
  <2>. QED
    BY <1>e, <2>1, <1>k
<1>c. CASE Crash
  BY <1>c, <1>f, <1>k DEF Crash
<1>1. CASE Open
  BY <1>1, <1>f, <1>k DEF Open
<1>2. CASE Close
  <2>1. calc' \in CalcType'
    <3>1. calc' = Cleared(2)
      BY <1>2 DEF Close
    <3>. QED
      BY <3>1, CalcCleared
  <2>2. dialog' \in {"none", "file", "calc", "dirs"} \cup Tables
    BY <1>2 DEF Close
  <2>. QED
    BY <1>2, <1>f, <2>1, <2>2 DEF Close, ViewerInv
<1>3. CASE OpenCalculator
  <2>1. calc' \in CalcType'
    <3>1. calc' = Cleared(2)
      BY <1>3 DEF OpenCalculator
    <3>. QED
      BY <3>1, CalcCleared
  <2>. QED
    BY <1>3, <1>f, <2>1 DEF OpenCalculator, ViewerInv
<1>4. CASE OpenDirectories
  BY <1>4, <1>c, <1>f, <1>k DEF OpenDirectories
<1>5. ASSUME NEW f \in PE \cup {Other}, ChooseFile(f) PROVE ViewerInv'
  <2>1. f \in Files /\ Other \notin PE
    BY ImageAssumption DEF Files
  <2>. QED
    BY <1>5, <1>c, <1>f, <1>k, <2>1 DEF ChooseFile
<1>6. ASSUME NEW mode \in 1 .. 3, SelectMode(mode) PROVE ViewerInv'
  <2>1. calc' \in CalcType'
    <3>1. CASE mode = 2
      <4>1. PICK n : n = calc.section
        OBVIOUS
      <4>2. calc \in [editable : 1 .. 3, va : Texts, rva : Texts, foa : Texts, section : {n}, by : 0 .. 3]
        BY <1>f, <4>1 DEF CalcType
      <4>3. calc' = [calc EXCEPT !.editable = 2]
        BY <1>6, <3>1 DEF SelectMode
      <4>. QED
        BY <4>2, <4>3 DEF CalcType
    <3>2. CASE mode # 2
      BY <1>6, <3>2, CalcCleared DEF SelectMode
    <3>. QED
      BY <3>1, <3>2
  <2>. QED
    BY <1>6, <1>f, <2>1 DEF SelectMode, ViewerInv
<1>7. ASSUME NEW text \in Typed, Type(text) PROVE ViewerInv'
  <2>1. calc' \in CalcType'
    <3>1. PICK n : n = calc.section
      OBVIOUS
    <3>2. calc \in [editable : 1 .. 3, va : Texts, rva : Texts, foa : Texts, section : {n}, by : 0 .. 3]
      BY <1>f, <3>1 DEF CalcType
    <3>3. text \in Texts
      BY ImageAssumption DEF Texts
    <3>4. \/ calc' = [calc EXCEPT !.va = text, !.by = 0]
          \/ calc' = [calc EXCEPT !.rva = text, !.by = 0]
          \/ calc' = [calc EXCEPT !.foa = text, !.by = 0]
      BY <1>7 DEF Type
    <3>5. PICK c : c = calc'
      OBVIOUS
    <3>6. c \in [editable : 1 .. 3, va : Texts, rva : Texts, foa : Texts, section : {n}, by : 0 .. 3]
      BY <3>2, <3>3, <3>4, <3>5, FieldTyped
    <3>. QED
      BY <3>5, <3>6 DEF CalcType
  <2>. QED
    BY <1>7, <1>f, <2>1 DEF Type, ViewerInv
<1>8. CASE Calculate
  <2>1. CASE \E base \in Bases : calc' \in Calculated(base)
    <3>1. PICK base \in Words : calc' \in Calculated(base)
      BY <2>1, BasesTyped
    <3>2. calc' \in CalcType'
      <4>1. PICK c : c = calc'
        OBVIOUS
      <4>2. c \in Calculated(base)
        BY <3>1, <4>1
      <4>3. calc.va \in Texts /\ calc.rva \in Texts /\ calc.foa \in Texts
        BY <1>f DEF CalcType
      <4>4. \E mode \in 0 .. 3, va, rva, foa \in Texts : \E name : Click(c, mode, va, rva, foa, name)
        <5>1. \A rva \in Words : \A o \in ToFoa(rva) : rva \in Texts /\ o.value \in Texts
          BY OutcomesTyped DEF Outcome, Texts
        <5>2. \A foa \in Words : \A o \in ToRva(foa) : o.value \in Texts
          BY OutcomesTyped DEF Outcome, Texts
        <5>3. Parsed(calc.rva) \in Words /\ Parsed(calc.foa) \in Words
          BY <4>3, ParsedTyped
        <5>4. Words \subseteq Texts
          BY DEF Texts
        <5>. QED
          BY <4>2, <4>3, <5>1, <5>2, <5>3, <5>4, CalculatedIs
      <4>5. PICK mode \in 0 .. 3, va \in Texts, rva \in Texts, foa \in Texts :
              \E name : Click(c, mode, va, rva, foa, name)
        BY <4>4
      <4>6. PICK name : Click(c, mode, va, rva, foa, name)
        BY <4>5
      <4>. QED
        BY <4>1, <4>6 DEF Click, CalcType
    <3>. QED
      BY <1>8, <1>f, <3>2 DEF Calculate, ViewerInv, Crash
  <2>2. CASE ~\E base \in Bases : calc' \in Calculated(base)
    BY <1>8, <1>c, <2>2 DEF Calculate
  <2>. QED
    BY <2>1, <2>2
<1>9. CASE OpenImports
  <2>1. Enter("imports") /\ last' = last /\ dpMap' = dpMap
    BY <1>9 DEF OpenImports
  <2>. QED
    BY <2>1, <1>e DEF Tables
<1>10. CASE OpenExports
  <2>1. Enter("exports") /\ last' = last /\ dpMap' = dpMap
    BY <1>10 DEF OpenExports
  <2>. QED
    BY <2>1, <1>e DEF Tables
<1>11. CASE OpenRelocs
  <2>1. Enter("relocs")
    BY <1>11 DEF OpenRelocs
  <2>2. calc' \in CalcType'
    BY <2>1, CalcKept DEF Enter
  <2>3. /\ isActive' = isActive /\ dialog' \in Tables /\ ended' = ended /\ buff' = buff
        /\ head' = buff /\ shown' = shown
    BY <2>1 DEF Enter, Tables
  <2>4. DOMAIN dpMap' \subseteq Words /\ last' \in [rva : Words, foa : Words]
    BY <1>11, RelocsTyped
  <2>. QED
    BY <1>f, <2>2, <2>3, <2>4 DEF ViewerInv
<1>12. ASSUME NEW kind \in Tables, EnterFails(kind) PROVE ViewerInv'
  BY <1>12, <1>c DEF EnterFails
<1>13. ASSUME NEW kind \in {"resources", "tls", "delay"}, OpenPlain(kind) PROVE ViewerInv'
  <2>1. Enter(kind) /\ last' = last /\ dpMap' = dpMap /\ kind \in Tables
    BY <1>13 DEF OpenPlain, Tables
  <2>. QED
    BY <2>1, <1>e
<1>14. ASSUME NEW r, ClickModule(r) PROVE ViewerInv'
  <2>1. Crash \/ UNCHANGED <<dialog, buff, head, isActive, shown, calc, dpMap, last, ended>>
    BY <1>14 DEF ClickModule
  <2>. QED
    BY <2>1, <1>c, <1>f, <1>k
<1>15. ASSUME NEW r, ClickBlock(r) PROVE ViewerInv'
  <2>1. Crash \/ UNCHANGED <<dialog, buff, head, isActive, shown, calc, dpMap, last, ended>>
    BY <1>15 DEF ClickBlock
  <2>. QED
    BY <2>1, <1>c, <1>f, <1>k
<1>16. ASSUME NEW type, NEW leaf, SelectNode(type, leaf) PROVE ViewerInv'
  <2>1. UNCHANGED <<dialog, buff, head, isActive, shown, calc, dpMap, last, ended>>
    BY <1>16 DEF SelectNode
  <2>. QED
    BY <2>1, <1>f, <1>k
<1>17. CASE UNCHANGED vars
  BY <1>17, <1>f, <1>k DEF vars
<1>. QED
  BY <1>1, <1>2, <1>3, <1>4, <1>5, <1>6, <1>7, <1>8, <1>9, <1>10, <1>11, <1>12, <1>13, <1>14, <1>15,
     <1>16, <1>17 DEF Next, Step

\* The viewer's state is typed whatever files and tables are opened (the class members
\* of the dialogs and the globals of GlobalVals.h).
THEOREM TypeCorrect == Spec => []TypeOK
<1>1. ViewerInv => TypeOK
  <2> SUFFICES ASSUME ViewerInv PROVE TypeOK
    OBVIOUS
  <2>1. calc.editable \in 1 .. 3 /\ calc.va \in Texts /\ calc.rva \in Texts /\ calc.foa \in Texts
    BY DEF ViewerInv, CalcType
  <2>2. \A field \in {"va", "rva", "foa"} : calc[field] \in Words \cup {Blank}
    BY <2>1 DEF Texts
  <2>. QED
    BY <2>1, <2>2 DEF ViewerInv, TypeOK
<1>. QED
  BY <1>1, ViewerInvInit, ViewerInvStep, PTL DEF Spec

\* Subtraction and addition of the same DWORD cancel, whatever overflows.
LEMMA ModAbove ==
  ASSUME NEW w \in Nat \ {0}, NEW n \in Nat, n < w
  PROVE  (n + w) % w = n
OBVIOUS

LEMMA ModBelow ==
  ASSUME NEW w \in Nat \ {0}, NEW n \in Int, n < 0, 0 <= n + w
  PROVE  n % w = n + w
OBVIOUS

LEMMA ThereAndBack ==
  ASSUME NEW w \in Nat \ {0}, NEW m \in 0 .. w - 1, NEW b \in 0 .. w - 1
  PROVE  (((m - b) % w) + b) % w = m
<1>1. CASE m >= b
  <2>1. PICK d \in Nat : d = m - b /\ d < w /\ d + b = m
    BY <1>1
  <2>2. d % w = d /\ m % w = m
    BY <2>1, SmallMod
  <2>. QED
    BY <2>1, <2>2
<1>2. CASE m < b
  <2>1. PICK d \in Int : d = m - b /\ d < 0 /\ 0 <= d + w
    BY <1>2
  <2>2. d % w = d + w
    BY <2>1, ModBelow
  <2>3. d + w + b = m + w
    BY <2>1
  <2>4. (m + w) % w = m
    BY ModAbove
  <2>. QED
    BY <2>1, <2>2, <2>3, <2>4
<1>. QED
  BY <1>1, <1>2

\* A positive long is taken as it was typed.
LEMMA ParsedSmall ==
  ASSUME NEW text \in Texts, text < Word \div 2
  PROVE  Parsed(text) = text /\ text \in Words
<1>1. PICK h \in Nat : h = Word \div 2 /\ h <= Word
  BY WordFacts
<1>2. text # Word
  BY <1>1, WordFacts
<1>. QED
  BY <1>2 DEF Parsed, Texts, Blank

\* What a conversion of an address in the file says of the offset and the section.
LEMMA Converted ==
  ASSUME ViewerInv, buff \in PE, NEW rva \in Words, NEW o \in ToFoa(rva), InFile(buff, rva)
  PROVE  /\ o.value = Offset(buff, rva)
         /\ NameAfter(o, sectionName) = <<buff, o.section>>
         /\ \/ Inside(Secs, o.section, rva)
            \/ rva = Secs[o.section].va + Secs[o.section].raw
<1>1. o \in RvaToFoa(Image[buff].secs, rva)
  BY DEF ToFoa, Secs
<1>2. /\ o.value = Offset(buff, rva) /\ o.section \in DOMAIN Image[buff].secs
      /\ \/ Inside(Image[buff].secs, o.section, rva)
         \/ rva = Image[buff].secs[o.section].va + Image[buff].secs[o.section].raw
  BY <1>1, OffsetFound
<1>3. o.section # 0
  BY <1>2, SectionsOf
<1>. QED
  BY <1>2, <1>3 DEF NameAfter, Secs

\* A click leaves four fields that agree.
LEMMA ClickAgrees ==
  ASSUME ViewerInv, buff \in PE, NEW base \in Bases, NEW c \in Calculated(base),
         c.by \in {1, 2}, (IF c.by = 1 THEN c.va ELSE c.rva) < Word \div 2, InFile(buff, c.rva)
  PROVE  /\ c.va = (c.rva + Image[buff].base) % Word
         /\ c.foa = Offset(buff, c.rva)
         /\ c.section[1] = buff
         /\ \/ Inside(Secs, c.section[2], c.rva)
            \/ c.rva = Secs[c.section[2]].va + Secs[c.section[2]].raw
<1>1. base = Image[buff].base /\ base \in Words
  <2>1. head = buff
    BY DEF ViewerInv
  <2>2. Bases = {Image[buff].base} /\ Bases \subseteq Words
    BY <2>1, BasesTyped DEF Bases
  <2>. QED
    BY <2>2
<1>2. calc.va \in Texts /\ calc.rva \in Texts
  BY DEF ViewerInv, CalcType
<1>3. CASE c.by = 1
  <2>7. PICK rva \in Words : \E o \in ToFoa(rva) :
          /\ rva = (Parsed(calc.va) - base) % Word
          /\ Click(c, 1, calc.va, rva, o.value, NameAfter(o, sectionName))
    BY <1>1, <1>3, CalculatedIs DEF Click
  <2>1. PICK o \in ToFoa(rva) :
          /\ rva = (Parsed(calc.va) - base) % Word
          /\ Click(c, 1, calc.va, rva, o.value, NameAfter(o, sectionName))
    BY <2>7
  <2>2. c.va = calc.va /\ c.rva = rva /\ c.foa = o.value /\ c.section = NameAfter(o, sectionName)
    BY <2>1 DEF Click
  <2>3. Parsed(calc.va) = calc.va /\ calc.va \in Words
    BY <1>2, <1>3, <2>2, ParsedSmall
  <2>4. calc.va = (rva + base) % Word
    <3>1. (((calc.va - base) % Word) + base) % Word = calc.va
      BY <1>1, <2>3, WordFacts, ThereAndBack
    <3>. QED
      BY <2>1, <2>3, <3>1
  <2>5. /\ o.value = Offset(buff, rva) /\ NameAfter(o, sectionName) = <<buff, o.section>>
        /\ \/ Inside(Secs, o.section, rva)
           \/ rva = Secs[o.section].va + Secs[o.section].raw
    BY <2>2, Converted
  <2>6. c.section[1] = buff /\ c.section[2] = o.section
    BY <2>2, <2>5
  <2>. QED
    BY <1>1, <2>2, <2>4, <2>5, <2>6
<1>4. CASE c.by = 2
  <2>1. PICK va \in Words, o \in ToFoa(Parsed(calc.rva)) :
          /\ va = (Parsed(calc.rva) + base) % Word
          /\ Click(c, 2, va, calc.rva, o.value, NameAfter(o, sectionName))
    BY <1>1, <1>4, CalculatedIs DEF Click
  <2>2. c.va = va /\ c.rva = calc.rva /\ c.foa = o.value /\ c.section = NameAfter(o, sectionName)
    BY <2>1 DEF Click
  <2>3. Parsed(calc.rva) = calc.rva /\ calc.rva \in Words
    BY <1>2, <1>4, <2>2, ParsedSmall
  <2>4. o \in ToFoa(calc.rva) /\ va = (calc.rva + base) % Word
    BY <2>1, <2>3
  <2>5. /\ o.value = Offset(buff, calc.rva) /\ NameAfter(o, sectionName) = <<buff, o.section>>
        /\ \/ Inside(Secs, o.section, calc.rva)
           \/ calc.rva = Secs[o.section].va + Secs[o.section].raw
    BY <2>2, <2>3, <2>4, Converted
  <2>6. c.section[1] = buff /\ c.section[2] = o.section
    BY <2>2, <2>5
  <2>. QED
    BY <1>1, <2>2, <2>4, <2>5, <2>6
<1>. QED
  BY <1>3, <1>4

LEMMA CalculatorStep ==
  ASSUME ViewerInv, CalculatorAgrees, [Next]_vars
  PROVE  CalculatorAgrees'
<1>1. CASE dialog' # "calc"
  BY <1>1 DEF CalculatorAgrees
<1>u. CASE UNCHANGED <<dialog, buff, calc>>
  BY <1>u DEF CalculatorAgrees, Secs
<1>b. CASE calc'.by = 0
  BY <1>b DEF CalculatorAgrees
<1>c. CASE Crash
  BY <1>c, <1>u DEF Crash
<1>2. CASE OpenCalculator
  <2>1. calc' = Cleared(2)
    BY <1>2 DEF OpenCalculator
  <2>. QED
    BY <2>1, <1>b DEF Cleared
<1>3. ASSUME NEW mode \in 1 .. 3, SelectMode(mode) PROVE CalculatorAgrees'
  <2>1. CASE mode = 2
    <3>1. PICK n : n = calc.section
      OBVIOUS
    <3>2. calc \in [editable : 1 .. 3, va : Texts, rva : Texts, foa : Texts, section : {n}, by : 0 .. 3]
      BY <3>1 DEF ViewerInv, CalcType
    <3>3. calc' = [calc EXCEPT !.editable = 2]
      BY <1>3, <2>1 DEF SelectMode
    <3>4. calc'.va = calc.va /\ calc'.rva = calc.rva /\ calc'.foa = calc.foa
          /\ calc'.section = calc.section /\ calc'.by = calc.by
      BY <3>2, <3>3
    <3>5. dialog' = dialog /\ buff' = buff
      BY <1>3 DEF SelectMode
    <3>. QED
      BY <3>4, <3>5 DEF CalculatorAgrees, Secs
  <2>2. CASE mode # 2
    <3>1. calc' = Cleared(mode)
      BY <1>3, <2>2 DEF SelectMode
    <3>. QED
      BY <3>1, <1>b DEF Cleared
  <2>. QED
    BY <2>1, <2>2
<1>4. ASSUME NEW text \in Typed, Type(text) PROVE CalculatorAgrees'
  <2>1. \/ calc' = [calc EXCEPT !.va = text, !.by = 0]
        \/ calc' = [calc EXCEPT !.rva = text, !.by = 0]
        \/ calc' = [calc EXCEPT !.foa = text, !.by = 0]
    BY <1>4 DEF Type
  <2>2. calc'.by = 0
    BY <2>1 DEF ViewerInv, CalcType
  <2>. QED
    BY <2>2, <1>b
<1>5. CASE Calculate
  <2>1. CASE \E base \in Bases : calc' \in Calculated(base)
    <3>1. PICK base \in Bases : calc' \in Calculated(base)
      BY <2>1
    <3>2. PICK c \in Calculated(base) : c = calc'
      BY <3>1
    <3>3. buff' = buff
      BY <1>5 DEF Calculate, Crash
    <3>4. ASSUME buff \in PE, c.by \in {1, 2}, (IF c.by = 1 THEN c.va ELSE c.rva) < Word \div 2,
                 InFile(buff, c.rva)
          PROVE  /\ c.va = (c.rva + Image[buff].base) % Word
                 /\ c.foa = Offset(buff, c.rva)
                 /\ c.section[1] = buff
                 /\ \/ Inside(Secs, c.section[2], c.rva)
                    \/ c.rva = Secs[c.section[2]].va + Secs[c.section[2]].raw
      BY <3>4, ClickAgrees
    <3>. QED
      BY <3>2, <3>3, <3>4 DEF CalculatorAgrees, Secs
  <2>2. CASE ~\E base \in Bases : calc' \in Calculated(base)
    BY <1>5, <1>c, <2>2 DEF Calculate
  <2>. QED
    BY <2>1, <2>2
\* In the other steps the calculator is not in front.
<1>e. ASSUME NEW kind, Enter(kind), kind \in Tables PROVE CalculatorAgrees'
  BY <1>e, <1>1 DEF Enter, Tables
<1>6. CASE Open \/ Close
  BY <1>6, <1>1 DEF Open, Close
<1>7. CASE OpenDirectories
  BY <1>7, <1>1, <1>c DEF OpenDirectories
<1>8. ASSUME NEW f, ChooseFile(f) PROVE CalculatorAgrees'
  BY <1>8, <1>1, <1>c DEF ChooseFile
<1>9. CASE OpenImports \/ OpenExports \/ OpenRelocs
  BY <1>9, <1>e DEF OpenImports, OpenExports, OpenRelocs, Tables
<1>10. ASSUME NEW kind \in Tables, EnterFails(kind) PROVE CalculatorAgrees'
  BY <1>10, <1>c DEF EnterFails
<1>11. ASSUME NEW kind \in {"resources", "tls", "delay"}, OpenPlain(kind) PROVE CalculatorAgrees'
  BY <1>11, <1>e DEF OpenPlain, Tables
<1>12. ASSUME NEW r, ClickModule(r) PROVE CalculatorAgrees'
  BY <1>12, <1>c, <1>u DEF ClickModule
<1>13. ASSUME NEW r, ClickBlock(r) PROVE CalculatorAgrees'
  BY <1>13, <1>c, <1>u DEF ClickBlock
<1>14. ASSUME NEW type, NEW leaf, SelectNode(type, leaf) PROVE CalculatorAgrees'
  BY <1>14, <1>u DEF SelectNode
<1>15. CASE UNCHANGED vars
  BY <1>15, <1>u DEF vars
<1>. QED
  BY <1>2, <1>3, <1>4, <1>5, <1>6, <1>7, <1>8, <1>9, <1>10, <1>11, <1>12, <1>13, <1>14, <1>15
     DEF Next, Step

\* The four fields of the calculator are about the file chosen last and agree, whatever
\* files, tables, modes and failed conversions came before (CAddCalcDialog.cpp, 122 to
\* 170, with the globals fileBuff, optHead and sectionName).
THEOREM CalculatorRight == Spec => []CalculatorAgrees
<1>1. Init => CalculatorAgrees
  BY DEF Init, CalculatorAgrees
<1>. QED
  BY <1>1, ViewerInvInit, ViewerInvStep, CalculatorStep, PTL DEF Spec

-----------------------------------------------------------------------------
(* The table of exports.                                                    *)

\* How many of some numbers are at most k.
Count(real, k) == Cardinality({j \in real : j <= k})

LEMMA CountNext ==
  ASSUME NEW real \in SUBSET (Nat \ {0}), NEW k \in Nat \ {0}
  PROVE  /\ Count(real, 0) = 0 /\ Count(real, k - 1) \in Nat
         /\ Count(real, k) = IF k \in real THEN Count(real, k - 1) + 1 ELSE Count(real, k - 1)
<1> DEFINE before == {j \in real : j <= k - 1}
           upto == {j \in real : j <= k}
<1>n. \A j \in real : j \in Nat /\ j >= 1
  OBVIOUS
<1>1. {j \in real : j <= 0} = {}
  <2>1. \A j \in real : ~(j <= 0)
    BY <1>n
  <2>. QED
    BY <2>1, Zenon
<1>2. Count(real, 0) = 0
  BY <1>1, FS_EmptySet DEF Count
<1>3. IsFiniteSet(before)
  <2>1. \A j \in real : j <= k - 1 => j \in 1 .. k - 1
    BY <1>n
  <2>2. before \subseteq 1 .. k - 1
    BY <2>1, Zenon
  <2>3. IsFiniteSet(1 .. k - 1)
    <3>1. 1 \in Int /\ k - 1 \in Int
      OBVIOUS
    <3>. QED
      BY <3>1, FS_Interval, Zenon
  <2>. QED
    BY <2>2, <2>3, FS_Subset
<1>4. Cardinality(before) \in Nat
  BY <1>3, FS_CardinalityType
<1>5. upto = IF k \in real THEN before \cup {k} ELSE before
  <2>1. \A j \in real : j <= k <=> j <= k - 1 \/ j = k
    BY <1>n
  <2>. QED
    BY <2>1
<1>6. k \notin before
  OBVIOUS
<1> HIDE DEF before, upto
<1>7. Cardinality(before \cup {k}) = Cardinality(before) + 1
  BY <1>3, <1>6, FS_AddElement, Zenon
<1>8. Cardinality(upto) = IF k \in real THEN Cardinality(before) + 1 ELSE Cardinality(before)
  BY <1>5, <1>7
<1>. QED
  BY <1>2, <1>4, <1>8 DEF Count, before, upto

\* A list under construction.
Listed(T) == [rows : Seq([text : T]), iCol : Nat]

LEMMA RowAdded ==
  ASSUME NEW T, <<>> \in T, NEW row \in T, NEW list \in Listed(T)
  PROVE  /\ AddRow(list, row) \in Listed(T)
         /\ list.iCol = Len(list.rows) =>
              /\ AddRow(list, row).iCol = list.iCol + 1
              /\ Len(AddRow(list, row).rows) = list.iCol + 1
              /\ AddRow(list, row).rows[list.iCol + 1].text = row
              /\ \A r \in 1 .. list.iCol : AddRow(list, row).rows[r] = list.rows[r]
<1> DEFINE S == [text : T]
<1>1. PICK rows \in Seq(S), n \in Nat : rows = list.rows /\ n = list.iCol
  BY DEF Listed
<1>2. PICK blank \in S : blank = [text |-> <<>>]
  OBVIOUS
<1>3. PICK grown : grown = InsertItem(rows, n, blank)
  OBVIOUS
<1>4. PICK new : new = SetItemText(grown, n, "text", row)
  OBVIOUS
<1>5. AddRow(list, row) = [rows |-> new, iCol |-> n + 1]
  BY <1>1, <1>2, <1>3, <1>4 DEF AddRow
<1>6. \A s \in S : [s EXCEPT !["text"] = row] \in S
  OBVIOUS
<1> HIDE DEF S
<1>7. grown \in Seq(S) /\ Len(grown) = Len(rows) + 1
  BY <1>1, <1>2, <1>3, InsertItemGrows
<1>8. new \in Seq(S) /\ Len(new) = Len(rows) + 1
  BY <1>4, <1>6, <1>7, SetItemTextKeepsType, SetItemTextKeepsLength
<1>9. AddRow(list, row) \in Listed(T)
  BY <1>5, <1>8 DEF Listed, S
<1>10. ASSUME n = Len(rows)
       PROVE  new[n + 1].text = row /\ \A r \in 1 .. n : new[r] = rows[r]
  <2>1. grown = [j \in 1 .. n + 1 |-> IF j <= n THEN rows[j] ELSE IF j = n + 1 THEN blank ELSE rows[j - 1]]
    BY <1>3, <1>10 DEF InsertItem
  <2>2. grown[n + 1] = blank /\ \A r \in 1 .. n : grown[r] = rows[r]
    BY <2>1
  <2>3. HasRow(grown, n)
    BY <1>7, <1>10 DEF HasRow
  <2>4. new = [grown EXCEPT ![n + 1] = [blank EXCEPT !["text"] = row]]
    BY <1>4, <2>2, <2>3 DEF SetItemText
  <2>5. n + 1 \in DOMAIN grown
    BY <2>1
  <2>6. [blank EXCEPT !["text"] = row].text = row
    BY <1>2
  <2>. QED
    BY <2>2, <2>4, <2>5, <2>6
<1>. QED
  BY <1>1, <1>5, <1>8, <1>9, <1>10

RowTexts(funcs, ords, outs) == {<<>>} \cup {ExportRow(funcs, ords, outs, k) : k \in 1 .. Len(funcs)}

\* The list of exports is filled a function at a time.
BySteps(list, funcs, ords, outs) ==
  /\ \A k \in 0 .. Len(funcs) : list[k] \in Listed(RowTexts(funcs, ords, outs))
  /\ list[0] = [rows |-> <<>>, iCol |-> 0]
  /\ \A k \in 1 .. Len(funcs) : list[k] = AddFunction(list[k - 1], funcs, ords, outs, k)
  /\ ExportRows(funcs, ords, outs) = list[Len(funcs)].rows

LEMMA ExportsBySteps ==
  ASSUME NEW funcs \in Seq(Words), NEW ords, NEW outs
  PROVE  \E list : BySteps(list, funcs, ords, outs)
<1> DEFINE n == Len(funcs)
           T == RowTexts(funcs, ords, outs)
           base == [rows |-> <<>>, iCol |-> 0]
           after(list, k) == AddFunction(list, funcs, ords, outs, k)
           step == [k \in 1 .. n |-> [t \in Listed(T) |-> after(t, k)]]
           list == CHOOSE g : g = [k \in 0 .. n |->
                     IF k = 0 THEN base ELSE after(g[k - 1], k)]
<1>1. ExportRows(funcs, ords, outs) = list[n].rows
  BY Zenon DEF ExportRows
<1>2. n \in Nat
  OBVIOUS
<1>3. base \in Listed(T)
  BY DEF Listed
<1>4. \A k \in 1 .. n, t \in Listed(T) : after(t, k) \in Listed(T)
  <2> SUFFICES ASSUME NEW k \in 1 .. n, NEW t \in Listed(T) PROVE after(t, k) \in Listed(T)
    OBVIOUS
  <2>1. <<>> \in T /\ ExportRow(funcs, ords, outs, k) \in T
    BY DEF RowTexts
  <2> HIDE DEF T
  <2>2. AddRow(t, ExportRow(funcs, ords, outs, k)) \in Listed(T)
    BY <2>1, RowAdded
  <2>. QED
    BY <2>2 DEF AddFunction
<1>5. \A k \in 1 .. n, t \in Listed(T) : step[k][t] = after(t, k)
  <2> SUFFICES ASSUME NEW k \in 1 .. n, NEW t \in Listed(T) PROVE step[k][t] = after(t, k)
    OBVIOUS
  <2> HIDE DEF n, T, after
  <2>1. step[k] = [u \in Listed(T) |-> after(u, k)]
    BY Zenon
  <2> HIDE DEF step
  <2>. QED
    BY <2>1, Zenon
<1>6. \E g : g = [k \in 0 .. n |-> IF k = 0 THEN base ELSE after(g[k - 1], k)]
  <2> HIDE DEF n, T, base, step, after
  <2>1. IsStep(Listed(T), base, n, step)
    BY <1>2, <1>3, <1>4, <1>5 DEF IsStep
  <2>2. PICK g : Follows(g, Listed(T), base, n, step)
    BY <2>1, Recursion
  <2>3. \A k \in 1 .. n : g[k - 1] \in Listed(T)
    BY <1>2, <2>2 DEF Follows
  <2>4. \A k \in 1 .. n : g[k] = after(g[k - 1], k)
    BY <1>5, <2>2, <2>3 DEF Follows
  <2>5. \A k \in 0 .. n : g[k] = IF k = 0 THEN base ELSE after(g[k - 1], k)
    BY <2>2, <2>4 DEF Follows
  <2>6. DOMAIN g = 0 .. n /\ g = [k \in DOMAIN g |-> g[k]]
    BY <2>2 DEF Follows
  <2>. QED
    BY <2>5, <2>6
<1>7. list = [k \in 0 .. n |-> IF k = 0 THEN base ELSE after(list[k - 1], k)]
  <2> HIDE DEF n, base, after
  <2>. QED
    BY <1>6, Zenon
<1>8. list[0] = base /\ \A k \in 1 .. n : list[k] = after(list[k - 1], k)
  <2> HIDE DEF n, base, list, after
  <2>. QED
    BY <1>2, <1>7
<1> HIDE DEF list, T
<1> DEFINE P == {k \in 0 .. n : list[k] \in Listed(T)}
<1>9. 0 \in P
  BY <1>2, <1>3, <1>8
<1>10. ASSUME NEW k \in 1 .. n, k - 1 \in P PROVE k \in P
  <2> HIDE DEF after
  <2>. QED
    BY <1>4, <1>8, <1>10
<1>11. \A k \in 0 .. n : k \in P
  <2> HIDE DEF P
  <2>1. \A k \in 1 .. n : k - 1 \in P => k \in P
    BY <1>10, Zenon
  <2> HIDE DEF n
  <2>. QED
    BY <1>2, <1>9, <2>1, Induction, Zenon
<1>12. \A k \in 0 .. n : list[k] \in Listed(T)
  BY <1>11
<1> USE DEF T
<1>13. BySteps(list, funcs, ords, outs)
  BY <1>1, <1>8, <1>12 DEF BySteps
<1>. QED
  BY <1>13

\* One row per function with an address, in their order.
LEMMA ExportRowsRight ==
  ASSUME NEW funcs \in Seq(Words), NEW ords, NEW outs,
         NEW real, real = WithAddress(funcs)
  PROVE  /\ Len(ExportRows(funcs, ords, outs)) = Cardinality(real)
         /\ \A k \in real :
              ExportRows(funcs, ords, outs)[Count(real, k)].text = ExportRow(funcs, ords, outs, k)
<1> DEFINE n == Len(funcs)
           T == RowTexts(funcs, ords, outs)
           row(k) == ExportRow(funcs, ords, outs, k)
<1>s. PICK list : BySteps(list, funcs, ords, outs)
  BY ExportsBySteps
<1>1. /\ \A k \in 0 .. n : list[k] \in Listed(T)
      /\ list[0] = [rows |-> <<>>, iCol |-> 0]
      /\ \A k \in 1 .. n : list[k] = AddFunction(list[k - 1], funcs, ords, outs, k)
      /\ ExportRows(funcs, ords, outs) = list[n].rows
  BY <1>s, Zenon DEF BySteps
<1>2. n \in Nat /\ real \in SUBSET (Nat \ {0}) /\ \A k \in 1 .. n : k \in real <=> funcs[k] # 0
  BY DEF WithAddress
<1>3. <<>> \in T /\ \A k \in 1 .. n : row(k) \in T
  BY DEF RowTexts
<1>4. \A k \in real : k \in 1 .. n
  BY DEF WithAddress
<1> HIDE DEF n, T, row
<1> DEFINE Good(k) ==
             /\ list[k].iCol = Count(real, k) /\ Len(list[k].rows) = Count(real, k)
             /\ \A j \in real : j <= k => /\ Count(real, j) \in 1 .. Count(real, k)
                                          /\ list[k].rows[Count(real, j)].text = row(j)
           P == {k \in 0 .. n : Good(k)}
<1>5. 0 \in P
  <2>1. Count(real, 0) = 0
    BY <1>2, CountNext
  <2>2. \A j \in real : ~(j <= 0)
    BY <1>2
  <2>3. list[0].iCol = 0 /\ Len(list[0].rows) = 0
    BY <1>1
  <2>. QED
    BY <1>2, <2>1, <2>2, <2>3
<1>6. ASSUME NEW k \in 1 .. n, k - 1 \in P PROVE k \in P
  <2>1. Good(k - 1) /\ k - 1 \in 0 .. n /\ k \in 0 .. n
    BY <1>2, <1>6
  <2>n. k \in Nat \ {0}
    BY <1>2
  <2>2. PICK c \in Nat : c = Count(real, k - 1)
    BY <1>2, <2>n, CountNext
  <2>3. Count(real, k) = IF k \in real THEN c + 1 ELSE c
    BY <1>2, <2>2, <2>n, CountNext
  <2>4. PICK old \in Listed(T) : old = list[k - 1]
    BY <1>1, <2>1
  <2>5. /\ old.iCol = c /\ Len(old.rows) = c
        /\ \A j \in real : j <= k - 1 => Count(real, j) \in 1 .. c /\ old.rows[Count(real, j)].text = row(j)
    BY <2>1, <2>2, <2>4
  <2>6. CASE k \notin real
    <3>1. list[k] = old /\ Count(real, k) = c
      BY <1>1, <1>2, <2>3, <2>4, <2>6 DEF AddFunction
    <3>2. \A j \in real : j <= k => j <= k - 1
      BY <1>2, <2>6
    <3>3. Good(k)
      BY <2>5, <3>1, <3>2
    <3>. QED
      BY <2>1, <3>3
  <2>7. CASE k \in real
    <3>1. PICK new \in Listed(T) : new = list[k]
      BY <1>1, <2>1
    <3>2. new = AddRow(old, row(k))
      <4>1. new = AddFunction(old, funcs, ords, outs, k) /\ funcs[k] # 0
        BY <1>1, <1>2, <2>4, <2>7, <3>1
      <4>. QED
        BY <4>1 DEF AddFunction, row
    <3>3. /\ new.iCol = c + 1 /\ Len(new.rows) = c + 1 /\ new.rows[c + 1].text = row(k)
          /\ \A r \in 1 .. c : new.rows[r] = old.rows[r]
      <4>1. <<>> \in T /\ row(k) \in T /\ old.iCol = c /\ old.iCol = Len(old.rows)
        BY <1>3, <2>5
      <4>2. PICK text \in T : text = row(k)
        BY <4>1
      <4>3. new = AddRow(old, text)
        BY <3>2, <4>2
      <4> HIDE DEF row, T, Good, P, n
      <4>4. /\ AddRow(old, text).iCol = old.iCol + 1
            /\ Len(AddRow(old, text).rows) = old.iCol + 1
            /\ AddRow(old, text).rows[old.iCol + 1].text = text
            /\ \A r \in 1 .. old.iCol : AddRow(old, text).rows[r] = old.rows[r]
        BY <4>1, RowAdded
      <4>. QED
        BY <4>1, <4>2, <4>3, <4>4
    <3>4. Count(real, k) = c + 1
      BY <2>3, <2>7
    <3>5. ASSUME NEW j \in real, j <= k
          PROVE  Count(real, j) \in 1 .. c + 1 /\ new.rows[Count(real, j)].text = row(j)
      <4>1. CASE j = k
        BY <3>3, <3>4, <4>1
      <4>2. CASE j # k
        <5>1. j <= k - 1
          BY <1>2, <3>5, <4>2
        <5>. QED
          BY <2>5, <3>3, <5>1
      <4>. QED
        BY <4>1, <4>2
    <3>6. Good(k)
      BY <3>1, <3>3, <3>4, <3>5
    <3>. QED
      BY <2>1, <3>6
  <2>. QED
    BY <2>6, <2>7
<1>7. Good(n)
  <2>1. \A k \in 1 .. n : k - 1 \in P => k \in P
    BY <1>6, Zenon
  <2> HIDE DEF P
  <2>2. \A k \in 0 .. n : k \in P
    BY <1>2, <1>5, <2>1, Induction, Zenon
  <2>3. n \in P
    BY <1>2, <2>2
  <2> USE DEF P
  <2>. QED
    BY <2>3
<1>8. {j \in real : j <= n} = real
  BY <1>2, <1>4
<1>9. Cardinality(real) = Count(real, n)
  BY <1>8 DEF Count
<1>. QED
  BY <1>1, <1>2, <1>4, <1>7, <1>9 DEF row

\* The number of a name of a function.
LEMMA NameFound ==
  ASSUME NEW ords \in Seq(Nat), NEW index
  PROVE  IF \E n \in DOMAIN ords : ords[n] = index
         THEN ords[NameOf(ords, index)] = index ELSE NameOf(ords, index) = 0
<1> DEFINE names == {n \in DOMAIN ords : ords[n] = index}
<1>1. NameOf(ords, index) = IF names = {} THEN 0 ELSE First(names)
  BY DEF NameOf
<1>2. CASE names = {}
  BY <1>1, <1>2
<1>3. CASE names # {}
  <2>1. names \in SUBSET Nat
    OBVIOUS
  <2>2. \E x \in names : \A y \in names : x <= y
    <3> HIDE DEF names
    <3>. QED
      BY <1>3, <2>1, LeastNumber
  <2>3. First(names) \in names
    <3> HIDE DEF names
    <3>. QED
      BY <2>2 DEF First
  <2>. QED
    BY <1>1, <1>3, <2>3
<1>. QED
  BY <1>2, <1>3

\* Every table of exports is listed completely.
LEMMA DirectoryListed ==
  ASSUME buff \in PE, NEW x \in ExportDirectory, NEW outs \in ToFoas(x.funcs)
  PROVE  Complete(buff, ExportRows(x.funcs, x.ords, outs), x)
<1>1. x.funcs \in Seq(Words) /\ x.ords \in Seq(Nat)
  BY DEF ExportDirectory
<1>2. PICK rows : rows = ExportRows(x.funcs, x.ords, outs)
  OBVIOUS
<1>3. PICK real : real = WithAddress(x.funcs)
  OBVIOUS
<1>4. Len(rows) = Cardinality(real)
      /\ \A k \in real : rows[Count(real, k)].text = ExportRow(x.funcs, x.ords, outs, k)
  BY <1>1, <1>2, <1>3, ExportRowsRight
<1>5. ASSUME NEW k \in real, NEW row, row = rows[Count(real, k)].text
      PROVE  /\ row # <<>> /\ row[1] = k - 1 /\ row[2] = x.funcs[k]
             /\ InFile(buff, row[2]) => row[3] = Offset(buff, row[2])
             /\ IF \E n \in DOMAIN x.ords : x.ords[n] = k - 1
                THEN x.ords[row[4]] = k - 1 ELSE row[4] = 0
  <2>1. row = <<k - 1, x.funcs[k], outs[k].value, NameOf(x.ords, k - 1)>>
    BY <1>4, <1>5 DEF ExportRow
  <2>2. row # <<>> /\ row[1] = k - 1 /\ row[2] = x.funcs[k] /\ row[3] = outs[k].value
        /\ row[4] = NameOf(x.ords, k - 1)
    BY <2>1
  <2>3. k \in DOMAIN x.funcs /\ x.funcs[k] \in Words
    BY <1>1, <1>3 DEF WithAddress
  <2>4. outs[k] \in RvaToFoa(Image[buff].secs, x.funcs[k])
    BY <2>3, ToFoasTyped DEF ToFoa, Secs
  <2>5. InFile(buff, x.funcs[k]) => outs[k].value = Offset(buff, x.funcs[k])
    BY <2>3, <2>4, OffsetFound
  <2>6. IF \E n \in DOMAIN x.ords : x.ords[n] = k - 1
        THEN x.ords[NameOf(x.ords, k - 1)] = k - 1 ELSE NameOf(x.ords, k - 1) = 0
    BY <1>1, NameFound
  <2>. QED
    BY <2>2, <2>5, <2>6
<1>. QED
  BY <1>2, <1>3, <1>4, <1>5 DEF Complete, Count

\* Steps by what they do to a table.
LEMMA TableSteps ==
  ASSUME [Next]_vars
  PROVE  \/ dialog' \notin Tables /\ table' \in {table, Nothing}
         \/ UNCHANGED <<dialog, buff, table>>
         \/ OpenImports \/ OpenExports \/ OpenRelocs
         \/ \E kind \in {"resources", "tls", "delay"} : OpenPlain(kind)
         \/ \E r \in -1 .. Len(table.rows) - 1 : dialog = "imports" /\ ~Crash /\ ClickModule(r)
         \/ \E r \in -1 .. Len(table.rows) - 1 : dialog = "relocs" /\ ~Crash /\ ClickBlock(r)
         \/ \E type, leaf \in 0 .. 3 : SelectNode(type, leaf)
<1>1. {"none", "file", "calc", "dirs"} \cap Tables = {}
  BY DEF Tables
<1>2. Crash => UNCHANGED <<dialog, buff, table>>
  BY DEF Crash
<1>3. CASE Open \/ Close \/ OpenCalculator
  BY <1>1, <1>3 DEF Open, Close, OpenCalculator
<1>4. CASE OpenDirectories
  BY <1>1, <1>2, <1>4 DEF OpenDirectories
<1>5. CASE \E f \in PE \cup {Other} : ChooseFile(f)
  BY <1>1, <1>2, <1>5 DEF ChooseFile
<1>6. CASE \E mode \in 1 .. 3 : SelectMode(mode)
  BY <1>1, <1>6 DEF SelectMode
<1>7. CASE \E text \in Typed : Type(text)
  BY <1>1, <1>7 DEF Type
<1>8. CASE Calculate
  BY <1>1, <1>2, <1>8 DEF Calculate
<1>9. CASE \E kind \in Tables : EnterFails(kind)
  BY <1>2, <1>9 DEF EnterFails
<1>10. CASE \E r \in -1 .. Len(table.rows) - 1 : ClickModule(r)
  <2>1. \A r : ClickModule(r) => dialog = "imports"
    BY DEF ClickModule
  <2>. QED
    BY <1>2, <1>10, <2>1
<1>11. CASE \E r \in -1 .. Len(table.rows) - 1 : ClickBlock(r)
  <2>1. \A r : ClickBlock(r) => dialog = "relocs"
    BY DEF ClickBlock
  <2>. QED
    BY <1>2, <1>11, <2>1
<1>12. CASE UNCHANGED vars
  BY <1>12 DEF vars
<1>. QED
  BY <1>3, <1>4, <1>5, <1>6, <1>7, <1>8, <1>9, <1>10, <1>11, <1>12 DEF Next, Step

LEMMA ExportsStep ==
  ASSUME ExportsComplete, [Next]_vars
  PROVE  ExportsComplete'
<1>1. CASE dialog' # "exports"
  BY <1>1 DEF ExportsComplete
<1>2. CASE UNCHANGED <<dialog, buff, table>>
  <2>1. Known("exports", table.at)' <=> Known("exports", table.at)
    BY <1>2 DEF Known
  <2>2. Holds("exports", table.at)' = Holds("exports", table.at)
    BY <1>2, <2>1 DEF Holds, Known
  <2>. QED
    BY <1>2, <2>1, <2>2 DEF ExportsComplete
<1>3. CASE OpenExports
  <2>1. buff' = buff
    BY <1>3 DEF OpenExports, Enter
  <2>2. PICK o \in Directory("exports") :
          LET dirs == Holds("exports", o.value)
              funcs == IF dirs = <<>> THEN <<>> ELSE dirs[1].funcs
              ords == IF dirs = <<>> THEN <<>> ELSE dirs[1].ords
          IN \E outs \in ToFoas(funcs) :
               table' = [Nothing EXCEPT !.at = o.value, !.rows = ExportRows(funcs, ords, outs)]
    BY <1>3 DEF OpenExports
  <2>3. PICK at : at = o.value
    OBVIOUS
  <2>4. PICK rows : table' = [Nothing EXCEPT !.at = at, !.rows = rows]
    BY <2>2, <2>3
  <2>5. table'.at = at /\ table'.rows = rows
    BY <2>4 DEF Nothing
  <2>6. ASSUME Known("exports", at)
        PROVE  Complete(buff, rows, Holds("exports", at)[1])
    <3>1. PICK dirs \in [1 .. 1 -> ExportDirectory] : dirs = Holds("exports", at)
      BY <2>6, HoldsTyped DEF Contents
    <3>2. PICK x \in ExportDirectory : x = dirs[1]
      OBVIOUS
    <3>3. dirs # <<>>
      OBVIOUS
    <3>4. PICK outs \in ToFoas(x.funcs) :
            table' = [Nothing EXCEPT !.at = at, !.rows = ExportRows(x.funcs, x.ords, outs)]
      BY <2>2, <2>3, <3>1, <3>2, <3>3
    <3>5. rows = ExportRows(x.funcs, x.ords, outs)
      BY <2>5, <3>4 DEF Nothing
    <3>6. buff \in PE
      BY <2>6 DEF Known
    <3>. QED
      BY <3>1, <3>2, <3>5, <3>6, DirectoryListed
  <2>7. Known("exports", table.at)' <=> Known("exports", at)
    BY <2>1, <2>5 DEF Known
  <2>8. Holds("exports", table.at)' = Holds("exports", at)
    BY <2>1, <2>5, <2>7 DEF Holds, Known
  <2>. QED
    BY <2>1, <2>5, <2>6, <2>7, <2>8 DEF ExportsComplete
<1>4. CASE OpenImports \/ OpenRelocs \/ \E kind \in {"resources", "tls", "delay"} : OpenPlain(kind)
  BY <1>4, <1>1 DEF OpenImports, OpenRelocs, OpenPlain, Enter
<1>5. ASSUME NEW r, dialog = "imports", ~Crash, ClickModule(r) PROVE ExportsComplete'
  BY <1>5, <1>1 DEF ClickModule
<1>6. ASSUME NEW r, dialog = "relocs", ~Crash, ClickBlock(r) PROVE ExportsComplete'
  BY <1>6, <1>1 DEF ClickBlock
<1>7. ASSUME NEW type, NEW leaf, SelectNode(type, leaf) PROVE ExportsComplete'
  BY <1>7, <1>1 DEF SelectNode
<1>8. CASE dialog' \notin Tables
  BY <1>8, <1>1 DEF Tables
<1>. QED
  BY <1>2, <1>3, <1>4, <1>5, <1>6, <1>7, <1>8, TableSteps

\* The export list has one full row per function with an address, in their order, with a
\* name of its own function, whatever functions are passed over (CExportTableDialog.cpp,
\* 136 to 178).
THEOREM ExportsListed == Spec => []ExportsComplete
<1>1. Init => ExportsComplete
  BY DEF Init, ExportsComplete
<1>. QED
  BY <1>1, ExportsStep, PTL DEF Spec

-----------------------------------------------------------------------------
(* What a click in a table shows.                                           *)

\* Below the first section there is nothing in the file: the headers are.
LEMMA NothingAtZero ==
  ASSUME NEW f \in PE, NEW o \in RvaToFoa(Image[f].secs, 0)
  PROVE  o.value = OutOfRange
<1> DEFINE secs == Image[f].secs
           ends == {i \in DOMAIN secs : 0 < secs[i].va \/ HasRva(secs[i], 0)}
<1>1. DOMAIN secs = 1 .. Len(secs) /\ Len(secs) \in Nat \ {0} /\ secs[1].va \in Nat
  BY SectionsOf
<1>2. 1 \in ends /\ 0 < secs[1].va
  BY <1>1, LinkedAssumption
<1>3. First(ends) = 1
  <2>1. ends \subseteq Nat /\ \A j \in ends : 1 <= j
    BY <1>1
  <2> HIDE DEF ends
  <2>. QED
    BY <1>2, <2>1, FirstIs
<1>4. RvaToFoa(secs, 0) = {Failed}
  BY <1>2, <1>3 DEF RvaToFoa
<1>. QED
  BY <1>4 DEF Failed

\* The address table of a module that is listed: all of it is in one section.
LEMMA ModuleLinked ==
  ASSUME NEW at, NEW m \in DOMAIN Holds("imports", at)
  PROVE  LET iat == Holds("imports", at)[m].iat
         IN /\ buff \in PE /\ iat \in Words /\ iat < Word \div 2
            /\ \E i \in DOMAIN Secs :
                 /\ Inside(Secs, i, iat)
                 /\ \A j \in DOMAIN Holds("thunks", OffsetOf(Secs, i, iat)) :
                      Inside(Secs, i, iat + 4 * (j - 1))
<1>1. Known("imports", at)
  BY DEF Holds
<1>2. PICK mods : mods = Holds("imports", at)
  OBVIOUS
<1>3. buff \in PE /\ <<"imports", at>> \in DOMAIN Image[buff].holds
      /\ mods = Image[buff].holds[<<"imports", at>>]
  BY <1>1, <1>2 DEF Known, Holds
<1>4. mods \in Seq(ImportedModule)
  BY <1>1, <1>2, HoldsTyped DEF Contents
<1>5. PICK iat \in Words : iat = mods[m].iat
  <2>1. mods[m] \in ImportedModule
    BY <1>2, <1>4
  <2>. QED
    BY <2>1 DEF ImportedModule
<1>6. PICK x : x = <<"imports", at>>
  OBVIOUS
<1>7. \E i \in DOMAIN Image[buff].secs :
        /\ iat < Word \div 2 /\ Inside(Image[buff].secs, i, iat)
        /\ <<"thunks", OffsetOf(Image[buff].secs, i, iat)>> \in DOMAIN Image[buff].holds =>
             \A j \in DOMAIN Image[buff].holds[<<"thunks", OffsetOf(Image[buff].secs, i, iat)>>] :
               Inside(Image[buff].secs, i, iat + 4 * (j - 1))
  <2>1. x[1] = "imports" /\ x \in DOMAIN Image[buff].holds /\ mods = Image[buff].holds[x]
    BY <1>3, <1>6
  <2>2. m \in DOMAIN Image[buff].holds[x] /\ iat = Image[buff].holds[x][m].iat
    BY <1>2, <1>5, <2>1
  <2>. QED
    BY <1>3, <2>1, <2>2, LinkedAssumption, Zenon
<1>8. PICK i \in DOMAIN Image[buff].secs :
        /\ iat < Word \div 2 /\ Inside(Image[buff].secs, i, iat)
        /\ <<"thunks", OffsetOf(Image[buff].secs, i, iat)>> \in DOMAIN Image[buff].holds =>
             \A j \in DOMAIN Image[buff].holds[<<"thunks", OffsetOf(Image[buff].secs, i, iat)>>] :
               Inside(Image[buff].secs, i, iat + 4 * (j - 1))
  BY <1>7
<1>9. PICK foa : foa = OffsetOf(Secs, i, iat)
  OBVIOUS
<1>10. \A j \in DOMAIN Holds("thunks", foa) : Inside(Secs, i, iat + 4 * (j - 1))
  <2>1. CASE Known("thunks", foa)
    BY <1>8, <1>9, <2>1 DEF Known, Holds, Secs
  <2>2. CASE ~Known("thunks", foa)
    BY <2>2 DEF Holds
  <2>. QED
    BY <2>1, <2>2
<1>11. Inside(Secs, i, iat) /\ i \in DOMAIN Secs /\ iat < Word \div 2
  BY <1>8 DEF Secs
<1>. QED
  BY <1>2, <1>3, <1>5, <1>9, <1>10, <1>11

\* Address and offset advance together within a section.
LEMMA ThunkRight ==
  ASSUME NEW f \in PE, NEW i \in DOMAIN Image[f].secs, NEW iat \in Words, NEW d \in Nat,
         Inside(Image[f].secs, i, iat + d)
  PROVE  /\ (iat + d) % Word = iat + d
         /\ (OffsetOf(Image[f].secs, i, iat) + d) % Word = Offset(f, iat + d)
<1>1. PICK v \in Nat, n \in Nat, p \in Nat :
        /\ v = Image[f].secs[i].va /\ n = Image[f].secs[i].raw /\ p = Image[f].secs[i].ptr
        /\ v + n < Word /\ p + n < Word
  BY SectionsOf DEF WellFormed
<1>2. PICK r \in Nat : r = iat + d
  BY WordFacts
<1>3. r >= v /\ r < v + n
  BY <1>1, <1>2 DEF Inside
<1>4. r < Word /\ r \in Words
  BY <1>1, <1>3, WordFacts
<1>5. r % Word = r
  BY <1>4, WordFacts, SmallMod
<1>6. Offset(f, r) = OffsetOf(Image[f].secs, i, r)
  BY <1>2, <1>4, OffsetIs
<1>w. Word \in Nat /\ iat \in Nat
  BY WordFacts
<1>7. PICK q \in Nat : q = r - v + p /\ q < Word
  <2>1. r - v + p \in Nat /\ r - v + p < Word
    BY <1>1, <1>3, <1>w
  <2>. QED
    BY <2>1
<1>8. OffsetOf(Image[f].secs, i, r) = q
  BY <1>1, <1>7 DEF OffsetOf
<1>9. OffsetOf(Image[f].secs, i, iat) + d = q
  <2>1. OffsetOf(Image[f].secs, i, iat) = iat - v + p
    BY <1>1 DEF OffsetOf
  <2>2. iat - v + p + d = q
    BY <1>2, <1>7, <1>w
  <2>. QED
    BY <2>1, <2>2
<1>10. q % Word = q
  BY <1>7, WordFacts, SmallMod
<1>. QED
  BY <1>2, <1>5, <1>6, <1>8, <1>9, <1>10

\* What the thunk table of an address says.
ThunkRows(rva, foa, thunks) ==
  [j \in DOMAIN thunks |->
     [rva |-> (rva + 4 * (j - 1)) % Word, foa |-> (foa + 4 * (j - 1)) % Word]]

LEMMA ThunksTyped ==
  ASSUME NEW foa
  PROVE  Holds("thunks", foa) \in Seq(Words)
<1>1. CASE Known("thunks", foa)
  BY <1>1, HoldsTyped DEF Contents
<1>2. CASE ~Known("thunks", foa)
  BY <1>2 DEF Holds
<1>. QED
  BY <1>1, <1>2

\* sub is read at an offset of the address table of the m-th module listed at at.
ThunksOf(at, m, iat, o, sub) ==
  /\ m \in DOMAIN Holds("imports", at) /\ iat = Holds("imports", at)[m].iat /\ o \in ToFoa(iat)
  /\ sub = ThunkRows(iat, o.value, Holds("thunks", o.value))

\* A click on a listed module shows where its thunks are.
LEMMA ModuleShown ==
  ASSUME NEW at, NEW m, NEW iat, NEW o, NEW sub, ThunksOf(at, m, iat, o, sub)
  PROVE  /\ \A j \in DOMAIN sub : sub[j].foa = Offset(buff, sub[j].rva)
         /\ o.value = Offset(buff, iat) /\ Len(sub) = Len(Holds("thunks", Offset(buff, iat)))
<1>u. /\ m \in DOMAIN Holds("imports", at) /\ iat = Holds("imports", at)[m].iat /\ o \in ToFoa(iat)
      /\ sub = ThunkRows(iat, o.value, Holds("thunks", o.value))
  BY DEF ThunksOf
<1>1. buff \in PE /\ iat \in Words
  BY <1>u, ModuleLinked
<1>2. PICK i \in DOMAIN Secs :
        /\ Inside(Secs, i, iat)
        /\ \A j \in DOMAIN Holds("thunks", OffsetOf(Secs, i, iat)) : Inside(Secs, i, iat + 4 * (j - 1))
  BY <1>u, ModuleLinked
<1>3. InFile(buff, iat) /\ Offset(buff, iat) = OffsetOf(Secs, i, iat)
  BY <1>1, <1>2, OffsetIs DEF Secs
<1>4. o.value = Offset(buff, iat)
  <2>1. o \in RvaToFoa(Image[buff].secs, iat)
    BY <1>u, <1>1 DEF ToFoa, Secs
  <2>. QED
    BY <1>1, <1>3, <2>1, OffsetFound
<1>5. PICK thunks \in Seq(Words) : thunks = Holds("thunks", o.value)
  BY ThunksTyped
<1>6. sub = [j \in DOMAIN thunks |->
               [rva |-> (iat + 4 * (j - 1)) % Word, foa |-> (o.value + 4 * (j - 1)) % Word]]
  BY <1>u, <1>5 DEF ThunkRows
<1>7. ASSUME NEW j \in DOMAIN sub PROVE sub[j].foa = Offset(buff, sub[j].rva)
  <2>1. j \in DOMAIN thunks /\ j \in Nat \ {0}
    BY <1>6
  <2>2. PICK d \in Nat : d = 4 * (j - 1)
    BY <2>1
  <2>3. sub[j].rva = (iat + d) % Word /\ sub[j].foa = (o.value + d) % Word
    BY <1>6, <2>1, <2>2
  <2>4. Inside(Image[buff].secs, i, iat + d) /\ i \in DOMAIN Image[buff].secs
    BY <1>2, <1>3, <1>4, <1>5, <2>1, <2>2 DEF Secs
  <2>5. o.value = OffsetOf(Image[buff].secs, i, iat)
    BY <1>3, <1>4 DEF Secs
  <2>6. (iat + d) % Word = iat + d /\ (OffsetOf(Image[buff].secs, i, iat) + d) % Word = Offset(buff, iat + d)
    BY <1>1, <2>4, ThunkRight
  <2>. QED
    BY <2>3, <2>5, <2>6
<1>8. Len(sub) = Len(thunks)
  <2>1. Len(thunks) \in Nat /\ DOMAIN thunks = 1 .. Len(thunks)
    OBVIOUS
  <2>2. DOMAIN sub = 1 .. Len(thunks) /\ sub \in [1 .. Len(thunks) -> {sub[j] : j \in 1 .. Len(thunks)}]
    BY <1>6, <2>1
  <2>. QED
    BY <2>1, <2>2
<1>. QED
  BY <1>4, <1>5, <1>7, <1>8

\* The rows of the list of modules are the address tables of what was read, and what is
\* shown beside a table is about the file in memory.
RowsRead ==
  dialog = "imports" =>
    table.rows = [m \in DOMAIN Holds("imports", table.at) |-> Holds("imports", table.at)[m].iat]

AtRight ==
  dialog \in Tables /\ buff \in PE /\ InFile(buff, Image[buff].dir[dialog]) =>
    table.at = Offset(buff, Image[buff].dir[dialog])

SubRight ==
  dialog \in {"imports", "resources"} /\ buff \in PE =>
    \A j \in DOMAIN table.sub : InFile(buff, table.sub[j].rva) =>
      table.sub[j].foa = Offset(buff, table.sub[j].rva)

SubWhole ==
  dialog = "imports" /\ buff \in PE /\ table.picked >= 0
    /\ InFile(buff, table.rows[table.picked + 1]) =>
  Len(table.sub) = Len(Holds("thunks", Offset(buff, table.rows[table.picked + 1])))

Shape == table = [at |-> table.at, rows |-> table.rows, picked |-> table.picked, sub |-> table.sub]

TableInv == Shape /\ RowsRead /\ AtRight /\ SubRight /\ SubWhole

LEMMA HoldsSame ==
  ASSUME buff' = buff
  PROVE  \A kind, foa : Holds(kind, foa)' = Holds(kind, foa)
BY DEF Holds, Known

\* A dialog just opened has read its directory.
LEMMA TableOpened ==
  ASSUME ViewerInv, NEW kind \in Tables, Enter(kind), NEW o \in Directory(kind), NEW rows,
         table' = [Nothing EXCEPT !.at = o.value, !.rows = rows],
         kind = "imports" => rows = [m \in DOMAIN Holds("imports", o.value) |->
                                       Holds("imports", o.value)[m].iat]
  PROVE  TableInv'
<1>1. dialog' = kind /\ buff' = buff
  BY DEF Enter
<1>2. /\ table' = [at |-> o.value, rows |-> rows, picked |-> -1, sub |-> <<>>]
      /\ table'.at = o.value /\ table'.rows = rows /\ table'.picked = -1 /\ table'.sub = <<>>
  BY DEF Nothing
<1>3. Shape'
  BY <1>2 DEF Shape
<1>4. RowsRead'
  <2>1. PICK at : at = o.value
    OBVIOUS
  <2>2. Holds("imports", at)' = Holds("imports", at)
    BY <1>1, HoldsSame
  <2>3. table'.at = at
    BY <1>2, <2>1
  <2>4. Holds("imports", table.at)' = Holds("imports", at)
    BY <1>1, <2>3 DEF Holds, Known
  <2>. QED
    BY <1>1, <1>2, <2>1, <2>4 DEF RowsRead
<1>5. AtRight'
  <2>1. ASSUME buff \in PE, InFile(buff, Image[buff].dir[kind])
        PROVE  o.value = Offset(buff, Image[buff].dir[kind])
    <3>1. Image[buff].dir[kind] \in Words
      BY <2>1, ImageAssumption
    <3>2. o \in RvaToFoa(Image[buff].secs, Image[buff].dir[kind])
      BY <2>1 DEF Directory, ToFoa, Secs
    <3>. QED
      BY <2>1, <3>1, <3>2, OffsetFound
  <2>. QED
    BY <1>1, <1>2, <2>1 DEF AtRight
<1>6. SubRight' /\ SubWhole'
  BY <1>2 DEF SubRight, SubWhole
<1>. QED
  BY <1>3, <1>4, <1>5, <1>6 DEF TableInv

\* A click in the list of modules.
LEMMA ModuleClicked ==
  ASSUME ViewerInv, TableInv, NEW r \in -1 .. Len(table.rows) - 1, dialog = "imports", ~Crash, ClickModule(r)
  PROVE  TableInv'
<1>1. PICK text : text = RowText(r)
  OBVIOUS
<1>2. PICK o \in ToFoa(Parsed(text)) :
        /\ dialog' = dialog /\ buff' = buff
        /\ table' = [table EXCEPT !.picked = r,
                       !.sub = ThunkRows(Parsed(text), o.value, Holds("thunks", o.value))]
  BY <1>1 DEF ClickModule, ThunkRows
<1>3. PICK sub : sub = ThunkRows(Parsed(text), o.value, Holds("thunks", o.value))
  OBVIOUS
<1>4. /\ table' = [at |-> table.at, rows |-> table.rows, picked |-> r, sub |-> sub]
      /\ table'.at = table.at /\ table'.rows = table.rows /\ table'.picked = r /\ table'.sub = sub
  <2>1. PICK at, rows, picked, old : table = [at |-> at, rows |-> rows, picked |-> picked, sub |-> old]
    BY DEF TableInv, Shape
  <2>. QED
    BY <1>2, <1>3, <2>1
<1>5. Shape'
  BY <1>4 DEF Shape
<1>6. RowsRead' /\ AtRight'
  <2>1. Holds("imports", table.at)' = Holds("imports", table.at)
    BY <1>2, <1>4 DEF Holds, Known
  <2>. QED
    BY <1>2, <1>4, <2>1 DEF TableInv, RowsRead, AtRight
<1>7. CASE r = -1
  <2>1. text = Blank /\ Parsed(text) = 0
    BY <1>1, <1>7 DEF RowText, HasRow, Parsed
  <2>2. buff \in PE => sub = <<>>
    <3> SUFFICES ASSUME buff \in PE PROVE sub = <<>>
      OBVIOUS
    <3>1. o.value = OutOfRange
      BY <1>2, <2>1, NothingAtZero DEF ToFoa, Secs
    <3>2. Holds("thunks", o.value) = <<>>
      BY <3>1, LinkedAssumption DEF Holds, Known
    <3>. QED
      BY <1>3, <3>2 DEF ThunkRows
  <2>3. SubRight'
    BY <1>2, <1>4, <2>2 DEF SubRight
  <2>4. SubWhole'
    BY <1>4, <1>7 DEF SubWhole
  <2>. QED
    BY <1>5, <1>6, <2>3, <2>4 DEF TableInv
<1>8. CASE r # -1
  <2>1. PICK at : at = table.at
    OBVIOUS
  <2>2. PICK mods : mods = Holds("imports", at)
    OBVIOUS
  <2>3. table.rows = [m \in DOMAIN mods |-> mods[m].iat]
    BY <2>1, <2>2 DEF TableInv, RowsRead
  <2>4. PICK len \in Nat : DOMAIN mods = 1 .. len
    <3>1. CASE Known("imports", at)
      BY <2>2, <3>1, HoldsTyped DEF Contents
    <3>2. CASE ~Known("imports", at)
      BY <2>2, <3>2 DEF Holds
    <3>. QED
      BY <3>1, <3>2
  <2>5. Len(table.rows) = len
    BY <2>3, <2>4
  <2>6. r \in 0 .. len - 1 /\ r + 1 \in DOMAIN mods
    BY <1>8, <2>4, <2>5
  <2>7. text = table.rows[r + 1] /\ text = mods[r + 1].iat
    BY <1>1, <2>3, <2>5, <2>6 DEF RowText, HasRow
  <2>8. buff \in PE /\ text \in Words /\ text < Word \div 2
    BY <2>2, <2>6, <2>7, ModuleLinked
  <2>9. Parsed(text) = text
    BY <2>8, ParsedSmall DEF Texts
  <2>10. o \in ToFoa(text) /\ sub = ThunkRows(text, o.value, Holds("thunks", o.value))
    BY <1>2, <1>3, <2>9
  <2>11. /\ \A j \in DOMAIN sub : sub[j].foa = Offset(buff, sub[j].rva)
         /\ Len(sub) = Len(Holds("thunks", Offset(buff, text)))
    <3>1. PICK m \in DOMAIN Holds("imports", at) : m = r + 1
      BY <2>2, <2>6
    <3>2. text = Holds("imports", at)[m].iat
      BY <2>2, <2>7, <3>1
    <3>3. ThunksOf(at, m, text, o, sub)
      BY <2>10, <3>1, <3>2 DEF ThunksOf
    <3>. QED
      BY <3>3, ModuleShown
  <2>12. SubRight'
    BY <1>2, <1>4, <2>11 DEF SubRight
  <2>13. SubWhole'
    <3>1. table'.rows[table'.picked + 1] = text
      BY <1>4, <2>7
    <3>3. PICK foa : foa = Offset(buff, text)
      OBVIOUS
    <3>4. Holds("thunks", foa)' = Holds("thunks", foa)
      BY <1>2, HoldsSame
    <3>. QED
      BY <1>2, <1>4, <2>11, <3>1, <3>3, <3>4 DEF SubWhole
  <2>. QED
    BY <1>5, <1>6, <2>12, <2>13 DEF TableInv
<1>. QED
  BY <1>7, <1>8

\* A node of the tree of resources.
LEMMA NodeSelected ==
  ASSUME ViewerInv, TableInv, NEW type, NEW leaf, SelectNode(type, leaf)
  PROVE  TableInv'
<1>1. dialog = "resources" /\ dialog' = dialog /\ buff' = buff
  BY DEF SelectNode
<1>2. PICK types : types = Holds("resources", table.at)
  OBVIOUS
<1>3. type \in DOMAIN types /\ leaf \in 0 .. Len(types[type])
  BY <1>2 DEF SelectNode
<1>4. PICK at, rows, picked, old : table = [at |-> at, rows |-> rows, picked |-> picked, sub |-> old]
  BY DEF TableInv, Shape
<1>5. \E sub, row : /\ table' = [table EXCEPT !.picked = row, !.sub = sub]
                    /\ buff \in PE => \A j \in DOMAIN sub : InFile(buff, sub[j].rva) =>
                                        sub[j].foa = Offset(buff, sub[j].rva)
  <2>1. CASE leaf = 0
    <3>1. table' = [table EXCEPT !.picked = 0, !.sub = <<>>]
      BY <2>1 DEF SelectNode
    <3>2. PICK sub : sub = <<>>
      OBVIOUS
    <3>3. \A j \in DOMAIN sub : FALSE
      BY <3>2
    <3>. QED
      BY <3>1, <3>2, <3>3
  <2>2. CASE leaf # 0
    <3>1. PICK address : address = types[type][leaf]
      OBVIOUS
    <3>2. PICK o \in ToFoa(address) :
            table' = [table EXCEPT !.picked = leaf, !.sub = <<[rva |-> address, foa |-> o.value]>>]
      BY <1>2, <2>2, <3>1 DEF SelectNode
    <3>3. PICK sub : sub = <<[rva |-> address, foa |-> o.value]>>
      OBVIOUS
    <3>4. DOMAIN sub = {1} /\ sub[1].rva = address /\ sub[1].foa = o.value
      BY <3>3
    <3>5. ASSUME buff \in PE, InFile(buff, address) PROVE o.value = Offset(buff, address)
      <4>1. Known("resources", table.at)
        BY <1>2, <1>3 DEF Holds
      <4>2. types \in Seq(Seq(Words))
        BY <1>2, <4>1, HoldsTyped DEF Contents
      <4>3. PICK leaves \in Seq(Words) : leaves = types[type]
        BY <1>3, <4>2
      <4>4. address \in Words
        BY <1>3, <2>2, <3>1, <4>3
      <4>5. o \in RvaToFoa(Image[buff].secs, address)
        BY <3>5 DEF ToFoa, Secs
      <4>. QED
        BY <3>5, <4>4, <4>5, OffsetFound
    <3>. QED
      BY <3>2, <3>3, <3>4, <3>5
  <2>. QED
    BY <2>1, <2>2
<1>6. PICK sub, row :
        /\ table' = [table EXCEPT !.picked = row, !.sub = sub]
        /\ buff \in PE => \A j \in DOMAIN sub : InFile(buff, sub[j].rva) =>
                            sub[j].foa = Offset(buff, sub[j].rva)
  BY <1>5
<1>7. /\ table' = [at |-> at, rows |-> rows, picked |-> row, sub |-> sub]
      /\ table'.at = table.at /\ table'.sub = sub
  BY <1>4, <1>6
<1>8. Shape'
  BY <1>7 DEF Shape
<1>9. RowsRead' /\ SubWhole'
  BY <1>1 DEF RowsRead, SubWhole
<1>10. AtRight' /\ SubRight'
  BY <1>1, <1>6, <1>7 DEF TableInv, AtRight, SubRight
<1>. QED
  BY <1>8, <1>9, <1>10 DEF TableInv

\* Steps that are about no table.
LEMMA TableLeft == Shape' /\ dialog' \notin Tables => TableInv'
BY DEF TableInv, RowsRead, AtRight, SubRight, SubWhole, Tables

LEMMA TableStep ==
  ASSUME ViewerInv, TableInv, [Next]_vars
  PROVE  TableInv'
<1>1. CASE OpenImports
  <2>1. PICK o \in Directory("imports") :
          table' = [Nothing EXCEPT !.at = o.value,
                      !.rows = [m \in DOMAIN Holds("imports", o.value) |-> Holds("imports", o.value)[m].iat]]
    BY <1>1 DEF OpenImports
  <2>2. Enter("imports") /\ "imports" \in Tables
    BY <1>1 DEF OpenImports, Tables
  <2>. QED
    BY <2>1, <2>2, TableOpened
<1>2. CASE OpenExports
  <2>1. PICK o \in Directory("exports") : \E rows : table' = [Nothing EXCEPT !.at = o.value, !.rows = rows]
    BY <1>2 DEF OpenExports
  <2>2. Enter("exports") /\ "exports" \in Tables /\ "exports" # "imports"
    BY <1>2 DEF OpenExports, Tables
  <2>. QED
    BY <2>1, <2>2, TableOpened
<1>3. CASE OpenRelocs
  <2>1. PICK o \in Directory("relocs") : \E rows : table' = [Nothing EXCEPT !.at = o.value, !.rows = rows]
    BY <1>3 DEF OpenRelocs
  <2>2. Enter("relocs") /\ "relocs" \in Tables /\ "relocs" # "imports"
    BY <1>3 DEF OpenRelocs, Tables
  <2>. QED
    BY <2>1, <2>2, TableOpened
<1>4. ASSUME NEW kind \in {"resources", "tls", "delay"}, OpenPlain(kind) PROVE TableInv'
  <2>1. PICK o \in Directory(kind) : table' = [Nothing EXCEPT !.at = o.value]
    BY <1>4 DEF OpenPlain
  <2>2. table' = [Nothing EXCEPT !.at = o.value, !.rows = <<>>]
    <3>1. PICK at, none : at = o.value /\ none = <<>>
      OBVIOUS
    <3>2. PICK n : n = Nothing
      OBVIOUS
    <3>3. n = [at |-> 0, rows |-> none, picked |-> -1, sub |-> none]
      BY <3>1, <3>2 DEF Nothing
    <3>4. PICK x, y : x = [n EXCEPT !.at = at] /\ y = [n EXCEPT !.at = at, !.rows = none]
      OBVIOUS
    <3>5. x = [at |-> at, rows |-> none, picked |-> -1, sub |-> none]
      BY <3>3, <3>4
    <3>6. y = [at |-> at, rows |-> none, picked |-> -1, sub |-> none]
      BY <3>3, <3>4
    <3>. QED
      BY <2>1, <3>1, <3>2, <3>4, <3>5, <3>6
  <2>3. Enter(kind) /\ kind \in Tables /\ kind # "imports"
    BY <1>4 DEF OpenPlain, Tables
  <2>. QED
    BY <2>2, <2>3, TableOpened
<1>5. ASSUME NEW r, dialog = "relocs", ~Crash, ClickBlock(r) PROVE TableInv'
  <2>1. dialog' = dialog /\ buff' = buff
        /\ \E sub : table' = [table EXCEPT !.picked = r, !.sub = sub]
    BY <1>5 DEF ClickBlock
  <2>2. PICK at, rows, picked, old : table = [at |-> at, rows |-> rows, picked |-> picked, sub |-> old]
    BY DEF TableInv, Shape
  <2>3. PICK sub : table' = [at |-> at, rows |-> rows, picked |-> r, sub |-> sub]
    BY <2>1, <2>2
  <2>4. Shape' /\ table'.at = table.at
    BY <2>2, <2>3 DEF Shape
  <2>5. RowsRead' /\ SubRight' /\ SubWhole'
    BY <1>5, <2>1 DEF RowsRead, SubRight, SubWhole
  <2>6. AtRight'
    BY <2>1, <2>4 DEF TableInv, AtRight
  <2>. QED
    BY <2>4, <2>5, <2>6 DEF TableInv
<1>6. CASE UNCHANGED <<dialog, buff, table>>
  <2>2. Shape' /\ AtRight' /\ SubRight'
    BY <1>6 DEF TableInv, Shape, AtRight, SubRight
  <2>3. RowsRead'
    <3>2. Holds("imports", table.at)' = Holds("imports", table.at)
      BY <1>6 DEF Holds, Known
    <3>. QED
      BY <1>6, <3>2 DEF TableInv, RowsRead
  <2>4. SubWhole'
    <3>2. Holds("thunks", Offset(buff, table.rows[table.picked + 1]))'
            = Holds("thunks", Offset(buff, table.rows[table.picked + 1]))
      BY <1>6 DEF Holds, Known
    <3>. QED
      BY <1>6, <3>2 DEF TableInv, SubWhole
  <2>. QED
    BY <2>2, <2>3, <2>4 DEF TableInv
<1>7. CASE dialog' \notin Tables /\ table' \in {table, Nothing}
  <2>1. Shape'
    <3>1. CASE table' = table
      BY <3>1 DEF TableInv, Shape
    <3>2. CASE table' = Nothing
      BY <3>2 DEF Nothing, Shape
    <3>. QED
      BY <1>7, <3>1, <3>2
  <2>. QED
    BY <1>7, <2>1, TableLeft
<1>. QED
  BY <1>1, <1>2, <1>3, <1>4, <1>5, <1>6, <1>7, ModuleClicked, NodeSelected, TableSteps

\* No table is open at first.
LEMMA TableInvInit == Init => TableInv
<1> SUFFICES ASSUME Init PROVE TableInv
  OBVIOUS
<1>1. dialog = "none" /\ table = Nothing
  BY DEF Init
<1>2. Shape
  BY <1>1 DEF Shape, Nothing
<1>. QED
  BY <1>1, <1>2 DEF TableInv, RowsRead, AtRight, SubRight, SubWhole, Tables

\* A table is read where the linker put it, and what a click in it shows are addresses of
\* bytes of the file and their offsets, whatever other files, dialogs and tables came
\* before (CImportTableDialog.cpp, 129 to 160; CResTableDialog.cpp, 198 to 210).
THEOREM TablesRight == Spec => []TableRight
<1>1. ViewerInv /\ TableInv => TableRight
  BY DEF ViewerInv, TableInv, TableRight, AtRight, SubRight, SubWhole
<1>. QED
  BY <1>1, TableInvInit, ViewerInvInit, ViewerInvStep, TableStep, PTL DEF Spec

-----------------------------------------------------------------------------
(* The relocation blocks.                                                   *)

\* Different bytes of the file are at different offsets.
LEMMA OffsetsDiffer ==
  ASSUME NEW f \in PE, SectionsApart(Image[f].secs), NEW m \in Words, NEW n \in Words,
         InFile(f, m), InFile(f, n), Offset(f, m) = Offset(f, n)
  PROVE  m = n
<1> DEFINE secs == Image[f].secs
<1>1. PICK i \in DOMAIN secs : Inside(secs, i, m)
  BY DEF InFile
<1>2. PICK j \in DOMAIN secs : Inside(secs, j, n)
  BY DEF InFile
<1>3. OffsetOf(secs, i, m) = OffsetOf(secs, j, n)
  BY <1>1, <1>2, OffsetIs
<1>4. /\ secs[i].va \in Nat /\ secs[i].raw \in Nat /\ secs[i].ptr \in Nat
      /\ secs[j].va \in Nat /\ secs[j].raw \in Nat /\ secs[j].ptr \in Nat
      /\ i \in Nat /\ j \in Nat /\ m \in Nat /\ n \in Nat
  BY SectionsOf, WordFacts
<1>5. /\ m >= secs[i].va /\ m < secs[i].va + secs[i].raw
      /\ n >= secs[j].va /\ n < secs[j].va + secs[j].raw
      /\ m - secs[i].va + secs[i].ptr = n - secs[j].va + secs[j].ptr
  BY <1>1, <1>2, <1>3 DEF Inside, OffsetOf
<1>6. /\ i < j => secs[i].ptr + secs[i].raw <= secs[j].ptr
      /\ j < i => secs[j].ptr + secs[j].raw <= secs[i].ptr
  <2>1. secs[i].raw > 0 /\ secs[j].raw > 0
    BY <1>4, <1>5
  <2>. QED
    BY <2>1 DEF SectionsApart
<1> HIDE DEF secs
<1>7. ~(i < j)
  BY <1>4, <1>5, <1>6
<1>8. ~(j < i)
  BY <1>4, <1>5, <1>6
<1>9. i = j
  BY <1>4, <1>7, <1>8
<1>. QED
  BY <1>4, <1>5, <1>9

\* The table of relocations that is read is the file's.
LEMMA BlocksRead ==
  ASSUME NEW at, buff \in PE, PagesLinked(buff), Known("relocs", at)
  PROVE  /\ Blocks(buff) = Holds("relocs", at)
         /\ \A i, j \in DOMAIN Blocks(buff) : Blocks(buff)[i].va = Blocks(buff)[j].va => i = j
         /\ \A i \in DOMAIN Blocks(buff) :
              /\ PaddedAtEnd(Blocks(buff)[i].entries)
              /\ IF InFile(buff, Blocks(buff)[i].va)
                 THEN Offset(buff, Blocks(buff)[i].va) < Word \div 2
                 ELSE RvaToFoa(Secs, Blocks(buff)[i].va) = {Failed}
<1>1. PICK x : x = <<"relocs", at>>
  OBVIOUS
<1>2. x[1] = "relocs" /\ x \in DOMAIN Image[buff].holds /\ Holds("relocs", at) = Image[buff].holds[x]
  BY <1>1 DEF Known, Holds
<1>3. PICK y : y = CHOOSE z \in {z \in DOMAIN Image[buff].holds : z[1] = "relocs"} : TRUE
  OBVIOUS
<1>4. y \in DOMAIN Image[buff].holds /\ y[1] = "relocs"
  BY <1>2, <1>3
<1>5. y = x
  BY <1>2, <1>4 DEF PagesLinked
<1>6. Blocks(buff) = Image[buff].holds[x]
  BY <1>3, <1>5 DEF Blocks
<1>. QED
  BY <1>2, <1>6 DEF PagesLinked, Secs

\* The dialog of relocations as it opens: DPMap has the block of each page of a section,
\* whatever it had before.
LEMMA PagesKeyed ==
  ASSUME NEW blocks \in Seq(Block), buff \in PE, SectionsApart(Secs),
         \A i, j \in DOMAIN blocks : blocks[i].va = blocks[j].va => i = j,
         \A i \in DOMAIN blocks :
           IF InFile(buff, blocks[i].va) THEN Offset(buff, blocks[i].va) < Word \div 2
           ELSE RvaToFoa(Secs, blocks[i].va) = {Failed},
         NEW outs \in ToFoas([i \in DOMAIN blocks |-> blocks[i].va]),
         NEW i \in DOMAIN blocks, InFile(buff, blocks[i].va)
  PROVE  /\ outs[i].value = Offset(buff, blocks[i].va)
         /\ outs[i].value \in DOMAIN Keyed(blocks, outs)
         /\ Keyed(blocks, outs)[outs[i].value] = <<buff, i>>
<1>1. \A j \in DOMAIN blocks :
        blocks[j].va \in Words /\ outs[j] \in RvaToFoa(Secs, blocks[j].va)
  <2> SUFFICES ASSUME NEW j \in DOMAIN blocks
               PROVE  blocks[j].va \in Words /\ outs[j] \in RvaToFoa(Secs, blocks[j].va)
    OBVIOUS
  <2>1. blocks[j] \in Block
    OBVIOUS
  <2>2. PICK vas : vas = [n \in DOMAIN blocks |-> blocks[n].va]
    OBVIOUS
  <2>3. outs[j] \in ToFoa(vas[j])
    BY <2>2, ToFoasTyped
  <2>. QED
    BY <2>1, <2>2, <2>3 DEF Block, ToFoa
<1>2. \A j \in DOMAIN blocks : InFile(buff, blocks[j].va) => outs[j].value = Offset(buff, blocks[j].va)
  BY <1>1, OffsetFound DEF Secs
<1>3. ASSUME NEW j \in DOMAIN blocks, outs[j].value = outs[i].value
      PROVE  j = i
  <2>1. CASE InFile(buff, blocks[j].va)
    <3>1. Offset(buff, blocks[j].va) = Offset(buff, blocks[i].va)
      BY <1>2, <1>3, <2>1
    <3>2. blocks[j].va = blocks[i].va
      BY <1>1, <2>1, <3>1, OffsetsDiffer DEF Secs
    <3>. QED
      BY <3>2
  <2>2. CASE ~InFile(buff, blocks[j].va)
    <3>1. outs[j].value = Word - 1
      BY <1>1, <2>2 DEF Failed, OutOfRange
    <3>2. outs[i].value < Word \div 2
      BY <1>2
    <3>3. ~(Word - 1 < Word \div 2)
      BY WordFacts
    <3>. QED
      BY <1>3, <3>1, <3>2, <3>3
  <2>. QED
    BY <2>1, <2>2
<1>4. PICK key : key = outs[i].value
  OBVIOUS
<1>5. {j \in DOMAIN blocks : outs[j].value = key} = {i}
  BY <1>3, <1>4
<1>6. (CHOOSE c \in {i} : \A j \in {i} : j <= c) = i
  <2>1. i <= i
    <3>1. i \in Nat
      OBVIOUS
    <3>. QED
      BY <3>1
  <2>2. PICK top : top = CHOOSE c \in {i} : \A j \in {i} : j <= c
    OBVIOUS
  <2>3. top \in {i}
    BY <2>1, <2>2
  <2>. QED
    BY <2>2, <2>3
<1>7. key \in DOMAIN Keyed(blocks, outs) /\ Keyed(blocks, outs)[key] = <<buff, i>>
  BY <1>4, <1>5, <1>6 DEF Keyed
<1>. QED
  BY <1>2, <1>4, <1>7

\* What a list of the entries of a block may hold.
EntryTexts(page, entries) == {<<>>} \cup {EntryRow(page, entries[i]) : i \in 1 .. Len(entries)}
EntryList(page, entries) == Seq([text : EntryTexts(page, entries)])

\* The list of entries is filled an entry at a time.
EntriesBySteps(list, page, entries) ==
  /\ \A i \in 0 .. Len(entries) : list[i] \in EntryList(page, entries)
  /\ list[0] = <<>>
  /\ \A i \in 1 .. Len(entries) : list[i] = AddEntry(list[i - 1], page, entries, i)
  /\ BlockRows(page, entries) = list[Len(entries)]

\* An entry that follows the rows is shown behind them.
LEMMA EntryAdded ==
  ASSUME NEW page, NEW S, NEW entries \in Seq(S), NEW i \in 1 .. Len(entries),
         NEW list \in EntryList(page, entries)
  PROVE  /\ AddEntry(list, page, entries, i) \in EntryList(page, entries)
         /\ entries[i].highlow /\ Len(list) = i - 1 =>
              /\ Len(AddEntry(list, page, entries, i)) = i
              /\ AddEntry(list, page, entries, i)[i].text = EntryRow(page, entries[i])
              /\ \A r \in 1 .. i - 1 : AddEntry(list, page, entries, i)[r] = list[r]
<1> DEFINE T == EntryTexts(page, entries)
           R == [text : T]
<1>1. PICK row \in T : row = EntryRow(page, entries[i])
  BY DEF EntryTexts
<1>2. PICK blank \in R : blank = [text |-> <<>>]
  BY DEF EntryTexts
<1>3. PICK n \in Nat : n = i - 1
  OBVIOUS
<1>4. PICK grown : grown = InsertItem(list, n, blank)
  OBVIOUS
<1>5. PICK new : new = SetItemText(grown, n, "text", row)
  OBVIOUS
<1>6. AddEntry(list, page, entries, i) = IF entries[i].highlow THEN new ELSE list
  BY <1>1, <1>2, <1>3, <1>4, <1>5 DEF AddEntry
<1>7. \A s \in R : [s EXCEPT !["text"] = row] \in R
  OBVIOUS
<1>8. list \in Seq(R)
  BY DEF EntryList
<1>9. EntryList(page, entries) = Seq(R)
  BY DEF EntryList
<1> HIDE DEF R
<1>10. grown \in Seq(R) /\ Len(grown) = Len(list) + 1
  BY <1>2, <1>3, <1>4, <1>8, InsertItemGrows
<1>11. new \in Seq(R) /\ Len(new) = Len(list) + 1
  BY <1>5, <1>7, <1>10, SetItemTextKeepsType, SetItemTextKeepsLength
<1>12. ASSUME Len(list) = n
       PROVE  new[n + 1].text = row /\ \A r \in 1 .. n : new[r] = list[r]
  <2>1. grown = [j \in 1 .. n + 1 |-> IF j <= n THEN list[j] ELSE IF j = n + 1 THEN blank ELSE list[j - 1]]
    BY <1>3, <1>4, <1>12 DEF InsertItem
  <2>2. grown[n + 1] = blank /\ \A r \in 1 .. n : grown[r] = list[r]
    BY <2>1
  <2>3. HasRow(grown, n)
    BY <1>10, <1>12 DEF HasRow
  <2>4. new = [grown EXCEPT ![n + 1] = [blank EXCEPT !["text"] = row]]
    BY <1>5, <2>2, <2>3 DEF SetItemText
  <2>5. n + 1 \in DOMAIN grown
    BY <2>1
  <2>6. [blank EXCEPT !["text"] = row].text = row
    BY <1>2
  <2>. QED
    BY <2>2, <2>4, <2>5, <2>6
<1>13. i = n + 1
  BY <1>3
<1>. QED
  BY <1>1, <1>3, <1>6, <1>8, <1>9, <1>11, <1>12, <1>13

LEMMA BlockBySteps ==
  ASSUME NEW page, NEW S, NEW entries \in Seq(S)
  PROVE  \E list : EntriesBySteps(list, page, entries)
<1> DEFINE n == Len(entries)
           T == EntryList(page, entries)
           after(list, i) == AddEntry(list, page, entries, i)
           step == [i \in 1 .. n |-> [t \in T |-> after(t, i)]]
           list == CHOOSE g : g = [i \in 0 .. n |-> IF i = 0 THEN <<>> ELSE after(g[i - 1], i)]
<1>1. BlockRows(page, entries) = list[n]
  BY Zenon DEF BlockRows
<1>2. n \in Nat
  OBVIOUS
<1>3. <<>> \in T
  BY DEF EntryList
<1>4. \A i \in 1 .. n, t \in T : after(t, i) \in T
  BY EntryAdded
<1>5. \A i \in 1 .. n, t \in T : step[i][t] = after(t, i)
  <2> SUFFICES ASSUME NEW i \in 1 .. n, NEW t \in T PROVE step[i][t] = after(t, i)
    OBVIOUS
  <2> HIDE DEF n, T, after
  <2>1. step[i] = [u \in T |-> after(u, i)]
    BY Zenon
  <2> HIDE DEF step
  <2>. QED
    BY <2>1, Zenon
<1>6. \E g : g = [i \in 0 .. n |-> IF i = 0 THEN <<>> ELSE after(g[i - 1], i)]
  <2> HIDE DEF n, T, step, after
  <2>1. IsStep(T, <<>>, n, step)
    BY <1>2, <1>3, <1>4, <1>5 DEF IsStep
  <2>2. PICK g : Follows(g, T, <<>>, n, step)
    BY <2>1, Recursion
  <2>3. \A i \in 1 .. n : g[i - 1] \in T
    BY <1>2, <2>2 DEF Follows
  <2>4. \A i \in 1 .. n : g[i] = after(g[i - 1], i)
    BY <1>5, <2>2, <2>3 DEF Follows
  <2>5. \A i \in 0 .. n : g[i] = IF i = 0 THEN <<>> ELSE after(g[i - 1], i)
    BY <2>2, <2>4 DEF Follows
  <2>6. DOMAIN g = 0 .. n /\ g = [i \in DOMAIN g |-> g[i]]
    BY <2>2 DEF Follows
  <2>. QED
    BY <2>5, <2>6
<1>7. list = [i \in 0 .. n |-> IF i = 0 THEN <<>> ELSE after(list[i - 1], i)]
  <2> HIDE DEF n, after
  <2>. QED
    BY <1>6, Zenon
<1>8. list[0] = <<>> /\ \A i \in 1 .. n : list[i] = after(list[i - 1], i)
  <2> HIDE DEF n, list, after
  <2>. QED
    BY <1>2, <1>7
<1> HIDE DEF list, T
<1> DEFINE P == {i \in 0 .. n : list[i] \in T}
<1>9. 0 \in P
  BY <1>2, <1>3, <1>8
<1>10. ASSUME NEW i \in 1 .. n, i - 1 \in P PROVE i \in P
  <2> HIDE DEF after
  <2>. QED
    BY <1>4, <1>8, <1>10
<1>11. \A i \in 0 .. n : i \in P
  <2> HIDE DEF P
  <2>1. \A i \in 1 .. n : i - 1 \in P => i \in P
    BY <1>10, Zenon
  <2> HIDE DEF n
  <2>. QED
    BY <1>2, <1>9, <2>1, Induction, Zenon
<1>12. \A i \in 0 .. n : list[i] \in T
  BY <1>11
<1> USE DEF T
<1>13. EntriesBySteps(list, page, entries)
  BY <1>1, <1>8, <1>12 DEF EntriesBySteps
<1>. QED
  BY <1>13

Highlow(entries) == {i \in DOMAIN entries : entries[i].highlow}

\* One row per entry of type HIGHLOW, if only padding follows them.
LEMMA BlockRowsRight ==
  ASSUME NEW page, NEW S, NEW entries \in Seq(S), PaddedAtEnd(entries),
         NEW real, real = Highlow(entries), NEW rows, rows = BlockRows(page, entries)
  PROVE  /\ Len(rows) = Cardinality(real)
         /\ \A i \in real : Count(real, i) = i /\ rows[i].text = EntryRow(page, entries[i])
         /\ DOMAIN rows = real
<1> DEFINE n == Len(entries)
           T == EntryList(page, entries)
           row(i) == EntryRow(page, entries[i])
<1>s. PICK list : EntriesBySteps(list, page, entries)
  BY BlockBySteps
<1>1. /\ \A i \in 0 .. n : list[i] \in T
      /\ list[0] = <<>>
      /\ \A i \in 1 .. n : list[i] = AddEntry(list[i - 1], page, entries, i)
      /\ rows = list[n]
  BY <1>s, Zenon DEF EntriesBySteps
<1>2. /\ n \in Nat /\ real \in SUBSET (Nat \ {0}) /\ \A i \in 1 .. n : i \in real <=> entries[i].highlow
      /\ \A i \in real : i \in 1 .. n
  BY DEF Highlow
<1>3. \A i, j \in 1 .. n : i < j /\ j \in real => i \in real
  BY <1>2 DEF PaddedAtEnd
<1>4. ASSUME NEW i \in real PROVE Count(real, i) = i
  <2>1. {j \in real : j <= i} = 1 .. i
    <3>1. ASSUME NEW j \in 1 .. i PROVE j \in real
      <4>1. j \in 1 .. n /\ i \in 1 .. n /\ (j < i \/ j = i)
        BY <1>2
      <4>. QED
        BY <1>3, <4>1
    <3>. QED
      BY <1>2, <3>1
  <2>2. i \in Nat /\ i >= 1
    BY <1>2
  <2>3. Cardinality(1 .. i) = i
    <3>1. 1 \in Int /\ i \in Int /\ 1 <= i /\ i - 1 + 1 = i
      BY <2>2
    <3>2. Cardinality(1 .. i) = IF 1 > i THEN 0 ELSE i - 1 + 1
      BY <3>1, FS_Interval, Zenon
    <3>. QED
      BY <2>2, <3>2
  <2>. QED
    BY <2>1, <2>3 DEF Count
<1>t. ASSUME NEW i \in 1 .. n, NEW old \in T
      PROVE  /\ AddEntry(old, page, entries, i) \in T
             /\ entries[i].highlow /\ Len(old) = i - 1 =>
                  /\ Len(AddEntry(old, page, entries, i)) = i
                  /\ AddEntry(old, page, entries, i)[i].text = row(i)
                  /\ \A r \in 1 .. i - 1 : AddEntry(old, page, entries, i)[r] = old[r]
  BY EntryAdded
<1>l. \A x \in T : Len(x) \in Nat /\ DOMAIN x = 1 .. Len(x)
  BY DEF EntryList
<1> HIDE DEF n, T, row
<1> DEFINE Good(k) == /\ Len(list[k]) = Count(real, k)
                      /\ \A j \in real : j <= k => list[k][j].text = row(j)
           P == {k \in 0 .. n : Good(k)}
<1>5. 0 \in P
  <2>1. Count(real, 0) = 0
    BY <1>2, CountNext
  <2>2. \A j \in real : ~(j <= 0)
    BY <1>2
  <2>3. Len(list[0]) = 0
    BY <1>1
  <2>. QED
    BY <1>2, <2>1, <2>2, <2>3
<1>6. ASSUME NEW k \in 1 .. n, k - 1 \in P PROVE k \in P
  <2>1. Good(k - 1) /\ k - 1 \in 0 .. n /\ k \in 0 .. n /\ k \in Nat \ {0}
    BY <1>2, <1>6
  <2>2. PICK c \in Nat : c = Count(real, k - 1)
    BY <1>2, <2>1, CountNext
  <2>3. Count(real, k) = IF k \in real THEN c + 1 ELSE c
    BY <1>2, <2>1, <2>2, CountNext
  <2>4. PICK old \in T : old = list[k - 1]
    BY <1>1, <2>1
  <2>5. Len(old) = c /\ \A j \in real : j <= k - 1 => old[j].text = row(j)
    BY <2>1, <2>2, <2>4
  <2>6. CASE k \notin real
    <3>1. list[k] = old /\ Count(real, k) = c
      BY <1>1, <1>2, <2>3, <2>4, <2>6 DEF AddEntry
    <3>2. \A j \in real : j <= k => j <= k - 1
      BY <1>2, <2>6
    <3>3. Good(k)
      BY <2>5, <3>1, <3>2
    <3>. QED
      BY <2>1, <3>3
  <2>7. CASE k \in real
    <3>1. Count(real, k) = k /\ c = k - 1
      BY <1>4, <2>1, <2>3, <2>7
    <3>2. PICK new : new = AddEntry(old, page, entries, k)
      OBVIOUS
    <3>3. /\ Len(new) = k /\ new[k].text = row(k) /\ \A r \in 1 .. k - 1 : new[r] = old[r]
      BY <1>2, <1>t, <2>5, <2>7, <3>1, <3>2
    <3>4. list[k] = new
      BY <1>1, <2>4, <3>2
    <3>5. ASSUME NEW j \in real, j <= k PROVE new[j].text = row(j)
      <4>1. j = k \/ j \in 1 .. k - 1
        BY <1>2, <2>1, <3>5
      <4>2. j \in 1 .. k - 1 => j <= k - 1
        BY <2>1
      <4>. QED
        BY <2>5, <3>3, <4>1, <4>2
    <3>6. Good(k)
      BY <3>1, <3>3, <3>4, <3>5
    <3>. QED
      BY <2>1, <3>6
  <2>. QED
    BY <2>6, <2>7
<1>7. Good(n)
  <2>1. \A k \in 1 .. n : k - 1 \in P => k \in P
    BY <1>6, Zenon
  <2> HIDE DEF P
  <2>2. \A k \in 0 .. n : k \in P
    BY <1>2, <1>5, <2>1, Induction, Zenon
  <2>3. n \in P
    BY <1>2, <2>2
  <2> USE DEF P
  <2>. QED
    BY <2>3
<1>8. {j \in real : j <= n} = real
  BY <1>2
<1>9. Cardinality(real) = Count(real, n)
  BY <1>8 DEF Count
<1>10. \A i \in real : i <= n
  BY <1>2
<1>11. DOMAIN rows = 1 .. Count(real, n)
  <2>1. n \in 0 .. n
    BY <1>2
  <2>. QED
    BY <1>1, <1>7, <1>l, <2>1
<1>12. 1 .. Count(real, n) = real
  <2>1. CASE real = {}
    <3>1. Cardinality(real) = 0
      BY <2>1, FS_EmptySet
    <3>. QED
      BY <1>9, <2>1, <3>1
  <2>2. CASE real # {}
    <3>1. IsFiniteSet(real)
      <4>1. real \subseteq 1 .. n /\ 1 \in Int /\ n \in Int
        BY <1>2
      <4>2. IsFiniteSet(1 .. n)
        BY <4>1, FS_Interval, Zenon
      <4>. QED
        BY <4>1, <4>2, FS_Subset
    <3>2. PICK m \in real : \A j \in real : j <= m
      <4>1. {n - j : j \in real} \in SUBSET Nat /\ {n - j : j \in real} # {}
        BY <1>2, <2>2
      <4>2. PICK x \in {n - j : j \in real} : \A y \in {n - j : j \in real} : x <= y
        BY <4>1, LeastNumber
      <4>3. PICK m \in real : x = n - m
        BY <4>2
      <4>4. \A j \in real : n - m <= n - j
        BY <4>2, <4>3
      <4>5. \A j \in real : j \in Nat
        BY <1>2
      <4>6. \A j \in real : j <= m
        BY <1>2, <4>4, <4>5
      <4>. QED
        BY <4>6
    <3>3. {j \in real : j <= m} = real
      BY <3>2
    <3>4. Cardinality(real) = m
      BY <1>4, <3>3 DEF Count
    <3>5. ASSUME NEW j \in 1 .. m PROVE j \in real
      <4>1. j \in 1 .. n /\ m \in 1 .. n /\ (j < m \/ j = m)
        BY <1>2
      <4>. QED
        BY <1>3, <4>1
    <3>6. \A j \in real : j \in 1 .. m
      BY <1>2, <3>2
    <3>. QED
      BY <1>9, <3>4, <3>5, <3>6
  <2>. QED
    BY <2>1, <2>2
<1>. QED
  BY <1>1, <1>4, <1>7, <1>9, <1>10, <1>11, <1>12 DEF row

\* While the dialog of relocations is open, DPMap has the blocks of the file in memory
\* under the offsets of the rows.
RelocInv ==
  dialog = "relocs" /\ Known("relocs", table.at) /\ PagesLinked(buff) =>
    LET blocks == Blocks(buff)
    IN /\ Len(table.rows) = Len(blocks) /\ table.picked \in -1 .. Len(blocks) - 1
       /\ blocks # <<>> => last.rva = blocks[Len(blocks)].va
       /\ \A i \in DOMAIN blocks : InFile(buff, blocks[i].va) =>
            /\ table.rows[i] = Offset(buff, blocks[i].va)
            /\ table.rows[i] \in DOMAIN dpMap /\ dpMap[table.rows[i]] = <<buff, i>>
       /\ \A i \in DOMAIN blocks : table.picked = i - 1 /\ InFile(buff, blocks[i].va) =>
            table.sub = BlockRows(last, blocks[i].entries)

LEMMA MapKept == [Next]_vars => OpenRelocs \/ UNCHANGED <<dpMap, last>>
BY DEF Next, Step, vars, Open, Close, OpenCalculator, OpenDirectories, ChooseFile, SelectMode, Type,
       Calculate, OpenImports, OpenExports, EnterFails, OpenPlain, ClickModule, ClickBlock, SelectNode,
       Crash

\* The blocks of a file are blocks, in a sequence.
LEMMA BlocksOf ==
  ASSUME NEW at, buff \in PE, PagesLinked(buff), Known("relocs", at)
  PROVE  /\ Blocks(buff) \in Seq(Block)
         /\ \A i \in DOMAIN Blocks(buff) :
              /\ Blocks(buff)[i].va \in Words
              /\ Blocks(buff)[i].entries \in Seq([highlow : BOOLEAN, offset : Nat])
<1>1. Blocks(buff) \in Seq(Block)
  BY BlocksRead, BlocksTyped DEF Contents
<1>2. \A i \in DOMAIN Blocks(buff) : Blocks(buff)[i] \in Block
  BY <1>1
<1>. QED
  BY <1>1, <1>2 DEF Block

LEMMA RelocsOpened ==
  ASSUME ViewerInv, OpenRelocs
  PROVE  RelocInv'
<1>1. PICK o \in Directory("relocs") :
        LET blocks == Holds("relocs", o.value)
            n == Len(blocks)
        IN \E outs \in ToFoas([i \in DOMAIN blocks |-> blocks[i].va]) :
             /\ table' = [Nothing EXCEPT !.at = o.value, !.rows = [i \in 1 .. n |-> outs[i].value]]
             /\ dpMap' = Keyed(blocks, outs)
             /\ last' = IF n = 0 THEN last ELSE [rva |-> blocks[n].va, foa |-> outs[n].value]
  BY DEF OpenRelocs
<1>2. PICK at : at = o.value
  OBVIOUS
<1>3. dialog' = "relocs" /\ buff' = buff
  BY DEF OpenRelocs, Enter
<1>4. \E rows : table' = [Nothing EXCEPT !.at = at, !.rows = rows]
  BY <1>1, <1>2
<1>5. table'.at = at
  BY <1>4 DEF Nothing
<1> SUFFICES ASSUME Known("relocs", at), PagesLinked(buff) PROVE RelocInv'
  BY <1>3, <1>5 DEF RelocInv, Known
<1>6. buff \in PE
  BY DEF Known
<1>7. PICK blocks \in Seq(Block) : blocks = Blocks(buff) /\ blocks = Holds("relocs", at)
  BY <1>6, BlocksOf, BlocksRead
<1>8. PICK n \in Nat : n = Len(blocks) /\ DOMAIN blocks = 1 .. n
  OBVIOUS
<1>9. PICK outs \in ToFoas([i \in DOMAIN blocks |-> blocks[i].va]) :
        /\ table' = [Nothing EXCEPT !.at = at, !.rows = [i \in 1 .. n |-> outs[i].value]]
        /\ dpMap' = Keyed(blocks, outs)
        /\ last' = IF n = 0 THEN last ELSE [rva |-> blocks[n].va, foa |-> outs[n].value]
  BY <1>1, <1>2, <1>7, <1>8
<1>10. table'.rows = [i \in 1 .. n |-> outs[i].value] /\ table'.picked = -1
  BY <1>9 DEF Nothing
<1>11. Len(table'.rows) = n
  BY <1>8, <1>10
<1>12. blocks # <<>> => last'.rva = blocks[n].va
  BY <1>8, <1>9
<1>13. ASSUME NEW i \in DOMAIN blocks, InFile(buff, blocks[i].va)
       PROVE  /\ table'.rows[i] = Offset(buff, blocks[i].va)
              /\ table'.rows[i] \in DOMAIN dpMap' /\ dpMap'[table'.rows[i]] = <<buff, i>>
  <2>1. SectionsApart(Secs)
    BY <1>6 DEF PagesLinked, Secs
  <2>2. /\ \A k, j \in DOMAIN blocks : blocks[k].va = blocks[j].va => k = j
        /\ \A k \in DOMAIN blocks :
             IF InFile(buff, blocks[k].va) THEN Offset(buff, blocks[k].va) < Word \div 2
             ELSE RvaToFoa(Secs, blocks[k].va) = {Failed}
    BY <1>6, <1>7, BlocksRead
  <2>3. /\ outs[i].value = Offset(buff, blocks[i].va)
        /\ outs[i].value \in DOMAIN Keyed(blocks, outs)
        /\ Keyed(blocks, outs)[outs[i].value] = <<buff, i>>
    BY <1>6, <1>13, <2>1, <2>2, PagesKeyed
  <2>4. table'.rows[i] = outs[i].value
    BY <1>8, <1>10
  <2>. QED
    BY <1>9, <2>3, <2>4
<1>14. ASSUME NEW i \in DOMAIN blocks PROVE -1 # i - 1
  BY <1>8
<1>15. Blocks(buff)' = blocks
  BY <1>3, <1>7 DEF Blocks
<1>16. -1 \in -1 .. n - 1
  BY <1>8
<1>. QED
  BY <1>3, <1>7, <1>8, <1>10, <1>11, <1>12, <1>13, <1>14, <1>15, <1>16 DEF RelocInv

\* A click on the row of a page of a section takes its own block out of DPMap.
LEMMA BlockClicked ==
  ASSUME ViewerInv, TableInv, RelocInv, NEW r \in -1 .. Len(table.rows) - 1,
         dialog = "relocs", ~Crash, ClickBlock(r)
  PROVE  RelocInv'
<1>1. /\ UNCHANGED <<dialog, buff, dpMap, last>>
      /\ LET key == Parsed(RowText(r))
         IN table' = [table EXCEPT !.picked = r,
                        !.sub = BlockRows(last, Blocks(dpMap[key][1])[dpMap[key][2]].entries)]
  BY DEF ClickBlock
<1>2. PICK key : key = Parsed(RowText(r))
  OBVIOUS
<1>3. PICK b : b = dpMap[key]
  OBVIOUS
<1>4. table' = [table EXCEPT !.picked = r, !.sub = BlockRows(last, Blocks(b[1])[b[2]].entries)]
  BY <1>1, <1>2, <1>3
<1>5. PICK sub : sub = BlockRows(last, Blocks(b[1])[b[2]].entries)
  OBVIOUS
<1>6. table'.at = table.at /\ table'.rows = table.rows /\ table'.picked = r /\ table'.sub = sub
  BY <1>4, <1>5 DEF TableInv, Shape
<1> SUFFICES ASSUME Known("relocs", table.at), PagesLinked(buff) PROVE RelocInv'
  BY <1>1, <1>6 DEF RelocInv, Known
<1>7. buff \in PE
  BY DEF Known
<1>8. PICK blocks \in Seq(Block) : blocks = Blocks(buff)
  BY <1>7, BlocksOf
<1>9. /\ Len(table.rows) = Len(blocks)
      /\ blocks # <<>> => last.rva = blocks[Len(blocks)].va
      /\ \A i \in DOMAIN blocks : InFile(buff, blocks[i].va) =>
           /\ table.rows[i] = Offset(buff, blocks[i].va)
           /\ table.rows[i] \in DOMAIN dpMap /\ dpMap[table.rows[i]] = <<buff, i>>
  BY <1>8 DEF RelocInv
<1>10. ASSUME NEW i \in DOMAIN blocks, r = i - 1, InFile(buff, blocks[i].va)
       PROVE  sub = BlockRows(last, blocks[i].entries)
  <2>1. i \in Nat /\ r + 1 = i /\ HasRow(table.rows, r)
    BY <1>9, <1>10 DEF HasRow
  <2>2. RowText(r) = Offset(buff, blocks[i].va)
    BY <1>9, <1>10, <2>1 DEF RowText
  <2>3. Offset(buff, blocks[i].va) < Word \div 2
    BY <1>7, <1>8, <1>10, BlocksRead
  <2>4. Offset(buff, blocks[i].va) \in Texts
    BY <1>9, <1>10 DEF ViewerInv, Texts
  <2>5. key = Offset(buff, blocks[i].va)
    BY <1>2, <2>2, <2>3, <2>4, ParsedSmall
  <2>6. b = <<buff, i>>
    BY <1>3, <1>9, <1>10, <2>5
  <2>. QED
    BY <1>5, <1>8, <2>6
<1>11. Blocks(buff)' = blocks
  BY <1>1, <1>8 DEF Blocks
<1>12. r \in -1 .. Len(blocks) - 1
  BY <1>9
<1>. QED
  BY <1>1, <1>6, <1>8, <1>9, <1>10, <1>11, <1>12 DEF RelocInv

LEMMA RelocStep ==
  ASSUME ViewerInv, TableInv, RelocInv, [Next]_vars
  PROVE  RelocInv'
<1>1. CASE OpenRelocs
  BY <1>1, RelocsOpened
<1>2. CASE dialog' # "relocs"
  BY <1>2 DEF RelocInv
<1>3. CASE ~OpenRelocs /\ dialog' = "relocs"
  <2>1. UNCHANGED <<dpMap, last>>
    BY <1>3, MapKept
  <2>2. CASE UNCHANGED <<dialog, buff, table>>
    <3>1. Blocks(buff)' = Blocks(buff)
      BY <2>2 DEF Blocks
    <3>2. Known("relocs", table.at)' <=> Known("relocs", table.at)
      BY <2>2 DEF Known
    <3>3. UNCHANGED <<buff, table, dpMap, last, dialog>>
      BY <2>1, <2>2
    <3>. QED
      BY <3>1, <3>2, <3>3 DEF RelocInv
  <2>3. ASSUME NEW r \in -1 .. Len(table.rows) - 1, dialog = "relocs", ~Crash, ClickBlock(r)
        PROVE  RelocInv'
    BY <2>3, BlockClicked
  <2>4. CASE OpenImports \/ OpenExports \/ \E kind \in {"resources", "tls", "delay"} : OpenPlain(kind)
    BY <1>3, <2>4 DEF OpenImports, OpenExports, OpenPlain, Enter
  <2>5. ASSUME NEW r, dialog = "imports", ~Crash, ClickModule(r) PROVE RelocInv'
    BY <1>3, <2>5 DEF ClickModule
  <2>6. ASSUME NEW type, NEW leaf, SelectNode(type, leaf) PROVE RelocInv'
    BY <1>3, <2>6 DEF SelectNode
  <2>7. CASE dialog' \notin Tables
    BY <1>3, <2>7 DEF Tables
  <2>. QED
    BY <1>3, <2>2, <2>3, <2>4, <2>5, <2>6, <2>7, TableSteps
<1>. QED
  BY <1>1, <1>2, <1>3

LEMMA RelocInvariant == Spec => [](ViewerInv /\ RelocInv)
<1>1. Init => RelocInv
  BY DEF Init, RelocInv
<1>. QED
  BY <1>1, TableInvInit, ViewerInvInit, ViewerInvStep, TableStep, RelocStep, PTL DEF Spec

\* The rows of the block whose row is picked.
LEMMA PickedRows ==
  ASSUME RelocInv, buff \in PE, PagesLinked(buff), dialog = "relocs", Known("relocs", table.at),
         table.picked >= 0, InFile(buff, Blocks(buff)[table.picked + 1].va)
  PROVE  LET entries == Blocks(buff)[table.picked + 1].entries
             real == Highlow(entries)
         IN /\ Len(table.sub) = Cardinality(real) /\ DOMAIN table.sub = real
            /\ \A i \in real : /\ Cardinality({j \in real : j <= i}) = i
                               /\ table.sub[i].text = EntryRow(last, entries[i])
            /\ table.picked + 1 \in DOMAIN Blocks(buff)
<1>1. PICK blocks \in Seq(Block) : blocks = Blocks(buff)
  BY BlocksOf
<1>2. table.picked \in -1 .. Len(blocks) - 1
  BY <1>1 DEF RelocInv
<1>3. PICK i \in DOMAIN blocks : i = table.picked + 1 /\ table.picked = i - 1
  <2>1. table.picked + 1 \in DOMAIN blocks /\ table.picked = (table.picked + 1) - 1
    BY <1>2
  <2>. QED
    BY <2>1
<1>4. PICK entries : entries = blocks[i].entries
  OBVIOUS
<1>5. entries \in Seq([highlow : BOOLEAN, offset : Nat]) /\ PaddedAtEnd(entries)
  BY <1>1, <1>3, <1>4, BlocksOf, BlocksRead
<1>6. table.sub = BlockRows(last, entries)
  BY <1>1, <1>3, <1>4 DEF RelocInv
<1>7. PICK real : real = Highlow(entries)
  OBVIOUS
<1>8. PICK rows, page : rows = table.sub /\ page = last /\ rows = BlockRows(page, entries)
  BY <1>6
<1>9. PICK S : entries \in Seq(S)
  BY <1>5
<1>10. /\ Len(rows) = Cardinality(real) /\ DOMAIN rows = real
       /\ \A n \in real : Count(real, n) = n /\ rows[n].text = EntryRow(page, entries[n])
  <2> HIDE <1>6
  <2>. QED
    BY <1>5, <1>7, <1>8, <1>9, BlockRowsRight
<1>. QED
  BY <1>1, <1>3, <1>4, <1>7, <1>8, <1>10 DEF Count

\* A click on a relocation block shows the entries of that block of the file in memory,
\* whatever files DPMap has blocks of, if a linker wrote the table
\* (CRelocDialog.cpp, 72 to 166).
THEOREM BlocksRight == Spec => [](PagesLinked(buff) => BlockOfRow)
<1>1. ASSUME ViewerInv, RelocInv, PagesLinked(buff) PROVE BlockOfRow
  <2> SUFFICES ASSUME dialog = "relocs", Known("relocs", table.at), table.picked >= 0,
                      InFile(buff, Blocks(buff)[table.picked + 1].va)
               PROVE  LET entries == Blocks(buff)[table.picked + 1].entries
                          highlow == {i \in DOMAIN entries : entries[i].highlow}
                      IN /\ Len(table.sub) = Cardinality(highlow)
                         /\ \A i \in highlow :
                              table.sub[Cardinality({j \in highlow : j <= i})].text =
                                <<(last.rva + entries[i].offset) % Word,
                                  (last.foa + entries[i].offset) % Word>>
    BY DEF BlockOfRow
  <2>1. buff \in PE
    BY DEF Known
  <2>. QED
    BY <1>1, <2>1, PickedRows DEF Highlow, EntryRow
<1>. QED
  BY <1>1, RelocInvariant, PTL

\* The addresses shown for the last block of a table, and so those of a table with one
\* block, are the ones that need relocation: baseRVA is that block's page.  (Those of the
\* other blocks are not, which the run PERelocAddress shows.)
THEOREM LastBlockAddresses ==
  Spec => [](PagesLinked(buff) /\ table.picked + 1 = Len(Blocks(buff))
               /\ InFile(buff, Blocks(buff)[table.picked + 1].va) => RealRVA)
<1>1. ASSUME ViewerInv, RelocInv, PagesLinked(buff), table.picked + 1 = Len(Blocks(buff)),
             InFile(buff, Blocks(buff)[table.picked + 1].va)
      PROVE  RealRVA
  <2> SUFFICES ASSUME dialog = "relocs", Known("relocs", table.at), table.picked >= 0
               PROVE  LET block == Blocks(buff)[table.picked + 1]
                      IN \A i \in DOMAIN table.sub : table.sub[i].text # <<>> =>
                           table.sub[i].text[1] = (block.va + block.entries[i].offset) % Word
    BY DEF RealRVA
  <2>1. buff \in PE
    BY DEF Known
  <2>2. PICK blocks \in Seq(Block) : blocks = Blocks(buff)
    BY <1>1, <2>1, BlocksOf
  <2>3. PICK n \in DOMAIN blocks : n = table.picked + 1 /\ n = Len(blocks)
    BY <1>1, <2>1, <2>2, PickedRows
  <2>4. last.rva = blocks[n].va
    <3>1. blocks # <<>>
      BY <2>3
    <3>. QED
      BY <1>1, <2>2, <2>3, <3>1 DEF RelocInv
  <2>5. ASSUME NEW i \in DOMAIN table.sub
        PROVE  table.sub[i].text[1] = (blocks[n].va + blocks[n].entries[i].offset) % Word
    <3>1. table.sub[i].text = EntryRow(last, blocks[n].entries[i])
      BY <1>1, <2>1, <2>2, <2>3, <2>5, PickedRows
    <3>. QED
      BY <2>4, <3>1 DEF EntryRow
  <2>. QED
    BY <2>2, <2>3, <2>5
<1>. QED
  BY <1>1, RelocInvariant, PTL

=============================================================================
