------------------------- MODULE ListControlProofs -------------------------
(***************************************************************************)
(* What the list view's calls return, for any rows, and what the proofs of  *)
(* several components need about numbers.                                   *)
(***************************************************************************)
EXTENDS ListControl, WellFoundedInduction, TLAPS

\* InsertItem at a row number that is not negative makes a list of the same rows
\* and the new one, one longer.
LEMMA InsertItemGrows ==
  ASSUME NEW S, NEW list \in Seq(S), NEW i \in Nat, NEW row \in S
  PROVE  /\ InsertItem(list, i, row) \in Seq(S)
         /\ Len(InsertItem(list, i, row)) = Len(list) + 1
<1> DEFINE at == IF i > Len(list) THEN Len(list) ELSE i
           new == [j \in 1 .. Len(list) + 1 |->
                     IF j <= at THEN list[j] ELSE IF j = at + 1 THEN row ELSE list[j - 1]]
<1>1. InsertItem(list, i, row) = new
  BY DEF InsertItem
<1>2. Len(list) \in Nat /\ at \in 0 .. Len(list)
  OBVIOUS
<1>3. ASSUME NEW j \in 1 .. Len(list) + 1
      PROVE  (IF j <= at THEN list[j] ELSE IF j = at + 1 THEN row ELSE list[j - 1]) \in S
  BY <1>2
<1>4. new \in [1 .. Len(list) + 1 -> S]
  BY <1>3
<1>5. new \in Seq(S) /\ Len(new) = Len(list) + 1
  BY <1>2, <1>4
<1>. QED
  BY <1>1, <1>5

\* Replacing a row by another keeps a list of rows, of the same length.
LEMMA ReplaceRow ==
  ASSUME NEW S, NEW list \in Seq(S), NEW i, NEW row \in S
  PROVE  /\ [list EXCEPT ![i] = row] \in Seq(S)
         /\ Len([list EXCEPT ![i] = row]) = Len(list)
<1> DEFINE changed == [list EXCEPT ![i] = row]
<1>1. Len(list) \in Nat /\ list \in [1 .. Len(list) -> S]
  OBVIOUS
<1>2. changed \in [1 .. Len(list) -> S]
  BY <1>1
<1>. QED
  BY <1>1, <1>2

\* SetItemText keeps the type of the rows if replacing the column of a row does.
LEMMA SetItemTextKeepsType ==
  ASSUME NEW S, NEW list \in Seq(S), NEW i, NEW column, NEW text,
         \A row \in S : [row EXCEPT ![column] = text] \in S
  PROVE  SetItemText(list, i, column, text) \in Seq(S)
<1> DEFINE new == [list[i + 1] EXCEPT ![column] = text]
<1>1. CASE HasRow(list, i)
  <2>1. list[i + 1] \in S
    BY <1>1 DEF HasRow
  <2>2. new \in S
    BY <2>1
  <2>. QED
    BY <1>1, <2>2, ReplaceRow DEF SetItemText
<1>2. CASE ~HasRow(list, i)
  BY <1>2 DEF SetItemText
<1>. QED
  BY <1>1, <1>2

\* SetItemText neither adds nor removes a row.
LEMMA SetItemTextKeepsLength ==
  ASSUME NEW S, NEW list \in Seq(S), NEW i, NEW column, NEW text
  PROVE  Len(SetItemText(list, i, column, text)) = Len(list)
<1> DEFINE new == [list[i + 1] EXCEPT ![column] = text]
<1>1. list \in Seq(S \cup {new})
  OBVIOUS
<1>2. Len([list EXCEPT ![i + 1] = new]) = Len(list)
  <2> HIDE DEF new
  <2>. QED
    BY <1>1, ReplaceRow
<1>. QED
  BY <1>2 DEF SetItemText

\* A row inserted at the end leaves the others where they are.
LEMMA InsertAtEnd ==
  ASSUME NEW S, NEW list \in Seq(S), NEW row \in S
  PROVE  \A j \in 1 .. Len(list) : InsertItem(list, Len(list), row)[j] = list[j]
<1>1. Len(list) \in Nat
  OBVIOUS
<1>. QED
  BY <1>1 DEF InsertItem

\* SetItemText changes one column of one row.
LEMMA SetItemTextRows ==
  ASSUME NEW S, NEW list \in Seq(S), NEW i, NEW column, NEW text, HasRow(list, i)
  PROVE  /\ column \in DOMAIN list[i + 1] =>
              SetItemText(list, i, column, text)[i + 1][column] = text
         /\ \A c \in DOMAIN list[i + 1] :
              c # column => SetItemText(list, i, column, text)[i + 1][c] = list[i + 1][c]
         /\ \A j \in 1 .. Len(list) :
              j # i + 1 => SetItemText(list, i, column, text)[j] = list[j]
<1> DEFINE new == [list[i + 1] EXCEPT ![column] = text]
<1>1. SetItemText(list, i, column, text) = [list EXCEPT ![i + 1] = new]
  BY DEF SetItemText
<1>2. i + 1 \in 1 .. Len(list) /\ DOMAIN list = 1 .. Len(list)
  BY DEF HasRow
<1>3. /\ column \in DOMAIN list[i + 1] => new[column] = text
      /\ \A c \in DOMAIN list[i + 1] : c # column => new[c] = list[i + 1][c]
  OBVIOUS
<1> HIDE DEF new
<1>4. /\ [list EXCEPT ![i + 1] = new][i + 1] = new
      /\ \A j \in 1 .. Len(list) : j # i + 1 => [list EXCEPT ![i + 1] = new][j] = list[j]
  BY <1>2
<1>. QED
  BY <1>1, <1>3, <1>4

\* DeleteItem on a row that exists leaves the other rows, one fewer.
LEMMA DeleteItemShrinks ==
  ASSUME NEW S, NEW list \in Seq(S), NEW i, HasRow(list, i)
  PROVE  /\ DeleteItem(list, i) \in Seq(S)
         /\ Len(DeleteItem(list, i)) = Len(list) - 1
<1> DEFINE new == [j \in 1 .. Len(list) - 1 |-> IF j <= i THEN list[j] ELSE list[j + 1]]
<1>1. Len(list) \in Nat /\ Len(list) - 1 \in Nat /\ i \in Nat
  BY DEF HasRow
<1>2. \A j \in 1 .. Len(list) - 1 : (IF j <= i THEN list[j] ELSE list[j + 1]) \in S
  BY <1>1
<1>3. new \in [1 .. Len(list) - 1 -> S]
  BY <1>2
<1>4. new \in Seq(S) /\ Len(new) = Len(list) - 1
  BY <1>1, <1>3
<1>. QED
  BY <1>4 DEF DeleteItem
-----------------------------------------------------------------------------
(* Induction over the naturals, by the least number a claim fails for.      *)

Below == {p \in Nat \X Nat : p[1] < p[2]}

LEMMA BelowWellFounded == IsWellFoundedOn(Below, Nat)
BY NatLessThanWellFounded, Zenon DEF OpToRel, Below

\* A set of naturals that is not empty has a least element.
LEMMA LeastNumber ==
  ASSUME NEW T \in SUBSET Nat, T # {}
  PROVE  \E x \in T : \A y \in T : x <= y
<1>1. PICK x \in T : \A y \in T : ~ (<<y, x>> \in Below)
  BY BelowWellFounded, WFMin, Zenon
<1>2. \A y \in T : y < x => <<y, x>> \in Below
  <2> SUFFICES ASSUME NEW y \in T, y < x PROVE <<y, x>> \in Below
    OBVIOUS
  <2>1. <<y, x>> \in Nat \X Nat /\ <<y, x>>[1] < <<y, x>>[2]
    OBVIOUS
  <2>. QED
    BY <2>1, Zenon DEF Below
<1>3. \A y \in T : ~(y < x)
  BY <1>1, <1>2, Zenon
<1>4. \A y \in T : x <= y
  BY <1>3
<1>. QED
  BY <1>4

\* What holds of 0 and passes from a number to the next holds up to n.
LEMMA Induction ==
  ASSUME NEW n \in Nat, NEW P, 0 \in P, \A k \in 1 .. n : k - 1 \in P => k \in P
  PROVE  \A k \in 0 .. n : k \in P
<1> DEFINE T == {k \in 0 .. n : k \notin P}
<1>1. SUFFICES ASSUME T # {} PROVE FALSE
  OBVIOUS
<1>2. PICK k \in T : \A j \in T : k <= j
  <2>1. T \in SUBSET Nat
    OBVIOUS
  <2> HIDE DEF T
  <2>. QED
    BY <1>1, <2>1, LeastNumber
<1>3. k \in 1 .. n /\ k - 1 \in 0 .. n /\ k \notin P
  <2>1. k \in 0 .. n /\ k \notin P /\ k # 0
    BY <1>2
  <2>. QED
    BY <2>1
<1>4. k - 1 \notin T
  BY <1>2, <1>3
<1>. QED
  BY <1>3, <1>4

\* step[k] leads from what a recursive function is at k - 1 to what it is at k.
IsStep(T, base, n, step) ==
  base \in T /\ n \in Nat /\ \A k \in 1 .. n, t \in T : step[k][t] \in T

Follows(g, T, base, n, step) ==
  g \in [0 .. n -> T] /\ g[0] = base /\ \A k \in 1 .. n : g[k] = step[k][g[k - 1]]

\* A function whose value at a number is computed from the one before exists.
LEMMA Recursion ==
  ASSUME NEW T, NEW base, NEW n, NEW step, IsStep(T, base, n, step)
  PROVE  \E g : Follows(g, T, base, n, step)
<1> USE DEF IsStep
<1> DEFINE Good(m, g) == g[0] = base /\ \A k \in 1 .. m : g[k] = step[k][g[k - 1]]
           P == {m \in 0 .. n : \E g \in [0 .. m -> T] : Good(m, g)}
<1>1. 0 \in P
  <2>1. PICK g \in [0 .. 0 -> T] : g = [k \in 0 .. 0 |-> base]
    OBVIOUS
  <2>2. Good(0, g)
    BY <2>1
  <2>. QED
    BY <2>2
<1>2. ASSUME NEW m \in 1 .. n, m - 1 \in P PROVE m \in P
  <2>1. PICK g \in [0 .. m - 1 -> T] : Good(m - 1, g)
    BY <1>2
  <2>2. g[m - 1] \in T
    OBVIOUS
  <2>3. PICK v \in T : v = step[m][g[m - 1]]
    BY <2>2
  <2>4. PICK h \in [0 .. m -> T] : h = [k \in 0 .. m |-> IF k = m THEN v ELSE g[k]]
    <3>1. \A k \in 0 .. m : (IF k = m THEN v ELSE g[k]) \in T
      OBVIOUS
    <3>. QED
      BY <3>1
  <2>5. h[0] = base /\ h[m] = v /\ \A k \in 0 .. m - 1 : h[k] = g[k]
    BY <2>1, <2>4
  <2>6. ASSUME NEW k \in 1 .. m PROVE h[k] = step[k][h[k - 1]]
    <3>1. h[k - 1] = g[k - 1]
      BY <2>5
    <3>2. CASE k = m
      BY <2>3, <2>5, <3>1, <3>2
    <3>3. CASE k # m
      BY <2>1, <2>5, <3>1, <3>3
    <3>. QED
      BY <3>2, <3>3
  <2>7. Good(m, h)
    BY <2>5, <2>6
  <2> HIDE DEF Good
  <2>. QED
    BY <2>7
<1>3. n \in P
  <2> HIDE DEF P
  <2>1. \A k \in 0 .. n : k \in P
    BY <1>1, <1>2, Induction, Zenon
  <2>. QED
    BY <2>1
<1>. QED
  BY <1>3 DEF Follows

=============================================================================
