--------------------------- MODULE SequenceLemmas ---------------------------
(***************************************************************************)
(* What Min, Max and RemoveAt of the community modules return: the Leads   *)
(* worksheet is addressed by such positions, and the ordered dictionaries  *)
(* of the limits drop and move entries with them.                          *)
(***************************************************************************)
EXTENDS Integers, Sequences, SequencesExt, FiniteSetsExt, SequenceTheorems,
        WellFoundedInduction, NaturalsInduction, TLAPS

\* A nonempty set of positions has a first one.
LEMMA MinIsLeast ==
    ASSUME NEW S \in SUBSET Nat, S # {}
    PROVE  Min(S) \in S /\ \A i \in S : Min(S) <= i
  <1>. DEFINE Less == OpToRel(<, Nat)
  <1>1. \E i \in S : \A j \in S : ~(<<j, i>> \in Less)
    BY NatLessThanWellFounded, WFMin, Zenon
  <1>2. \A i, j \in Nat : j < i => <<j, i>> \in Less
    BY DEF OpToRel
  <1>. HIDE DEF Less
  <1>3. \E i \in S : \A j \in S : i <= j
    <2>1. PICK i \in S : \A j \in S : ~(<<j, i>> \in Less)
      BY <1>1
    <2>2. ASSUME NEW j \in S
          PROVE  i <= j
      <3>1. i \in Nat /\ j \in Nat /\ ~(j < i)
        BY Zenon, <1>2, <2>1
      <3>. QED
        BY <3>1
    <2>. QED
      BY <2>2
  <1>. QED
    BY <1>3 DEF Min

\* A nonempty set of positions in a sequence has a last one.
LEMMA MaxIsGreatest ==
    ASSUME NEW n \in Nat, NEW S \in SUBSET (1..n), S # {}
    PROVE  Max(S) \in S /\ \A i \in S : i <= Max(S)
  <1>. DEFINE T == {n - i : i \in S}
  <1>. \A i \in S : i \in 1..n
    OBVIOUS
  <1>1. T \in SUBSET Nat /\ T # {}
    <2>1. \A i \in S : n - i \in Nat
      OBVIOUS
    <2>. QED
      BY <2>1
  <1>2. PICK k \in T : \A j \in T : k <= j
    BY <1>1, MinIsLeast
  <1>3. \E i \in S : \A j \in S : i >= j
    <2>1. PICK i \in S : k = n - i
      OBVIOUS
    <2>2. ASSUME NEW j \in S
          PROVE  i >= j
      <3>1. k <= n - j
        BY <1>2
      <3>. QED
        BY <2>1, <3>1
    <2>. QED
      BY <2>2
  <1>. QED
    BY <1>3 DEF Max

\* The elements behind a removed one move up, the others stay.
LEMMA RowRemoved ==
    ASSUME NEW R, NEW s \in Seq(R), NEW i \in 1..Len(s)
    PROVE  /\ RemoveAt(s, i) \in Seq(R)
           /\ Len(RemoveAt(s, i)) = Len(s) - 1
           /\ \A j \in 1..(Len(s) - 1) : RemoveAt(s, i)[j] = IF j < i THEN s[j] ELSE s[j + 1]
  <1>. DEFINE above == SubSeq(s, 1, i - 1)
              below == SubSeq(s, i + 1, Len(s))
  <1>. Len(s) \in Nat /\ i \in Nat /\ 1 <= i /\ i <= Len(s)
    BY LenProperties
  <1>1. /\ above \in Seq(R) /\ Len(above) = i - 1
        /\ \A j \in 1..(i - 1) : above[j] = s[j]
    BY SubSeqProperties
  <1>2. /\ below \in Seq(R) /\ Len(below) = Len(s) - i
        /\ \A j \in 1..(Len(s) - i) : below[j] = s[i + j]
    BY SubSeqProperties
  <1>3. RemoveAt(s, i) = above \o below
    BY DEF RemoveAt
  <1>. HIDE DEF above, below
  <1>4. /\ above \o below \in Seq(R)
        /\ Len(above \o below) = Len(s) - 1
        /\ \A j \in 1..(Len(s) - 1) : (above \o below)[j] =
              IF j <= Len(above) THEN above[j] ELSE below[j - Len(above)]
    <2>1. Len(above) + Len(below) = Len(s) - 1
      BY <1>1, <1>2
    <2>2. /\ above \o below \in Seq(R)
          /\ Len(above \o below) = Len(above) + Len(below)
          /\ \A j \in 1..(Len(above) + Len(below)) : (above \o below)[j] =
                IF j <= Len(above) THEN above[j] ELSE below[j - Len(above)]
      BY <1>1, <1>2, ConcatProperties, Zenon
    <2>. QED
      BY <2>1, <2>2
  <1>5. ASSUME NEW j \in 1..(Len(s) - 1)
        PROVE  (above \o below)[j] = IF j < i THEN s[j] ELSE s[j + 1]
    <2>1. CASE j < i
      BY <1>1, <1>4, <2>1
    <2>2. CASE ~(j < i)
      <3>1. j - Len(above) \in 1..(Len(s) - i) /\ i + (j - Len(above)) = j + 1
        BY <1>1, <2>2
      <3>. QED
        BY <1>1, <1>2, <1>4, <2>2, <3>1
    <2>. QED
      BY <2>1, <2>2
  <1>. QED
    BY <1>3, <1>4, <1>5
=============================================================================
