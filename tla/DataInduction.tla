---------------------------- MODULE DataInduction ----------------------------
(***************************************************************************)
(* Induction over data, for the proofs of the components.  The induction   *)
(* theorems of the library take an operator for what is to be proved; here *)
(* it is a set, H, of the numbers up to which it holds, and the induction  *)
(* is that a set of naturals has a least member.                           *)
(*                                                                         *)
(* FlattenSeq (SequencesExt), which QrCode and Background use for the      *)
(* loops that append, is a function that calls itself; that there is such  *)
(* a function is proved first, and then that it is what FlattenSeq means.  *)
(***************************************************************************)
EXTENDS Integers, SequencesExt, WellFoundedInduction, TLAPS

\* A set of naturals that is not empty has a least member.
LEMMA Smallest ==
  ASSUME NEW S \in SUBSET Nat, S # {}
  PROVE  \E n \in S : \A m \in S : n <= m
<1> DEFINE R == OpToRel(<, Nat)
<1>1. IsWellFoundedOn(R, Nat)
  BY NatLessThanWellFounded
<1>2. PICK n \in S : \A m \in S : ~ (<<m, n>> \in R)
  <2> HIDE DEF R
  <2>. QED BY <1>1, WFMin
<1>3. \A m \in S : ~ (m < n)
  BY <1>2 DEF OpToRel
<1>. QED BY <1>3

\* Induction over data, from the well-ordering of the naturals: what holds of
\* 0, and of n + 1 whenever it holds of n, holds up to any bound.
LEMMA UpTo ==
  ASSUME NEW bound \in Nat, NEW H, 0 \in H,
         \A n \in 0..(bound - 1) : n \in H => n + 1 \in H
  PROVE  \A n \in 0..bound : n \in H
<1> SUFFICES ASSUME {n \in 0..bound : n \notin H} # {} PROVE FALSE
  OBVIOUS
<1>1. PICK n \in {n \in 0..bound : n \notin H} : \A m \in {m \in 0..bound : m \notin H} : n <= m
  <2> DEFINE S == {n \in 0..bound : n \notin H}
  <2>1. S \in SUBSET Nat /\ S # {}
    OBVIOUS
  <2> HIDE DEF S
  <2>2. \E n \in S : \A m \in S : n <= m
    BY <2>1, Smallest
  <2>. QED BY <2>2 DEF S
<1>2. n # 0
  BY <1>1
<1>3. n - 1 \in 0..(bound - 1) /\ n - 1 \in H
  BY <1>1, <1>2
<1>4. (n - 1) + 1 \in H
  BY <1>3
<1>. QED BY <1>1, <1>2, <1>4

\* The last of some places.
LEMMA LastPlace ==
  ASSUME NEW n \in Nat, NEW t \in SUBSET (1..n), t # {}
  PROVE  /\ Max(t) \in t /\ \A i \in t : i <= Max(t)
         /\ t \ {Max(t)} \in SUBSET (1..(Max(t) - 1))
<1> DEFINE S == {m \in Nat : \A i \in t : i <= m}
<1>1. S \in SUBSET Nat /\ n \in S
  OBVIOUS
<1>2. PICK m \in S : \A k \in S : m <= k
  <2> HIDE DEF S
  <2>. QED BY <1>1, Smallest
<1>3. m \in t
  <2> SUFFICES ASSUME m \notin t PROVE FALSE
    OBVIOUS
  <2>1. m \in Nat /\ \A i \in t : i \in 1..n /\ i <= m
    BY <1>2
  <2>2. PICK i \in t : i \in 1..n
    OBVIOUS
  <2>3. m - 1 \in Nat
    BY <2>1, <2>2
  <2>4. \A j \in t : j <= m - 1
    BY <2>1
  <2>5. m - 1 \in S
    BY <2>3, <2>4
  <2>. QED BY <1>2, <2>1, <2>5
<1>4. \E x \in t : \A y \in t : x >= y
  BY <1>2, <1>3
<1>5. Max(t) \in t /\ \A y \in t : Max(t) >= y
  BY <1>4 DEF Max
<1>6. \A x \in t : x \in 1..n
  OBVIOUS
<1> DEFINE last == Max(t)
<1>7. last \in t /\ \A y \in t : last >= y
  BY <1>5
<1> HIDE DEF last
<1>8. \A y \in t \ {last} : y \in 1..(last - 1)
  BY <1>6, <1>7
<1>. QED BY <1>6, <1>7, <1>8 DEF last

\* The places before one.
LEMMA PlacesBefore ==
  ASSUME NEW i \in Nat, i > 0
  PROVE  (1..i) \ {Max(1..i)} = 1..(i - 1) /\ Max(1..i) = i
<1>1. Max(1..i) \in 1..i /\ \A j \in 1..i : j <= Max(1..i)
  <2>1. PICK t : t = 1..i
    OBVIOUS
  <2>2. t \in SUBSET (1..i) /\ t # {}
    BY <2>1
  <2>3. Max(t) \in t /\ \A j \in t : j <= Max(t)
    BY <2>2, LastPlace
  <2>. QED BY <2>1, <2>3
<1>2. Max(1..i) = i
  BY <1>1
<1>. QED BY <1>2

\* f is the recursive function that FlattenSeq chooses, for n sequences.
FlattenedTo(seqs, f, n) ==
  f = [i \in 1..n |-> IF i = 1 THEN seqs[i] ELSE f[i - 1] \o seqs[i]]

\* That function exists, so FlattenSeq is its value at the last.
LEMMA Flattening ==
  ASSUME NEW seqs, Len(seqs) \in Nat, Len(seqs) > 0
  PROVE  \E f : FlattenedTo(seqs, f, Len(seqs)) /\ FlattenSeq(seqs) = f[Len(seqs)]
<1> DEFINE H == {n \in Nat : \E f : FlattenedTo(seqs, f, n)}
<1>1. 0 \in H
  <2> DEFINE f == [i \in {} |-> seqs]
  <2>1. f = [i \in 1..0 |-> IF i = 1 THEN seqs[i] ELSE f[i - 1] \o seqs[i]]
    OBVIOUS
  <2>2. FlattenedTo(seqs, f, 0)
    BY <2>1 DEF FlattenedTo
  <2>. QED BY <2>2
<1>2. ASSUME NEW n \in Nat, n \in H PROVE n + 1 \in H
  <2>1. PICK g : FlattenedTo(seqs, g, n)
    BY <1>2
  <2> DEFINE last == IF n = 0 THEN seqs[n + 1] ELSE g[n] \o seqs[n + 1]
             f == [i \in 1..(n + 1) |-> IF i = n + 1 THEN last ELSE g[i]]
  <2>2. \A i \in 1..n : g[i] = IF i = 1 THEN seqs[i] ELSE g[i - 1] \o seqs[i]
    BY <2>1 DEF FlattenedTo
  <2>3. ASSUME NEW i \in 1..(n + 1)
        PROVE  f[i] = IF i = 1 THEN seqs[i] ELSE f[i - 1] \o seqs[i]
    <3> HIDE DEF last
    <3>1. CASE i = n + 1
      <4>1. f[i] = last
        BY <3>1
      <4>2. n # 0 => f[n] = g[n]
        OBVIOUS
      <4>. QED BY <3>1, <4>1, <4>2 DEF last
    <3>2. CASE i # n + 1
      <4>1. i \in 1..n /\ f[i] = g[i] /\ (i # 1 => f[i - 1] = g[i - 1])
        BY <3>2
      <4>. QED BY <2>2, <4>1
    <3>. QED BY <3>1, <3>2
  <2>4. f = [i \in 1..(n + 1) |-> IF i = 1 THEN seqs[i] ELSE f[i - 1] \o seqs[i]]
    <3> HIDE DEF last
    <3>1. f = [i \in 1..(n + 1) |-> f[i]]
      OBVIOUS
    <3> HIDE DEF f
    <3>. QED BY <2>3, <3>1
  <2> HIDE DEF f
  <2>5. FlattenedTo(seqs, f, n + 1)
    BY <2>4 DEF FlattenedTo
  <2>. QED BY <2>5
<1>3. Len(seqs) \in H
  <2> DEFINE bound == Len(seqs)
  <2>1. bound \in Nat
    OBVIOUS
  <2> HIDE DEF H, bound
  <2>2. \A n \in 0..(bound - 1) : n \in H => n + 1 \in H
    BY <1>2, <2>1
  <2>3. \A n \in 0..bound : n \in H
    BY <1>1, <2>1, <2>2, UpTo
  <2>4. bound \in H
    BY <2>1, <2>3
  <2>. QED BY <2>4 DEF bound
<1>4. PICK f : f = [i \in 1..Len(seqs) |-> IF i = 1 THEN seqs[i] ELSE f[i - 1] \o seqs[i]]
  BY <1>3 DEF FlattenedTo
<1> DEFINE flatten == CHOOSE g : g = [i \in 1..Len(seqs) |->
                                       IF i = 1 THEN seqs[i] ELSE g[i - 1] \o seqs[i]]
<1>5. flatten = [i \in 1..Len(seqs) |->
                   IF i = 1 THEN seqs[i] ELSE flatten[i - 1] \o seqs[i]]
  BY <1>4
<1>6. FlattenSeq(seqs) = flatten[Len(seqs)]
  BY DEF FlattenSeq
<1>7. FlattenedTo(seqs, flatten, Len(seqs))
  BY <1>5 DEF FlattenedTo
<1>. QED BY <1>6, <1>7
=============================================================================
