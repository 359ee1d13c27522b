----------------------------- MODULE FoldProofs -----------------------------
(***************************************************************************)
(* Induction and recursion for the proofs about programs that loop over    *)
(* their data: induction is stated of a set, recursion of the function     *)
(* that a fold is, so that both can be used with any definition.           *)
(***************************************************************************)
EXTENDS Integers, FiniteSets, SequencesExt, FiniteSetTheorems, TLAPS

(* Induction: otherwise the members of the set up to a number n that is    *)
(* not one map one to one into those without 0, by adding 1.               *)
LEMMA SetInduction ==
    ASSUME NEW P, 0 \in P, \A k \in Nat : k \in P => k + 1 \in P
    PROVE  Nat \subseteq P
<1> SUFFICES ASSUME NEW n \in Nat, n \notin P  PROVE FALSE
  OBVIOUS
<1> DEFINE Q == (0..n) \cap P
           next == [k \in Q |-> k + 1]
<1>1. IsFiniteSet(Q) /\ Cardinality(Q) \in Nat
  <2>1. IsFiniteSet(0..n)
    BY FS_Interval
  <2>2. IsFiniteSet(Q)
    BY <2>1, FS_Intersection
  <2> HIDE DEF Q
  <2> QED
    BY <2>2, FS_CardinalityType
<1>2. IsFiniteSet(Q \ {0}) /\ Cardinality(Q \ {0}) < Cardinality(Q)
  <2>1. 0 \in Q
    OBVIOUS
  <2> HIDE DEF Q
  <2>2. IsFiniteSet(Q \ {0}) /\ Cardinality(Q \ {0}) = Cardinality(Q) - 1
    BY <1>1, <2>1, FS_RemoveElement
  <2> QED
    BY <1>1, <2>2
<1>3. next \in [Q -> Q \ {0}]
  OBVIOUS
<1>4. PICK x, y \in Q : x # y /\ next[x] = next[y]
  <2> HIDE DEF next, Q
  <2> QED
    BY <1>1, <1>2, <1>3, FS_PigeonHole
<1> QED
  BY <1>4

(* The fold of a step over a finite set, whose elements are taken out in   *)
(* the order that a choice function gives.                                 *)
IsFold(F, D, base, step, choice) ==
    F = [s \in SUBSET D |->
           IF s = {} THEN base ELSE step[<<F[s \ {choice[s]}], choice[s]>>]]

LEMMA FoldExists ==
    ASSUME NEW D, IsFiniteSet(D), NEW A, NEW base \in A, NEW step \in [A \X D -> A],
           NEW choice, \A s \in (SUBSET D) \ {{}} : choice[s] \in s
    PROVE  \E F \in [SUBSET D -> A] : IsFold(F, D, base, step, choice)
<1> DEFINE Val(F, s) == IF s = {} THEN base ELSE step[<<F[s \ {choice[s]}], choice[s]>>]
           UpTo(F, k) == \A s \in SUBSET D : Cardinality(s) <= k => F[s] \in A /\ F[s] = Val(F, s)
           P == {k \in Nat : \E F : UpTo(F, k)}
<1>1. \A s \in SUBSET D : IsFiniteSet(s) /\ Cardinality(s) \in Nat
  BY FS_Subset, FS_CardinalityType
<1>2. 0 \in P
  <2>1. \A s \in SUBSET D : Cardinality(s) <= 0 => s = {}
    BY <1>1, FS_EmptySet
  <2>2. UpTo([s \in SUBSET D |-> base], 0)
    BY <2>1
  <2> QED
    BY <2>2
<1>3. ASSUME NEW k \in Nat, k \in P  PROVE k + 1 \in P
  <2>1. PICK F : UpTo(F, k)
    BY <1>3
  <2> DEFINE G == [s \in SUBSET D |-> Val(F, s)]
  <2>2. ASSUME NEW s \in SUBSET D, Cardinality(s) <= k + 1  PROVE G[s] \in A /\ G[s] = Val(G, s)
    <3>1. CASE s = {}
      BY <3>1
    <3>2. CASE s # {}
      <4> DEFINE r == s \ {choice[s]}
      <4>1. choice[s] \in s /\ r \in SUBSET D
        BY <3>2
      <4>2. Cardinality(r) <= k
        BY <1>1, <2>2, <4>1, FS_RemoveElement
      <4>3. F[r] \in A /\ F[r] = Val(F, r)
        BY <2>1, <4>1, <4>2
      <4>4. G[r] = Val(F, r)
        BY <4>1
      <4>5. G[s] = step[<<F[r], choice[s]>>] /\ Val(G, s) = step[<<G[r], choice[s]>>]
        BY <3>2
      <4> QED
        BY <4>1, <4>3, <4>4, <4>5
    <3> QED
      BY <3>1, <3>2
  <2>3. UpTo(G, k + 1)
    BY <2>2
  <2> HIDE DEF G, UpTo
  <2> QED
    BY <2>3
<1>4. Cardinality(D) \in P
  <2>1. Nat \subseteq P
    <3> HIDE DEF P
    <3> QED
      BY <1>2, <1>3, SetInduction
  <2> QED
    BY <1>1, <2>1
<1>5. PICK F : UpTo(F, Cardinality(D))
  BY <1>4
<1> DEFINE G == [s \in SUBSET D |-> F[s]]
<1>6. ASSUME NEW s \in SUBSET D  PROVE F[s] \in A /\ F[s] = Val(F, s)
  BY <1>5, <1>6, FS_Subset
<1>7. ASSUME NEW s \in SUBSET D  PROVE Val(G, s) = Val(F, s)
  OBVIOUS
<1>8. G \in [SUBSET D -> A] /\ G = [s \in SUBSET D |-> Val(G, s)]
  BY <1>6, <1>7
<1> QED
  BY <1>8 DEF IsFold

LEMMA MaxIsIn ==
    ASSUME NEW n \in Nat, NEW S \in (SUBSET (0..n)) \ {{}}
    PROVE  Max(S) \in S /\ \A y \in S : Max(S) >= y
<1> DEFINE P == {k \in Nat : \A T \in (SUBSET (0..k)) \ {{}} : \E x \in T : \A y \in T : x >= y}
<1>1. 0 \in P
  <2>1. ASSUME NEW T \in (SUBSET (0..0)) \ {{}}  PROVE \E x \in T : \A y \in T : x >= y
    <3>1. PICK x \in T : TRUE
      OBVIOUS
    <3>2. x \in Int /\ \A y \in T : y = x
      OBVIOUS
    <3> QED
      BY <3>2
  <2> QED
    BY <2>1
<1>2. ASSUME NEW k \in Nat, k \in P  PROVE k + 1 \in P
  <2> SUFFICES ASSUME NEW T \in (SUBSET (0..(k + 1))) \ {{}}
               PROVE  \E x \in T : \A y \in T : x >= y
    OBVIOUS
  <2>1. CASE k + 1 \in T
    BY <2>1
  <2>2. CASE k + 1 \notin T
    <3>1. T \in (SUBSET (0..k)) \ {{}}
      BY <2>2
    <3> QED
      BY <1>2, <3>1
  <2> QED
    BY <2>1, <2>2
<1>3. n \in P
  <2> HIDE DEF P
  <2> QED
    BY <1>1, <1>2, SetInduction
<1>4. \E x \in S : \A y \in S : x >= y
  BY <1>3
<1> QED
  BY <1>4 DEF Max

LEMMA FirstExists ==
    ASSUME NEW n \in Nat, NEW S \in (SUBSET (0..n)) \ {{}}
    PROVE  \E x \in S : \A y \in S : x <= y
<1> DEFINE T == {n - y : y \in S}
<1>1. T \in (SUBSET (0..n)) \ {{}}
  OBVIOUS
<1>2. PICK x \in S : Max(T) = n - x
  <2>1. Max(T) \in T
    <3> HIDE DEF T
    <3> QED
      BY <1>1, MaxIsIn
  <2> QED
    BY <2>1
<1>3. ASSUME NEW y \in S  PROVE x <= y
  <2>1. n - y \in T
    OBVIOUS
  <2>2. Max(T) >= n - y
    <3> HIDE DEF T
    <3> QED
      BY <1>1, <2>1, MaxIsIn
  <2> QED
    BY <1>2, <2>2
<1> QED
  BY <1>3

(* A fold over a sequence, as FoldLeft defines it: the last element is     *)
(* taken out first.  Whatever is one, if its steps are those of step where *)
(* that is defined, goes through the elements one by one.                  *)
IsSeqFold(F, D, base, step) ==
    F = [s \in SUBSET D |-> IF s = {} THEN base ELSE step[<<F[s \ {Max(s)}], Max(s)>>]]

FoldsWith(F, D, base, step, A) ==
    /\ F[{}] = base
    /\ \A s \in (SUBSET D) \ {{}} :
         F[s \ {Max(s)}] \in A => F[s] = step[<<F[s \ {Max(s)}], Max(s)>>]

IsRun(st, n, base, step) ==
    st[0] = base /\ \A k \in 1..n : st[k] = step[<<st[k - 1], k>>]

RunsTo(last, n, base, step, A) ==
    \E st \in [0..n -> A] : IsRun(st, n, base, step) /\ st[n] = last

LEMMA LastIn ==
    ASSUME NEW n \in Nat, NEW s \in (SUBSET (1..n)) \ {{}}
    PROVE  Max(s) \in s /\ Max(s) \in 1..n
<1>1. s \in (SUBSET (0..n)) \ {{}}
  OBVIOUS
<1> QED
  BY <1>1, MaxIsIn

LEMMA SeqFoldExists ==
    ASSUME NEW n \in Nat, NEW A, NEW base \in A, NEW step \in [A \X (1..n) -> A]
    PROVE  \E F \in [SUBSET (1..n) -> A] : IsSeqFold(F, 1..n, base, step)
<1> DEFINE D == 1..n
           choice == [s \in SUBSET D |-> Max(s)]
<1>1. IsFiniteSet(D) /\ step \in [A \X D -> A]
  BY FS_Interval
<1>2. \A s \in (SUBSET D) \ {{}} : choice[s] \in s
  BY LastIn
<1> HIDE DEF D, choice
<1>3. PICK F \in [SUBSET D -> A] : IsFold(F, D, base, step, choice)
  BY <1>1, <1>2, FoldExists
<1>4. \A s \in SUBSET D : choice[s] = Max(s)
  BY DEF choice
<1>5. F = [s \in SUBSET D |->
            IF s = {} THEN base ELSE step[<<F[s \ {choice[s]}], choice[s]>>]]
  BY <1>3 DEF IsFold
<1>6. IsSeqFold(F, D, base, step)
  BY <1>4, <1>5 DEF IsSeqFold
<1> QED
  BY <1>3, <1>6 DEF D

LEMMA SeqFoldRuns ==
    ASSUME NEW n \in Nat, NEW A, NEW base \in A, NEW step \in [A \X (1..n) -> A],
           NEW F, FoldsWith(F, 1..n, base, step, A)
    PROVE  RunsTo(F[1..n], n, base, step, A)
<1> DEFINE st == [k \in 0..n |-> F[1..k]]
           P == {k \in Nat : k <= n => st[k] \in A}
<1>1. F[{}] = base /\ 1..0 = {}
  BY DEF FoldsWith
<1>2. ASSUME NEW k \in 1..n, F[1..(k - 1)] \in A  PROVE F[1..k] = step[<<F[1..(k - 1)], k>>]
  <2>1. 1..k \in SUBSET (1..n) /\ 1..k # {}
    OBVIOUS
  <2>2. Max(1..k) = k
    <3>1. 1..k \subseteq 0..n /\ k \in 1..k
      OBVIOUS
    <3>2. Max(1..k) \in 1..k /\ Max(1..k) >= k
      BY <3>1, MaxIsIn
    <3> QED
      BY <3>2
  <2>3. (1..k) \ {k} = 1..(k - 1)
    OBVIOUS
  <2> QED
    BY <1>2, <2>1, <2>2, <2>3 DEF FoldsWith
<1>3. /\ st[0] = base
      /\ \A k \in 1..n : st[k - 1] \in A => st[k] = step[<<st[k - 1], k>>]
  BY <1>1, <1>2
<1> HIDE DEF st
<1>4. 0 \in P
  BY <1>3
<1>5. ASSUME NEW k \in Nat, k \in P  PROVE k + 1 \in P
  <2> SUFFICES ASSUME k + 1 <= n  PROVE st[k + 1] \in A
    OBVIOUS
  <2>1. st[k] \in A /\ k + 1 \in 1..n /\ (k + 1) - 1 = k
    BY <1>5
  <2>2. st[k + 1] = step[<<st[k], k + 1>>]
    BY <1>3, <2>1
  <2> QED
    BY <2>1, <2>2
<1>6. Nat \subseteq P
  <2> HIDE DEF P
  <2> QED
    BY <1>4, <1>5, SetInduction
<1>7. \A k \in 0..n : st[k] \in A
  <2> TAKE k \in 0..n
  <2> QED
    BY <1>6
<1>8. st \in [0..n -> A] /\ st[n] = F[1..n]
  BY <1>7 DEF st
<1> QED
  BY <1>3, <1>7, <1>8 DEF IsRun, RunsTo
=============================================================================
