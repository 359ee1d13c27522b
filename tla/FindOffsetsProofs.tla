------------------------- MODULE FindOffsetsProofs --------------------------
(***************************************************************************)
(* Proofs about FindOffsets, for any requests and layouts, any thresholds  *)
(* and captures of any length.                                             *)
(***************************************************************************)
EXTENDS FindOffsets, FoldProofs

Votes == [Req -> [Offset -> Nat]]
Varying == {"handle", "counter", "high"}

(* Counting offsets adds one to each of them and leaves the others alone.  *)
Counted(cnt, new, r, S) ==
    /\ new \in Votes
    /\ \A q \in Req : \A o \in Offset :
         new[q][o] = IF q = r /\ o \in S THEN cnt[q][o] + 1 ELSE cnt[q][o]

LEMMA CountVotes ==
    ASSUME NEW cnt \in Votes, NEW r \in Req, NEW S
    PROVE  Counted(cnt, Count(cnt, r, S), r, S)
PROOF
<1> DEFINE row == [o \in Offset |-> cnt[r][o] + IF o \in S THEN 1 ELSE 0]
<1>1. row \in [Offset -> Nat]
  BY DEF Votes
<1>2. Count(cnt, r, S) = [cnt EXCEPT ![r] = row]
  BY DEF Count
<1> QED
  BY <1>1, <1>2 DEF Votes, Counted

(* The order of the loop: a finite set of numbers has an ascending         *)
(* sequence.                                                               *)
LEMMA FiniteMax ==
    ASSUME NEW S \in SUBSET Nat, IsFiniteSet(S), S # {}
    PROVE  \E m \in S : \A x \in S : x <= m
<1> DEFINE P == {k \in Nat : \A T \in SUBSET Nat :
                   IsFiniteSet(T) /\ Cardinality(T) = k /\ T # {}
                     => \E m \in T : \A x \in T : x <= m}
<1>1. 0 \in P
  <2>1. \A T \in SUBSET Nat : IsFiniteSet(T) /\ Cardinality(T) = 0 => T = {}
    BY FS_EmptySet
  <2> QED
    BY <2>1
<1>2. ASSUME NEW k \in Nat, k \in P  PROVE k + 1 \in P
  <2> SUFFICES ASSUME NEW T \in SUBSET Nat, IsFiniteSet(T), Cardinality(T) = k + 1, T # {}
               PROVE  \E m \in T : \A x \in T : x <= m
    OBVIOUS
  <2>1. PICK x \in T : TRUE
    OBVIOUS
  <2>2. IsFiniteSet(T \ {x}) /\ Cardinality(T \ {x}) = k /\ T \ {x} \in SUBSET Nat
    <3>1. IsFiniteSet(T \ {x}) /\ Cardinality(T \ {x}) = Cardinality(T) - 1
      BY <2>1, FS_RemoveElement
    <3> QED
      BY <3>1
  <2>3. CASE T \ {x} = {}
    <3>1. \A y \in T : y <= x
      BY <2>3
    <3> QED
      BY <2>1, <3>1
  <2>4. CASE T \ {x} # {}
    <3>1. PICK m \in T \ {x} : \A y \in T \ {x} : y <= m
      BY <1>2, <2>2, <2>4
    <3>2. CASE x <= m
      BY <3>1, <3>2
    <3>3. CASE m <= x
      <4>1. \A y \in T : y <= x
        BY <3>1, <3>3
      <4> QED
        BY <4>1
    <3> QED
      BY <3>2, <3>3
  <2> QED
    BY <2>3, <2>4
<1>3. Nat \subseteq P
  <2> HIDE DEF P
  <2> QED
    BY <1>1, <1>2, SetInduction
<1>4. Cardinality(S) \in P
  <2>1. Cardinality(S) \in Nat
    BY FS_CardinalityType
  <2> HIDE DEF P
  <2> QED
    BY <1>3, <2>1
<1> QED
  BY <1>4

IsAscending(s, S) ==
    /\ s \in [1..Cardinality(S) -> S]
    /\ \A i, j \in DOMAIN s : i < j => s[i] < s[j]

LEMMA AscendingExists ==
    ASSUME NEW S \in SUBSET Nat, IsFiniteSet(S)
    PROVE  \E s : IsAscending(s, S)
<1> DEFINE P == {k \in Nat : \A T \in SUBSET Nat :
                   IsFiniteSet(T) /\ Cardinality(T) = k => \E s : IsAscending(s, T)}
<1>1. 0 \in P
  <2> SUFFICES ASSUME NEW T \in SUBSET Nat, IsFiniteSet(T), Cardinality(T) = 0
               PROVE  \E s : IsAscending(s, T)
    OBVIOUS
  <2>1. IsAscending([i \in 1..0 |-> 0], T)
    BY DEF IsAscending
  <2> QED
    BY <2>1
<1>2. ASSUME NEW k \in Nat, k \in P  PROVE k + 1 \in P
  <2> SUFFICES ASSUME NEW T \in SUBSET Nat, IsFiniteSet(T), Cardinality(T) = k + 1
               PROVE  \E s : IsAscending(s, T)
    OBVIOUS
  <2>1. T # {}
    BY FS_EmptySet
  <2>2. PICK m \in T : \A x \in T : x <= m
    BY <2>1, FiniteMax
  <2> DEFINE R == T \ {m}
  <2>3. R \in SUBSET Nat /\ IsFiniteSet(R) /\ Cardinality(R) = k
    <3>1. IsFiniteSet(T \ {m}) /\ Cardinality(T \ {m}) = Cardinality(T) - 1
      BY <2>2, FS_RemoveElement
    <3> QED
      BY <3>1
  <2>4. \A x \in R : x \in T /\ x < m
    BY <2>2
  <2> HIDE DEF R
  <2>5. PICK s : IsAscending(s, R)
    BY <1>2, <2>3
  <2>6. s \in [1..k -> R] /\ \A i, j \in 1..k : i < j => s[i] < s[j]
    BY <2>3, <2>5 DEF IsAscending
  <2> DEFINE t == [i \in 1..(k + 1) |-> IF i = k + 1 THEN m ELSE s[i]]
  <2>7. \A i \in 1..k : s[i] \in T /\ s[i] < m
    BY <2>4, <2>6
  <2>8. t \in [1..(k + 1) -> T]
    BY <2>7
  <2>9. ASSUME NEW i \in 1..(k + 1), NEW j \in 1..(k + 1), i < j  PROVE t[i] < t[j]
    <3>1. i \in 1..k /\ t[i] = s[i]
      BY <2>9
    <3>2. CASE j = k + 1
      BY <2>7, <3>1, <3>2
    <3>3. CASE j # k + 1
      BY <2>6, <2>9, <3>1, <3>3
    <3> QED
      BY <3>2, <3>3
  <2> HIDE DEF t
  <2>10. IsAscending(t, T)
    BY <2>8, <2>9 DEF IsAscending
  <2> QED
    BY <2>10
<1>3. Nat \subseteq P
  <2> HIDE DEF P
  <2> QED
    BY <1>1, <1>2, SetInduction
<1>4. Cardinality(S) \in P
  <2>1. Cardinality(S) \in Nat
    BY FS_CardinalityType
  <2> HIDE DEF P
  <2> QED
    BY <1>3, <2>1
<1> QED
  BY <1>4

(* It has each member once, in order.                                      *)
LEMMA AscendingIsAll ==
    ASSUME NEW S \in SUBSET Nat, IsFiniteSet(S)
    PROVE  /\ Ascending(S) \in Seq(S) /\ ToSet(Ascending(S)) = S
           /\ \A i, j \in DOMAIN Ascending(S) : i < j => Ascending(S)[i] < Ascending(S)[j]
           /\ \A i, j \in DOMAIN Ascending(S) : i # j => Ascending(S)[i] # Ascending(S)[j]
<1> DEFINE s == Ascending(S)
           n == Cardinality(S)
<1>1. IsAscending(s, S)
  <2>1. Ascending(S) = CHOOSE a \in [1..Cardinality(S) -> S] :
                         \A i, j \in DOMAIN a : i < j => a[i] < a[j]
    BY DEF Ascending
  <2> QED
    BY <2>1, AscendingExists DEF IsAscending
<1>2. n \in Nat
  BY FS_CardinalityType
<1> HIDE DEF s
<1>3. s \in [1..n -> S] /\ \A i, j \in 1..n : i < j => s[i] < s[j]
  BY <1>1 DEF IsAscending
<1> HIDE DEF n
<1>4. \A i \in 1..n : s[i] \in Nat
  BY <1>3
<1>5. \A i, j \in 1..n : i # j => s[i] # s[j]
  <2> TAKE i, j \in 1..n
  <2> HAVE i # j
  <2>1. CASE i < j
    BY <1>2, <1>3, <1>4, <2>1
  <2>2. CASE j < i
    BY <1>2, <1>3, <1>4, <2>2
  <2> QED
    BY <1>2, <2>1, <2>2
<1>6. s \in Injection(1..n, S)
  BY <1>3, <1>5 DEF Injection, IsInjective
<1>7. IsFiniteSet(1..n) /\ Cardinality(1..n) = n
  BY <1>2, FS_Interval
<1>8. s \in Surjection(1..n, S)
  <2>1. Cardinality(1..n) = Cardinality(S)
    BY <1>7 DEF n
  <2> HIDE DEF n
  <2> QED
    BY <1>6, <1>7, <2>1, FS_Injection
<1>9. ToSet(s) = S
  BY <1>3, <1>8 DEF ToSet, Surjection
<1>10. s \in Seq(S) /\ DOMAIN s = 1..n
  BY <1>2, <1>3
<1> QED
  BY <1>3, <1>5, <1>9, <1>10 DEF s

(* The offset that is kept when the loop over the dict comes to another.   *)
Better(r, best, o) ==
    IF /\ OftenWritten(r, o)
       /\ best = None \/ zero_to_nonzero[r][o] > zero_to_nonzero[r][best]
    THEN o ELSE best

(* output_handle_offset goes through the dict one by one.                  *)
LEMMA OutputRun ==
    ASSUME NEW r \in Req, order[r] \in Seq(Offset)
    PROVE  \E st \in [0..Len(order[r]) -> Offset \cup {None}] :
             /\ st[0] = None
             /\ \A k \in 1..Len(order[r]) : st[k] = Better(r, st[k - 1], order[r][k])
             /\ output_handle_offset(r) = st[Len(order[r])]
<1> DEFINE seq == order[r]
           n == Len(seq)
           D == 1..n
           A == Offset \cup {None}
           step == [p \in A \X D |-> Better(r, p[1], seq[p[2]])]
           Iter(F) == F = [s \in SUBSET (DOMAIN seq) |->
                             IF s = {} THEN None
                             ELSE Better(r, F[s \ {Max(s)}], seq[Max(s)])]
<1>1. n \in Nat /\ DOMAIN seq = D /\ None \in A
  OBVIOUS
<1>2. \A k \in D : seq[k] \in Offset
  OBVIOUS
<1>3. step \in [A \X D -> A]
  BY <1>2 DEF Better
<1>4. \A s \in (SUBSET D) \ {{}} : Max(s) \in D
  BY <1>1, LastIn
<1>5. ASSUME NEW b \in A, NEW k \in D
      PROVE  step[<<b, k>>] = Better(r, b, seq[k])
  OBVIOUS
<1>8a. output_handle_offset(r) = (CHOOSE iter : Iter(iter))[DOMAIN seq]
  BY DEF output_handle_offset, FoldLeft, MapThenFoldSet, Better
<1> HIDE DEF step, A
<1>6. \E F : Iter(F)
  <2>1. PICK F \in [SUBSET D -> A] : IsSeqFold(F, D, None, step)
    BY <1>1, <1>3, SeqFoldExists
  <2>2. \A s \in (SUBSET D) \ {{}} :
          step[<<F[s \ {Max(s)}], Max(s)>>] = Better(r, F[s \ {Max(s)}], seq[Max(s)])
    BY <1>4, <1>5, <2>1
  <2>3. Iter(F)
    BY <1>1, <2>1, <2>2 DEF IsSeqFold
  <2> QED
    BY <2>3
<1> DEFINE G == CHOOSE iter : Iter(iter)
<1>7. Iter(G)
  BY <1>6
<1>8. output_handle_offset(r) = G[D]
  BY <1>1, <1>8a
<1>9. FoldsWith(G, D, None, step, A)
  <2> HIDE DEF G
  <2>1. G = [s \in SUBSET D |->
              IF s = {} THEN None ELSE Better(r, G[s \ {Max(s)}], seq[Max(s)])]
    BY <1>1, <1>7
  <2> QED
    BY <1>4, <1>5, <2>1 DEF FoldsWith
<1>10. PICK st \in [0..n -> A] : IsRun(st, n, None, step) /\ st[n] = G[D]
  <2> HIDE DEF G, n
  <2>1. RunsTo(G[D], n, None, step, A)
    BY <1>1, <1>3, <1>9, SeqFoldRuns
  <2> QED
    BY <2>1 DEF RunsTo
<1>11. ASSUME NEW k \in 1..n  PROVE st[k] = Better(r, st[k - 1], seq[k])
  <2>1. st[k - 1] \in A /\ k \in D
    BY <1>1
  <2> QED
    BY <1>5, <1>10, <2>1 DEF IsRun
<1>12. st[0] = None /\ output_handle_offset(r) = st[n]
  BY <1>8, <1>10 DEF IsRun
<1> QED
  BY <1>11, <1>12 DEF A

(* What it comes to is None, if no offset of the dict is written in half   *)
(* of its records, and otherwise the first with the highest score of       *)
(* those.                                                                  *)
LEMMA OutputIsBest ==
    ASSUME NEW r \in Req, order[r] \in Seq(Offset),
           zero_to_nonzero[r] \in [Offset -> Nat],
           NEW j \in DOMAIN order[r], OftenWritten(r, order[r][j])
    PROVE  /\ \E m \in DOMAIN order[r] :
                /\ order[r][m] = output_handle_offset(r)
                /\ \A i \in 1..(m - 1) : OftenWritten(r, order[r][i]) =>
                      zero_to_nonzero[r][order[r][i]] < zero_to_nonzero[r][order[r][m]]
           /\ zero_to_nonzero[r][order[r][j]] <= zero_to_nonzero[r][output_handle_offset(r)]
<1> DEFINE seq == order[r]
           n == Len(seq)
           score == zero_to_nonzero[r]
<1>1. PICK st \in [0..n -> Offset \cup {None}] :
        /\ st[0] = None
        /\ \A k \in 1..n : st[k] = Better(r, st[k - 1], seq[k])
        /\ output_handle_offset(r) = st[n]
  BY OutputRun
<1>2. n \in Nat /\ DOMAIN seq = 1..n /\ \A k \in 1..n : seq[k] \in Offset
  OBVIOUS
<1>3. None \notin Offset /\ \A o \in Offset : score[o] \in Nat
  BY NumberAssumption
<1> DEFINE First(m) == \A i \in 1..(m - 1) :
                          OftenWritten(r, seq[i]) => score[seq[i]] < score[seq[m]]
           Best(k) ==
             /\ st[k] # None => \E m \in 1..k : st[k] = seq[m] /\ First(m)
             /\ \A i \in 1..k : OftenWritten(r, seq[i]) =>
                                  st[k] # None /\ score[seq[i]] <= score[st[k]]
           P == {k \in Nat : k <= n => Best(k)}
<1> HIDE DEF seq, n, score
<1>4. 0 \in P
  BY <1>1
<1>5. ASSUME NEW k \in Nat, k \in P  PROVE k + 1 \in P
  <2> SUFFICES ASSUME k + 1 <= n  PROVE Best(k + 1)
    <3> HIDE DEF Best
    <3> QED
      OBVIOUS
  <2>1. Best(k) /\ k \in 0..n /\ k + 1 \in 1..n /\ (k + 1) - 1 = k
    <3> HIDE DEF Best
    <3>1. k \in 0..n /\ k + 1 \in 1..n /\ (k + 1) - 1 = k
      BY <1>2
    <3>2. k \in P /\ k <= n
      BY <1>5, <3>1
    <3> QED
      BY <3>1, <3>2
  <2>2. st[k + 1] = Better(r, st[k], seq[k + 1]) /\ st[k] \in Offset \cup {None}
    BY <1>1, <2>1
  <2>3. seq[k + 1] \in Offset
    BY <1>2, <2>1
  <2>4. \A i \in 1..(k + 1) : i = k + 1 \/ i \in 1..k
    OBVIOUS
  <2>5. \A i \in 1..k : i \in 1..(k + 1) /\ score[seq[i]] \in Nat
    BY <1>2, <1>3, <2>1
  <2>6. CASE st[k + 1] = seq[k + 1] /\ (st[k] = None \/ score[seq[k + 1]] > score[st[k]])
    <3>1. \A i \in 1..k : OftenWritten(r, seq[i]) => score[seq[i]] <= score[seq[k + 1]]
      <4> TAKE i \in 1..k
      <4> HAVE OftenWritten(r, seq[i])
      <4>1. st[k] # None /\ score[seq[i]] <= score[st[k]]
        BY <2>1
      <4>2. score[st[k]] \in Nat /\ score[seq[k + 1]] \in Nat /\ score[seq[i]] \in Nat
        BY <1>3, <2>2, <2>3, <2>5, <4>1
      <4> QED
        BY <2>6, <4>1, <4>2
    <3>2. seq[k + 1] # None /\ score[seq[k + 1]] \in Nat
      BY <1>3, <2>3
    <3>3. First(k + 1)
      <4> SUFFICES ASSUME NEW i \in 1..k, OftenWritten(r, seq[i])
                   PROVE  score[seq[i]] < score[seq[k + 1]]
        BY <2>1
      <4>1. st[k] # None /\ score[seq[i]] <= score[st[k]]
        BY <2>1
      <4>2. score[st[k]] \in Nat /\ score[seq[i]] \in Nat
        BY <1>3, <2>2, <2>5, <4>1
      <4> QED
        BY <2>6, <3>2, <4>1, <4>2
    <3>4. \E m \in 1..(k + 1) : st[k + 1] = seq[m] /\ First(m)
      <4> HIDE DEF First
      <4> QED
        BY <2>6, <3>3
    <3>5. \A i \in 1..(k + 1) : OftenWritten(r, seq[i]) =>
             st[k + 1] # None /\ score[seq[i]] <= score[st[k + 1]]
      BY <2>4, <2>6, <3>1, <3>2
    <3> QED
      BY <3>4, <3>5
  <2>7. CASE /\ st[k + 1] = st[k]
             /\ OftenWritten(r, seq[k + 1]) =>
                  st[k] # None /\ ~(score[seq[k + 1]] > score[st[k]])
    <3>1. OftenWritten(r, seq[k + 1]) =>
            st[k] # None /\ score[seq[k + 1]] <= score[st[k]]
      <4>1. st[k] # None => score[st[k]] \in Nat /\ score[seq[k + 1]] \in Nat
        BY <1>3, <2>2, <2>3
      <4> QED
        BY <2>7, <4>1
    <3>2. st[k + 1] # None => \E m \in 1..(k + 1) : st[k + 1] = seq[m] /\ First(m)
      <4> HIDE DEF First
      <4> QED
        BY <2>1, <2>5, <2>7
    <3>3. \A i \in 1..(k + 1) : OftenWritten(r, seq[i]) =>
             st[k + 1] # None /\ score[seq[i]] <= score[st[k + 1]]
      BY <2>1, <2>4, <2>7, <3>1
    <3> QED
      BY <3>2, <3>3
  <2> QED
    BY <2>2, <2>6, <2>7 DEF Better, score
<1>6. Best(n)
  <2>1. Nat \subseteq P
    <3> HIDE DEF P
    <3> QED
      BY <1>4, <1>5, SetInduction
  <2>2. n \in P
    <3> HIDE DEF P
    <3> QED
      BY <1>2, <2>1
  <2>3. n <= n
    BY <1>2
  <2> HIDE DEF Best
  <2> QED
    BY <2>2, <2>3
<1>7. st[n] # None /\ score[seq[j]] <= score[st[n]]
  BY <1>2, <1>6 DEF seq
<1>8. PICK m \in DOMAIN seq : st[n] = seq[m] /\ First(m)
  <2> HIDE DEF First
  <2> QED
    BY <1>2, <1>6, <1>7
<1> QED
  BY <1>1, <1>7, <1>8 DEF seq, score

(* A sequence that repeats nothing is as long as its elements are many.    *)
Distinct(s) == \A i, j \in DOMAIN s : i # j => s[i] # s[j]

LEMMA DistinctLength ==
    ASSUME NEW T, NEW s \in Seq(T), Distinct(s)
    PROVE  Len(s) = Cardinality(ToSet(s))
<1> DEFINE n == Len(s)
           S == ToSet(s)
<1>1. n \in Nat /\ DOMAIN s = 1..n /\ s = [i \in 1..n |-> s[i]]
  OBVIOUS
<1>2. s \in [1..n -> S] /\ \A v \in S : \E i \in 1..n : s[i] = v
  BY <1>1 DEF ToSet
<1>3. s \in Surjection(1..n, S)
  BY <1>2 DEF Surjection
<1>4. s \in Injection(1..n, S)
  BY <1>1, <1>2 DEF Injection, IsInjective, Distinct
<1> HIDE DEF n, S
<1>5. IsFiniteSet(1..n) /\ Cardinality(1..n) = n
  <2>1. n \in Nat
    BY <1>1
  <2> QED
    BY <2>1, FS_Interval
<1>6. IsFiniteSet(S)
  BY <1>3, <1>5, FS_Surjection
<1>7. Cardinality(1..n) = Cardinality(S)
  BY <1>3, <1>4, <1>6, FS_Injection
<1> QED
  BY <1>5, <1>7 DEF n, S

(* Elements that are not yet in a sequence are appended without repeating. *)
LEMMA DistinctAppend ==
    ASSUME NEW T, NEW s \in Seq(T), NEW t \in Seq(T), Distinct(s), Distinct(t),
           ToSet(s) \cap ToSet(t) = {}
    PROVE  s \o t \in Seq(T) /\ Distinct(s \o t) /\ ToSet(s \o t) = ToSet(s) \cup ToSet(t)
<1> DEFINE m == Len(s)
           n == Len(t)
           u == s \o t
<1>1. m \in Nat /\ n \in Nat /\ DOMAIN s = 1..m /\ DOMAIN t = 1..n
  OBVIOUS
<1>2. /\ u \in Seq(T) /\ DOMAIN u = 1..(m + n)
      /\ \A i \in 1..m : i \in 1..(m + n) /\ u[i] = s[i]
      /\ \A i \in 1..n : m + i \in 1..(m + n) /\ u[m + i] = t[i]
  OBVIOUS
<1>3. \A i \in 1..(m + n) : i \in 1..m \/ (i - m \in 1..n /\ i = m + (i - m))
  BY <1>1
<1> HIDE DEF u, m, n
<1>4. ToSet(u) = ToSet(s) \cup ToSet(t)
  <2>1. \A i \in 1..(m + n) : u[i] \in ToSet(s) \cup ToSet(t)
    <3> TAKE i \in 1..(m + n)
    <3>1. CASE i \in 1..m
      BY <1>1, <1>2, <3>1 DEF ToSet
    <3>2. CASE i - m \in 1..n /\ i = m + (i - m)
      <4>1. u[i] = t[i - m]
        BY <1>2, <3>2
      <4> QED
        BY <1>1, <3>2, <4>1 DEF ToSet
    <3> QED
      BY <1>3, <3>1, <3>2
  <2>2. \A i \in 1..m : s[i] \in ToSet(u)
    BY <1>2 DEF ToSet
  <2>3. \A i \in 1..n : t[i] \in ToSet(u)
    BY <1>2 DEF ToSet
  <2>4. ToSet(s) = {s[i] : i \in 1..m} /\ ToSet(t) = {t[i] : i \in 1..n}
    BY <1>1 DEF ToSet
  <2>5. ToSet(u) = {u[i] : i \in 1..(m + n)}
    BY <1>2 DEF ToSet
  <2>6. ToSet(u) \subseteq ToSet(s) \cup ToSet(t)
    BY <2>1, <2>5
  <2>7. ToSet(s) \subseteq ToSet(u) /\ ToSet(t) \subseteq ToSet(u)
    BY <2>2, <2>3, <2>4
  <2> QED
    BY <2>6, <2>7
<1>5. \A i \in 1..m : \A j \in 1..n : s[i] # t[j]
  BY <1>1 DEF ToSet
<1>6. Distinct(u)
  <2> SUFFICES ASSUME NEW i \in 1..(m + n), NEW j \in 1..(m + n), i # j  PROVE u[i] # u[j]
    BY <1>2 DEF Distinct
  <2>1. CASE i \in 1..m /\ j \in 1..m
    BY <1>1, <1>2, <2>1 DEF Distinct
  <2>2. CASE i \in 1..m /\ j - m \in 1..n /\ j = m + (j - m)
    <3>1. u[j] = t[j - m]
      BY <1>2, <2>2
    <3> QED
      BY <1>2, <1>5, <2>2, <3>1
  <2>3. CASE j \in 1..m /\ i - m \in 1..n /\ i = m + (i - m)
    <3>1. u[i] = t[i - m]
      BY <1>2, <2>3
    <3> QED
      BY <1>2, <1>5, <2>3, <3>1
  <2>4. CASE i - m \in 1..n /\ i = m + (i - m) /\ j - m \in 1..n /\ j = m + (j - m)
    <3>1. u[i] = t[i - m] /\ u[j] = t[j - m] /\ i - m # j - m
      BY <1>1, <1>2, <2>4
    <3> QED
      BY <1>1, <2>4, <3>1 DEF Distinct
  <2> QED
    BY <1>3, <2>1, <2>2, <2>3, <2>4
<1> QED
  BY <1>2, <1>4, <1>6 DEF u

(* Of the words of one call, only those that vary or mislead can be        *)
(* candidates, a handle that can be told is one, and only a result or a    *)
(* status is written where it was zero.                                    *)
LEMMA CandidatesVary ==
    ASSUME NEW r \in Req, NEW w \in SameCall[r], NEW o \in DOMAIN w
    PROVE  /\ Candidate(w, o) => KindAt(r, o) \in Varying \/ o \in Misleading(r, w)
           /\ o \in Tellable(r, w) => Candidate(w, o)
           /\ w[o].a = 0 /\ w[o].after # 0 => KindAt(r, o) \in {"result", "status"}
PROOF
<1> DEFINE k == Layout[r][o]
<1>1. /\ DOMAIN w = DOMAIN Layout[r]
      /\ \A p \in DOMAIN w : w[p] \in WordsOf[Layout[r][p]]
      /\ \A p \in DOMAIN w :
           Layout[r][p] = "low" => (w[p].a = 0 <=> w[p + 4].a = 0)
  BY DEF SameCall
<1>2. /\ k \in Kind /\ KindAt(r, o) = k
      /\ k = "low" => o + 4 \in DOMAIN w /\ Layout[r][o + 4] = "high"
  BY <1>1, LayoutAssumption DEF KindAt
<1>3. Kind = {"constant", "length", "handle", "counter", "result", "status", "low", "high"}
  BY DEF Kind, WordsOf
<1>4. ASSUME NEW p \in DOMAIN w PROVE w[p].b \in PtrHigh => w[p].a \in PtrHigh
  <2>1. w[p] \in WordsOf[Layout[r][p]] /\ Layout[r][p] \in Kind
    BY <1>1, LayoutAssumption
  <2> QED
    BY <2>1, <1>3 DEF WordsOf, Same, Differ, Written, PtrHigh
<1>5. w[o] \in WordsOf[k]
  BY <1>1
<1>6. Candidate(w, o) => k \in Varying \/ o \in Misleading(r, w)
  <2>1. SUFFICES ASSUME Candidate(w, o), k \notin Varying, o \notin Misleading(r, w)
                 PROVE  FALSE
    OBVIOUS
  <2>2. CASE k \in {"constant", "length"}
    BY <2>1, <2>2, <1>5 DEF WordsOf, Same, Candidate
  <2>3. CASE k \in {"result", "status"}
    BY <2>1, <2>3, <1>5 DEF WordsOf, Same, Written, Candidate
  <2>4. CASE k = "low"
    <3>1. o + 4 \in DOMAIN w
      BY <2>4, <1>2
    <3>2. w[o + 4].a \in PtrHigh
      BY <2>1, <2>4 DEF Candidate, Misleading
    <3> QED
      BY <2>1, <3>1, <3>2 DEF Candidate, is_ptr_lower_half
  <2> QED
    BY <2>1, <2>2, <2>3, <2>4, <1>2, <1>3 DEF Varying
<1>7. ASSUME o \in Tellable(r, w)
      PROVE  Candidate(w, o)
  <2>0. /\ k = "handle" /\ w[o].a # w[o].b
        /\ ~(o + 4 \in DOMAIN w /\ w[o + 4].a \in PtrHigh)
    BY <1>7 DEF Tellable
  <2>1. w[o].a # 0 /\ w[o].b # 0
    BY <1>5, <2>0 DEF WordsOf, Same, Differ
  <2>2. ~is_ptr_lower_half(w, o)
    BY <1>4, <2>0 DEF is_ptr_lower_half
  <2> QED
    BY <2>0, <2>1, <2>2 DEF Candidate
<1>8. w[o].a = 0 /\ w[o].after # 0 => k \in {"result", "status"}
  BY <1>2, <1>3, <1>5 DEF WordsOf, Same, Differ, Written
<1> QED
  BY <1>2, <1>6, <1>7, <1>8

(* The invariant holds at the start.                                       *)
LEMMA InitInv == Init => FindInv
PROOF
<1> SUFFICES ASSUME Init PROVE FindInv
  OBVIOUS
<1>1. NoVotes \in Votes /\ \A r \in Req : \A o \in Offset : NoVotes[r][o] = 0
  BY DEF NoVotes, Votes
<1>2. /\ order \in [Req -> Seq(Offset)]
      /\ \A r \in Req : order[r] = <<>> /\ ToSet(order[r]) = {} /\ Len(order[r]) = 0
  BY DEF Init, ToSet
<1>3. TypeOK
  BY <1>1, <1>2, FS_EmptySet DEF Init, TypeOK, Votes
<1>4. VotesInv
  <2>1. \A r \in Req : \A o \in Offset :
           candidate_counts[r][o] = 0 /\ misled[r][o] = 0 /\ told[r][o] = 0
             /\ zero_to_nonzero[r][o] = 0
    BY <1>1 DEF Init
  <2> QED
    BY <2>1 DEF VotesInv
<1>5. WrittenInv
  BY <1>1, <1>2 DEF Init, WrittenInv
<1>6. ResultInv
  BY DEF Init, ResultInv
<1> QED
  BY <1>3, <1>4, <1>5, <1>6 DEF FindInv

(* The words of a buffer that are zero before the call, and those of them  *)
(* that it writes.                                                         *)
ZeroIn(w)    == {o \in DOMAIN w : w[o].a = 0}
WrittenIn(w) == {o \in ZeroIn(w) : w[o].after # 0}

(* What Compare does to the votes and to the dict.                         *)
LEMMA CompareVotes ==
    ASSUME TypeOK, NEW r \in Req, NEW w, DOMAIN w \subseteq Offset, Compare(r, w)
    PROVE  /\ total_counts' \in [Req -> Nat]
           /\ \A q \in Req : total_counts'[q] =
                               IF q = r THEN total_counts[q] + 1 ELSE total_counts[q]
           /\ Counted(candidate_counts, candidate_counts', r, {o \in DOMAIN w : Candidate(w, o)})
           /\ Counted(zero_before_cnt, zero_before_cnt', r, ZeroIn(w))
           /\ Counted(zero_to_nonzero, zero_to_nonzero', r, WrittenIn(w))
           /\ order' = [order EXCEPT ![r] = @ \o Ascending(NewOffsets(r, WrittenIn(w)))]
PROOF
<1> DEFINE S == {o \in DOMAIN w : Candidate(w, o)}
           Z == ZeroIn(w)
           W == WrittenIn(w)
<1>1. /\ total_counts' = [total_counts EXCEPT ![r] = @ + 1]
      /\ candidate_counts' = Count(candidate_counts, r, S)
      /\ zero_before_cnt' = Count(zero_before_cnt, r, Z)
      /\ zero_to_nonzero' = Count(zero_to_nonzero, r, W)
      /\ order' = [order EXCEPT ![r] = @ \o Ascending(NewOffsets(r, W))]
  BY DEF Compare, ZeroIn, WrittenIn
<1>2. candidate_counts \in Votes /\ zero_before_cnt \in Votes /\ zero_to_nonzero \in Votes
  BY DEF TypeOK, Votes
<1>3. total_counts' \in [Req -> Nat]
      /\ \A q \in Req : total_counts'[q] =
                          IF q = r THEN total_counts[q] + 1 ELSE total_counts[q]
  BY <1>1 DEF TypeOK
<1> HIDE DEF S, Z, W
<1>4. Counted(candidate_counts, candidate_counts', r, S)
  BY <1>1, <1>2, CountVotes
<1>5. Counted(zero_before_cnt, zero_before_cnt', r, Z)
  BY <1>1, <1>2, CountVotes
<1>6. Counted(zero_to_nonzero, zero_to_nonzero', r, W)
  BY <1>1, <1>2, CountVotes
<1> QED
  BY <1>1, <1>3, <1>4, <1>5, <1>6 DEF S, Z, W

(* The dict has each offset that was ever written, once, and a word is     *)
(* written only where it was zero.                                         *)
LEMMA CompareWritten ==
    ASSUME FindInv, NEW r \in Req, NEW w, DOMAIN w \subseteq Offset, Compare(r, w)
    PROVE  /\ order' \in [Req -> Seq(Offset)]
           /\ \A q \in Req : Len(order'[q]) = Cardinality(ToSet(order'[q]))
           /\ WrittenInv'
PROOF
<1> DEFINE Z == ZeroIn(w)
           W == WrittenIn(w)
           N == NewOffsets(r, W)
<1>1. /\ \A q \in Req : total_counts'[q] =
                          IF q = r THEN total_counts[q] + 1 ELSE total_counts[q]
      /\ Counted(zero_before_cnt, zero_before_cnt', r, Z)
      /\ Counted(zero_to_nonzero, zero_to_nonzero', r, W)
      /\ order' = [order EXCEPT ![r] = @ \o Ascending(N)]
  BY CompareVotes DEF FindInv
<1>2. W \subseteq Z /\ Z \subseteq Offset
  BY DEF ZeroIn, WrittenIn
<1> HIDE DEF Z, W
<1>3. \A q \in Req : \A o \in Offset :
        /\ total_counts[q] \in Nat /\ zero_before_cnt[q][o] \in Nat
        /\ zero_to_nonzero[q][o] \in Nat
        /\ zero_to_nonzero[q][o] <= zero_before_cnt[q][o]
        /\ zero_before_cnt[q][o] <= total_counts[q]
  BY DEF FindInv, TypeOK, WrittenInv
<1>4. \A q \in Req : /\ order[q] \in Seq(Offset) /\ Distinct(order[q])
                     /\ ToSet(order[q]) = {o \in Offset : zero_to_nonzero[q][o] > 0}
  BY DEF FindInv, TypeOK, WrittenInv, Distinct
<1>5. N = {o \in W : zero_to_nonzero[r][o] = 0} /\ N \in SUBSET Nat /\ IsFiniteSet(N)
  <2>1. N = {o \in W : zero_to_nonzero[r][o] = 0}
    BY DEF NewOffsets
  <2>2. N \subseteq Offset
    BY <1>2, <2>1
  <2> HIDE DEF N
  <2> QED
    BY <2>1, <2>2, LayoutAssumption, FS_Subset
<1> HIDE DEF N
<1>6. /\ Ascending(N) \in Seq(N) /\ ToSet(Ascending(N)) = N /\ Distinct(Ascending(N))
      /\ \A i, j \in DOMAIN Ascending(N) : i < j => Ascending(N)[i] < Ascending(N)[j]
  BY <1>5, AscendingIsAll DEF Distinct
<1>7. ASSUME NEW q \in Req
      PROVE  /\ order'[q] \in Seq(Offset) /\ Distinct(order'[q])
             /\ ToSet(order'[q]) = {o \in Offset : zero_to_nonzero'[q][o] > 0}
  <2>0. order \in [Req -> Seq(Offset)]
    BY DEF FindInv, TypeOK
  <2>1. CASE q # r
    <3>1. order'[q] = order[q]
      BY <1>1, <2>0, <2>1
    <3>2. \A o \in Offset : zero_to_nonzero'[q][o] = zero_to_nonzero[q][o]
      BY <1>1, <2>1 DEF Counted
    <3> QED
      BY <1>4, <3>1, <3>2
  <2>2. CASE q = r
    <3>1. order'[r] = order[r] \o Ascending(N)
      BY <1>1, <2>0
    <3>2. Ascending(N) \in Seq(Offset)
      <4>1. N \subseteq Offset
        BY <1>2, <1>5
      <4> QED
        BY <1>6, <4>1
    <3>3. ToSet(order[r]) \cap ToSet(Ascending(N)) = {}
      BY <1>4, <1>5, <1>6
    <3>4. /\ order'[r] \in Seq(Offset) /\ Distinct(order'[r])
          /\ ToSet(order'[r]) = ToSet(order[r]) \cup N
      BY <1>4, <1>6, <3>1, <3>2, <3>3, DistinctAppend
    <3>5. \A o \in Offset : zero_to_nonzero'[r][o] =
            IF o \in W THEN zero_to_nonzero[r][o] + 1 ELSE zero_to_nonzero[r][o]
      BY <1>1 DEF Counted
    <3>6. ASSUME NEW o \in Offset
          PROVE  zero_to_nonzero'[r][o] > 0 <=> zero_to_nonzero[r][o] > 0 \/ o \in N
      BY <1>3, <1>5, <3>5
    <3>7. ToSet(order'[r]) = {o \in Offset : zero_to_nonzero'[r][o] > 0}
      BY <1>2, <1>4, <1>5, <3>4, <3>6
    <3> QED
      BY <2>2, <3>4, <3>7
  <2> QED
    BY <2>1, <2>2
<1>8. order' \in [Req -> Seq(Offset)]
  <2>1. order \in [Req -> Seq(Offset)]
    BY DEF FindInv, TypeOK
  <2>2. DOMAIN order' = Req /\ order' = [q \in Req |-> order'[q]]
    BY <1>1, <2>1
  <2> QED
    BY <1>7, <2>2
<1>9. \A q \in Req : Len(order'[q]) = Cardinality(ToSet(order'[q]))
  BY <1>7, DistinctLength
<1>10. ASSUME NEW q \in Req, NEW o \in Offset
       PROVE  /\ zero_to_nonzero'[q][o] <= zero_before_cnt'[q][o]
              /\ zero_before_cnt'[q][o] <= total_counts'[q]
  <2>1. /\ zero_to_nonzero'[q][o] =
             IF q = r /\ o \in W THEN zero_to_nonzero[q][o] + 1 ELSE zero_to_nonzero[q][o]
        /\ zero_before_cnt'[q][o] =
             IF q = r /\ o \in Z THEN zero_before_cnt[q][o] + 1 ELSE zero_before_cnt[q][o]
        /\ total_counts'[q] = IF q = r THEN total_counts[q] + 1 ELSE total_counts[q]
    BY <1>1 DEF Counted
  <2> QED
    BY <1>2, <1>3, <2>1
<1>11. ASSUME NEW q \in Req, NEW i \in DOMAIN order'[q], NEW j \in DOMAIN order'[q], i < j,
              zero_to_nonzero'[q][order'[q][i]] = total_counts'[q],
              zero_to_nonzero'[q][order'[q][j]] = total_counts'[q]
       PROVE  order'[q][i] < order'[q][j]
  <2>0. order \in [Req -> Seq(Offset)]
    BY DEF FindInv, TypeOK
  <2>1. CASE q # r
    <3>1. order'[q] = order[q] /\ total_counts'[q] = total_counts[q]
      BY <1>1, <2>0, <2>1
    <3>2. order[q][i] \in Offset /\ order[q][j] \in Offset
      BY <1>4, <1>11, <3>1
    <3>3. /\ zero_to_nonzero[q][order[q][i]] = total_counts[q]
          /\ zero_to_nonzero[q][order[q][j]] = total_counts[q]
      BY <1>1, <1>11, <2>1, <3>1, <3>2 DEF Counted
    <3> QED
      BY <1>11, <3>1, <3>3 DEF FindInv, WrittenInv
  <2>2. CASE q = r
    <3>1. order'[r] = order[r] \o Ascending(N) /\ total_counts'[r] = total_counts[r] + 1
      BY <1>1, <2>0
    <3>2. \A o \in Offset : zero_to_nonzero'[r][o] = total_counts'[r] =>
             o \in W /\ zero_to_nonzero[r][o] = total_counts[r]
      <4> TAKE o \in Offset
      <4>1. zero_to_nonzero'[r][o] =
              IF o \in W THEN zero_to_nonzero[r][o] + 1 ELSE zero_to_nonzero[r][o]
        BY <1>1 DEF Counted
      <4>2. zero_to_nonzero[r][o] \in Nat /\ total_counts[r] \in Nat
            /\ zero_to_nonzero[r][o] <= total_counts[r]
        BY <1>3
      <4> QED
        BY <3>1, <4>1, <4>2
    <3>3. order'[r][i] \in Offset /\ order'[r][j] \in Offset
      BY <1>7, <1>11, <2>2
    <3>4. /\ order'[r][i] \in W /\ zero_to_nonzero[r][order'[r][i]] = total_counts[r]
          /\ order'[r][j] \in W /\ zero_to_nonzero[r][order'[r][j]] = total_counts[r]
      BY <1>11, <2>2, <3>2, <3>3
    <3>5. CASE total_counts[r] = 0
      <4>1. \A o \in Offset : ~(zero_to_nonzero[r][o] > 0)
        BY <1>3, <3>5
      <4>2. ToSet(order[r]) = {}
        BY <1>4, <4>1
      <4>3. order[r] = <<>>
        <5>1. \A k \in DOMAIN order[r] : order[r][k] \in ToSet(order[r])
          BY DEF ToSet
        <5>2. DOMAIN order[r] = {}
          BY <4>2, <5>1
        <5>3. DOMAIN order[r] = 1..Len(order[r]) /\ Len(order[r]) \in Nat
          BY <1>4
        <5>4. Len(order[r]) # 0 => 1 \in DOMAIN order[r]
          BY <5>3
        <5>5. Len(order[r]) = 0
          BY <5>2, <5>4
        <5> QED
          BY <1>4, <5>5
      <4>4. Ascending(N) \in Seq(Offset)
        <5>1. N \subseteq Offset
          BY <1>2, <1>5
        <5> QED
          BY <1>6, <5>1
      <4>5. order'[r] = Ascending(N)
        BY <3>1, <4>3, <4>4
      <4> QED
        BY <1>6, <1>11, <2>2, <4>5
    <3>6. CASE total_counts[r] # 0
      <4>1. order'[r][i] \notin N /\ order'[r][j] \notin N
        BY <1>5, <3>4, <3>6
      <4>2. /\ Ascending(N) \in Seq(Offset) /\ order[r] \in Seq(Offset)
            /\ \A k \in DOMAIN Ascending(N) : Ascending(N)[k] \in N
        <5>1. N \subseteq Offset
          BY <1>2, <1>5
        <5>2. \A k \in DOMAIN Ascending(N) : Ascending(N)[k] \in ToSet(Ascending(N))
          BY DEF ToSet
        <5> QED
          BY <1>4, <1>6, <5>1, <5>2
      <4>3. ASSUME NEW k \in DOMAIN order'[r], order'[r][k] \notin N
            PROVE  k \in DOMAIN order[r] /\ order'[r][k] = order[r][k]
        <5> HIDE DEF N
        <5> DEFINE t == Ascending(N)
        <5>1. /\ Len(order[r]) \in Nat /\ Len(t) \in Nat
              /\ DOMAIN order[r] = 1..Len(order[r]) /\ DOMAIN t = 1..Len(t)
              /\ k \in 1..(Len(order[r]) + Len(t))
          BY <3>1, <4>2, <4>3
        <5>2. CASE k <= Len(order[r])
          BY <3>1, <4>2, <5>1, <5>2
        <5>3. CASE k > Len(order[r])
          <6>1. k - Len(order[r]) \in DOMAIN t /\ order'[r][k] = t[k - Len(order[r])]
            BY <3>1, <4>2, <5>1, <5>3
          <6> QED
            BY <4>2, <4>3, <6>1
        <5> QED
          BY <5>1, <5>2, <5>3
      <4>4. /\ i \in DOMAIN order[r] /\ order'[r][i] = order[r][i]
            /\ j \in DOMAIN order[r] /\ order'[r][j] = order[r][j]
        BY <1>11, <2>2, <4>1, <4>3
      <4> QED
        BY <1>11, <2>2, <3>4, <4>4 DEF FindInv, WrittenInv
    <3> QED
      BY <3>5, <3>6
  <2> QED
    BY <2>1, <2>2
<1>12. WrittenInv'
  BY <1>7, <1>10, <1>11 DEF WrittenInv, Distinct
<1> QED
  BY <1>8, <1>9, <1>12

(* Votes, tellings and misleading words stay in step if the candidates of  *)
(* a pair do.                                                              *)
LEMMA VotesStep ==
    ASSUME FindInv, NEW r \in Req, NEW w, DOMAIN w \subseteq Offset, Compare(r, w),
           aligned' \in BOOLEAN,
           NEW T, Counted(told, told', r, T),
           NEW M, Counted(misled, misled', r, M),
           \A o \in T : o \in DOMAIN w /\ Candidate(w, o),
           \A o \in DOMAIN w : Candidate(w, o) => KindAt(r, o) \in Varying \/ o \in M,
           \A o \in WrittenIn(w) : KindAt(r, o) \in {"result", "status"}
    PROVE  FindInv'
PROOF
<1> DEFINE C == {o \in DOMAIN w : Candidate(w, o)}
           Z == ZeroIn(w)
           W == WrittenIn(w)
<1>1. /\ T \subseteq C
      /\ \A o \in C : KindAt(r, o) \in Varying \/ o \in M
      /\ \A o \in W : KindAt(r, o) \in {"result", "status"}
  OBVIOUS
<1>2. /\ total_counts' \in [Req -> Nat]
      /\ Counted(candidate_counts, candidate_counts', r, C)
      /\ Counted(zero_before_cnt, zero_before_cnt', r, Z)
      /\ Counted(zero_to_nonzero, zero_to_nonzero', r, W)
  BY CompareVotes DEF FindInv
<1>3. /\ order' \in [Req -> Seq(Offset)]
      /\ \A q \in Req : Len(order'[q]) = Cardinality(ToSet(order'[q]))
      /\ WrittenInv'
  BY CompareWritten
<1>4. phase = "pairing" /\ phase' = phase /\ result' = result
  BY DEF Compare
<1> HIDE DEF C, Z, W
<1>5. TypeOK'
  <2>1. /\ candidate_counts' \in Votes /\ zero_before_cnt' \in Votes
        /\ zero_to_nonzero' \in Votes /\ told' \in Votes /\ misled' \in Votes
    BY <1>2 DEF Counted
  <2> QED
    BY <1>2, <1>3, <1>4, <2>1 DEF FindInv, TypeOK, Votes
<1>6. VotesInv'
  <2> SUFFICES ASSUME NEW q \in Req, NEW o \in Offset
               PROVE  /\ KindAt(q, o) \notin Varying => candidate_counts'[q][o] <= misled'[q][o]
                      /\ told'[q][o] <= candidate_counts'[q][o]
                      /\ zero_to_nonzero'[q][o] > 0 => KindAt(q, o) \in {"result", "status"}
    BY DEF VotesInv, KindAt, Varying
  <2>1. /\ KindAt(q, o) \notin Varying => candidate_counts[q][o] <= misled[q][o]
        /\ told[q][o] <= candidate_counts[q][o]
        /\ zero_to_nonzero[q][o] > 0 => KindAt(q, o) \in {"result", "status"}
        /\ candidate_counts[q][o] \in Nat /\ told[q][o] \in Nat /\ misled[q][o] \in Nat
    BY DEF FindInv, TypeOK, VotesInv, Varying
  <2>2. /\ candidate_counts'[q][o] =
             IF q = r /\ o \in C THEN candidate_counts[q][o] + 1 ELSE candidate_counts[q][o]
        /\ zero_to_nonzero'[q][o] =
             IF q = r /\ o \in W THEN zero_to_nonzero[q][o] + 1 ELSE zero_to_nonzero[q][o]
        /\ told'[q][o] = IF q = r /\ o \in T THEN told[q][o] + 1 ELSE told[q][o]
        /\ misled'[q][o] = IF q = r /\ o \in M THEN misled[q][o] + 1 ELSE misled[q][o]
    BY <1>2 DEF Counted
  <2> QED
    BY <1>1, <2>1, <2>2
<1>7. ResultInv'
  BY <1>4 DEF FindInv, ResultInv
<1> QED
  BY <1>3, <1>5, <1>6, <1>7 DEF FindInv

(* A pair of the same call keeps them in step.                             *)
LEMMA SameCallInv == FindInv /\ PairSameCall => FindInv'
PROOF
<1> SUFFICES ASSUME FindInv, PairSameCall PROVE FindInv'
  OBVIOUS
<1>0. PICK r \in Req : \E w \in SameCall[r] :
        /\ aligned /\ Compare(r, w) /\ UNCHANGED aligned
        /\ told' = Count(told, r, Tellable(r, w))
        /\ misled' = Count(misled, r, Misleading(r, w))
  BY DEF PairSameCall
<1>1. PICK w \in SameCall[r] :
        /\ aligned /\ Compare(r, w) /\ UNCHANGED aligned
        /\ told' = Count(told, r, Tellable(r, w))
        /\ misled' = Count(misled, r, Misleading(r, w))
  BY <1>0
<1>2. DOMAIN w \subseteq Offset
  BY DEF SameCall, Offset
<1>3. told \in Votes /\ misled \in Votes
  BY DEF FindInv, TypeOK, Votes
<1>4. Counted(told, told', r, Tellable(r, w))
  BY <1>1, <1>3, CountVotes
<1>5. Counted(misled, misled', r, Misleading(r, w))
  BY <1>1, <1>3, CountVotes
<1>6. Tellable(r, w) \subseteq DOMAIN w
  BY DEF Tellable
<1>7. /\ \A o \in Tellable(r, w) : o \in DOMAIN w /\ Candidate(w, o)
      /\ \A o \in DOMAIN w : Candidate(w, o) =>
            KindAt(r, o) \in Varying \/ o \in Misleading(r, w)
      /\ \A o \in WrittenIn(w) : KindAt(r, o) \in {"result", "status"}
  BY <1>6, CandidatesVary DEF ZeroIn, WrittenIn
<1>8. aligned' \in BOOLEAN
  BY <1>1
<1> QED
  BY <1>1, <1>2, <1>4, <1>5, <1>7, <1>8, VotesStep

(* Of the words of two calls, any but a handle may mislead.                *)
LEMMA OtherCallInv == FindInv /\ PairOtherCall => FindInv'
PROOF
<1> SUFFICES ASSUME FindInv, PairOtherCall PROVE FindInv'
  OBVIOUS
<1>0. PICK r \in Req : \E w \in OtherCall[r] :
        /\ Compare(r, w) /\ UNCHANGED <<aligned, told>>
        /\ misled' = Count(misled, r, Unrelated(r, w))
  BY DEF PairOtherCall
<1>1. PICK w \in OtherCall[r] :
        /\ Compare(r, w) /\ UNCHANGED <<aligned, told>>
        /\ misled' = Count(misled, r, Unrelated(r, w))
  BY <1>0
<1>2. PICK v \in SameCall[r], u \in SameCall[r] :
        w = [o \in DOMAIN Layout[r] |-> [v[o] EXCEPT !.b = u[o].b]]
  BY DEF OtherCall
<1>3. DOMAIN w = DOMAIN Layout[r] /\ DOMAIN v = DOMAIN w /\ DOMAIN w \subseteq Offset
  BY <1>2 DEF SameCall, Offset
<1>4. told \in Votes /\ misled \in Votes /\ aligned \in BOOLEAN
  BY DEF FindInv, TypeOK, Votes
<1>5. Counted(told, told', r, {})
  BY <1>1, <1>4 DEF Counted
<1>6. Counted(misled, misled', r, Unrelated(r, w))
  BY <1>1, <1>4, CountVotes
<1>7. ASSUME NEW o \in DOMAIN w, Candidate(w, o)
      PROVE  KindAt(r, o) \in Varying \/ o \in Unrelated(r, w)
  <2>1. KindAt(r, o) = Layout[r][o]
    BY <1>3 DEF KindAt
  <2> QED
    BY <1>7, <2>1 DEF Candidate, Unrelated, Varying
<1>8. ASSUME NEW o \in WrittenIn(w)  PROVE KindAt(r, o) \in {"result", "status"}
  <2>1. o \in DOMAIN w /\ w[o].a = 0 /\ w[o].after # 0
    BY DEF WrittenIn, ZeroIn
  <2>2. v[o] \in WordsOf[Layout[r][o]] /\ Layout[r][o] \in Kind
    BY <1>3, <2>1, LayoutAssumption DEF SameCall
  <2>3. DOMAIN v[o] = {"a", "b", "after"}
    BY <2>2 DEF Kind, WordsOf, Same, Differ, Written
  <2>4. w[o].a = v[o].a /\ w[o].after = v[o].after
    BY <1>2, <1>3, <2>1, <2>3
  <2> QED
    BY <1>3, <2>1, <2>4, CandidatesVary
<1> QED
  BY <1>1, <1>3, <1>4, <1>5, <1>6, <1>7, <1>8, VotesStep

(* What output_handle_offset comes to depends on the scores and the dict   *)
(* alone.                                                                  *)
BestOf(score, zeros, seq) ==
    LET Step(best, o) ==
            IF /\ 2 * score[o] >= zeros[o]
               /\ best = None \/ score[o] > score[best]
            THEN o ELSE best
    IN FoldLeft(Step, None, seq)

LEMMA OutputDepends ==
    ASSUME NEW r
    PROVE  /\ output_handle_offset(r) =
                BestOf(zero_to_nonzero[r], zero_before_cnt[r], order[r])
           /\ output_handle_offset(r)' =
                BestOf(zero_to_nonzero'[r], zero_before_cnt'[r], order'[r])
PROOF
BY DEF output_handle_offset, OftenWritten, BestOf, FoldLeft, MapThenFoldSet

(* Writing the result changes no vote.                                     *)
LEMMA WriteInv == FindInv /\ Write => FindInv'
PROOF
<1> SUFFICES ASSUME FindInv, Write PROVE FindInv'
  OBVIOUS
<1>1. /\ phase' = "done"
      /\ DOMAIN result' = {q \in Req : total_counts[q] > 0} \cup DOMAIN KnownFds
      /\ \A r \in DOMAIN result' : /\ result'[r].in = handle_offsets(r)
                                   /\ result'[r].out = output_handle_offset(r)
      /\ UNCHANGED <<aligned, counters, told, misled>>
  BY DEF Write
<1>2. TypeOK' /\ VotesInv' /\ WrittenInv'
  BY <1>1 DEF counters, FindInv, TypeOK, VotesInv, WrittenInv
<1>3. \A r : handle_offsets(r)' = handle_offsets(r)
  BY <1>1 DEF counters, handle_offsets
<1>4. \A r : output_handle_offset(r)' = output_handle_offset(r)
  BY <1>1, OutputDepends DEF counters
<1>5. ResultInv'
  BY <1>1, <1>3, <1>4, KnownAssumption DEF ResultInv
<1> QED
  BY <1>2, <1>5 DEF FindInv

(* Every step keeps the invariant.                                         *)
LEMMA NextInv == FindInv /\ [Next]_vars => FindInv'
PROOF
<1> SUFFICES ASSUME FindInv, [Next]_vars PROVE FindInv'
  OBVIOUS
<1>1. CASE PairSameCall
  BY <1>1, SameCallInv
<1>2. CASE Diverge
  <2>1. /\ phase = "pairing" /\ aligned' = FALSE
        /\ UNCHANGED <<phase, counters, result, told, misled>>
    BY <1>2 DEF Diverge
  <2> QED
    BY <2>1 DEF counters, FindInv, TypeOK, VotesInv, WrittenInv, ResultInv
<1>3. CASE PairOtherCall
  BY <1>3, OtherCallInv
<1>4. CASE Write
  BY <1>4, WriteInv
<1>5. CASE UNCHANGED vars
  <2>1. TypeOK' /\ VotesInv' /\ WrittenInv'
    BY <1>5 DEF vars, counters, FindInv, TypeOK, VotesInv, WrittenInv
  <2>2. \A r : handle_offsets(r)' = handle_offsets(r)
    BY <1>5 DEF vars, counters, handle_offsets
  <2>3. \A r : output_handle_offset(r)' = output_handle_offset(r)
    BY <1>5, OutputDepends DEF vars, counters
  <2>4. ResultInv'
    BY <1>5, <2>2, <2>3 DEF vars, FindInv, ResultInv
  <2> QED
    BY <2>1, <2>4 DEF FindInv
<1> QED
  BY <1>1, <1>2, <1>3, <1>4, <1>5 DEF Next, Done

(* The counters, the dict and the result are what the comparison of the    *)
(* pairs makes them, at any time.                                          *)
THEOREM FindInvariant == Spec => []FindInv
PROOF
BY InitInv, NextInv, PTL DEF Spec

(* The counters are numbers, and the dict has no offset twice.             *)
THEOREM TypesHold == Spec => []TypeOK
PROOF
<1>1. FindInv => TypeOK
  BY DEF FindInv
<1> QED
  BY <1>1, FindInvariant, PTL

(* More votes are enough where fewer are.                                  *)
LEMMA EnoughGrows ==
    ASSUME NEW m \in Nat, NEW n \in Nat, m <= n, NEW total \in Nat, Enough(m, total)
    PROVE  Enough(n, total)
PROOF
<1> DEFINE needed == total * VaryPercent
<1>1. needed \in Nat
  BY NumberAssumption
<1>2. m >= MinVaryCount /\ 100 * m >= needed /\ MinVaryCount \in Nat
  BY NumberAssumption DEF Enough
<1> HIDE DEF needed
<1>3. n >= MinVaryCount /\ 100 * n >= needed
  BY <1>1, <1>2
<1> QED
  BY <1>3 DEF Enough, needed

(* Nothing constant, nothing that the driver writes and no lower half of a *)
(* pointer becomes a handle offset of the schema, unless pairs of          *)
(* different calls and pointers the filter does not know made it look like *)
(* a handle as often as the thresholds ask: for any layouts, any           *)
(* thresholds and captures of any length, aligned or not.                  *)
THEOREM NoConstantIsAHandle == Spec => []OnlyVaryingWords
PROOF
<1>1. FindInv => OnlyVaryingWords
  <2> SUFFICES ASSUME FindInv, NEW r \in DOMAIN result, NEW o \in result[r].in,
                      KindAt(r, o) \notin Varying
               PROVE  Enough(misled[r][o], total_counts[r])
    BY DEF OnlyVaryingWords, Varying
  <2>1. r \in Req /\ o \in handle_offsets(r)
    BY DEF FindInv, TypeOK, ResultInv
  <2>2. o \in Offset /\ Enough(candidate_counts[r][o], total_counts[r])
    BY <2>1 DEF handle_offsets
  <2>3. /\ candidate_counts[r][o] \in Nat /\ misled[r][o] \in Nat /\ total_counts[r] \in Nat
        /\ candidate_counts[r][o] <= misled[r][o]
    BY <2>1, <2>2 DEF FindInv, TypeOK, VotesInv, Varying
  <2> QED
    BY <2>2, <2>3, EnoughGrows
<1> QED
  BY <1>1, FindInvariant, PTL

(* A handle that could be told often enough is in the schema.              *)
THEOREM ToldHandlesAreFound == Spec => []HandlesFound
PROOF
<1>1. FindInv => HandlesFound
  <2> SUFFICES ASSUME FindInv, NEW r \in DOMAIN result, NEW o \in Offset,
                      Enough(told[r][o], total_counts[r])
               PROVE  o \in result[r].in
    BY DEF HandlesFound
  <2>1. r \in Req /\ result[r].in = handle_offsets(r)
    BY DEF FindInv, TypeOK, ResultInv
  <2>2. /\ told[r][o] \in Nat /\ candidate_counts[r][o] \in Nat
        /\ total_counts[r] \in Nat /\ told[r][o] <= candidate_counts[r][o]
    BY <2>1 DEF FindInv, TypeOK, VotesInv
  <2> QED
    BY <2>1, <2>2, EnoughGrows DEF handle_offsets
<1> QED
  BY <1>1, FindInvariant, PTL

(* A result that is written each time is not passed over for a word that   *)
(* was written less often, or for one that the driver does not write, but  *)
(* only for one at a lower offset that is written each time too: such      *)
(* words enter the dict together, with the first record, and the strict    *)
(* comparison of scores keeps the first.                                   *)
THEOREM OutputIsFound == Spec => []OutputFound
PROOF
<1>1. FindInv => OutputFound
  <2> SUFFICES ASSUME FindInv, NEW r \in DOMAIN result, NEW o \in Offset,
                      zero_to_nonzero[r][o] > 0,
                      zero_to_nonzero[r][o] = total_counts[r]
               PROVE  /\ KindAt(r, result[r].out) \in {"result", "status"}
                      /\ zero_to_nonzero[r][result[r].out] = total_counts[r]
                      /\ \A q \in Offset :
                           zero_to_nonzero[r][q] = total_counts[r] => result[r].out <= q
    BY DEF OutputFound
  <2> DEFINE out == output_handle_offset(r)
             score == zero_to_nonzero[r]
  <2>1. r \in Req /\ result[r].out = out
    BY DEF FindInv, TypeOK, ResultInv
  <2>2. /\ order[r] \in Seq(Offset) /\ score \in [Offset -> Nat] /\ total_counts[r] \in Nat
        /\ ToSet(order[r]) = {p \in Offset : score[p] > 0}
        /\ \A p \in Offset : /\ zero_before_cnt[r][p] \in Nat
                             /\ score[p] <= zero_before_cnt[r][p]
                             /\ zero_before_cnt[r][p] <= total_counts[r]
        /\ \A i, j \in DOMAIN order[r] :
             /\ i < j
             /\ score[order[r][i]] = total_counts[r]
             /\ score[order[r][j]] = total_counts[r]
             => order[r][i] < order[r][j]
    BY <2>1 DEF FindInv, TypeOK, WrittenInv
  <2>3. ASSUME NEW p \in Offset, score[p] = total_counts[r]
        PROVE  OftenWritten(r, p) /\ \E j \in DOMAIN order[r] : order[r][j] = p
    <3>1. OftenWritten(r, p)
      BY <2>2, <2>3 DEF OftenWritten
    <3>2. p \in ToSet(order[r])
      BY <2>2, <2>3
    <3> QED
      BY <3>1, <3>2 DEF ToSet
  <2>4. PICK j \in DOMAIN order[r] : order[r][j] = o
    BY <2>3
  <2>5. /\ score[o] <= score[out]
        /\ \E m \in DOMAIN order[r] :
              /\ order[r][m] = out
              /\ \A i \in 1..(m - 1) : OftenWritten(r, order[r][i]) =>
                    score[order[r][i]] < score[order[r][m]]
    BY <2>1, <2>2, <2>3, <2>4, OutputIsBest
  <2> HIDE DEF out
  <2>6. PICK m \in DOMAIN order[r] :
              /\ order[r][m] = out
              /\ \A i \in 1..(m - 1) : OftenWritten(r, order[r][i]) =>
                    score[order[r][i]] < score[order[r][m]]
    BY <2>5
  <2>7. out \in Offset /\ score[out] = total_counts[r] /\ score[out] > 0
    <3>1. out \in Offset
      BY <2>2, <2>6
    <3> QED
      BY <2>2, <2>5, <3>1
  <2>8. KindAt(r, out) \in {"result", "status"}
    BY <2>1, <2>7 DEF FindInv, VotesInv
  <2>9. ASSUME NEW q \in Offset, score[q] = total_counts[r]
        PROVE  out <= q
    <3>1. PICK i \in DOMAIN order[r] : order[r][i] = q
      BY <2>3, <2>9
    <3>2. OftenWritten(r, q)
      BY <2>3, <2>9
    <3>3. i \in Nat /\ m \in Nat /\ i >= 1 /\ out \in Nat /\ q \in Nat
      BY <2>2, <2>7, LayoutAssumption
    <3>4. CASE i < m
      <4>1. i \in 1..(m - 1)
        BY <3>3, <3>4
      <4>2. score[q] < score[out]
        BY <2>6, <3>1, <3>2, <4>1
      <4> QED
        BY <2>2, <2>7, <2>9, <4>2
    <3>5. CASE i = m
      BY <2>6, <3>1, <3>3, <3>5
    <3>6. CASE m < i
      <4>1. out < q
        BY <2>2, <2>6, <2>7, <2>9, <3>1, <3>6
      <4> QED
        BY <3>3, <4>1
    <3> QED
      BY <3>3, <3>4, <3>5, <3>6
  <2> QED
    BY <2>1, <2>7, <2>8, <2>9
<1> QED
  BY <1>1, FindInvariant, PTL
=============================================================================
