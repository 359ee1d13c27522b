------------------------- MODULE HandleTableProofs --------------------------
(***************************************************************************)
(* handle_map.h is a bounded map, for every capacity, word size and        *)
(* multiplier.                                                             *)
(***************************************************************************)
EXTENDS HandleTable, FiniteSetTheorems, FunctionTheorems, TLAPS

(* Probing wraps around the table once.                                    *)
LEMMA ProbeWraps ==
    ASSUME NEW k \in Word, NEW i \in Slot
    PROVE  /\ Hash(k) \in Slot
           /\ Probe(k, i) = IF Hash(k) + i < Capacity THEN Hash(k) + i
                            ELSE Hash(k) + i - Capacity
           /\ Probe(k, i) \in Slot
<1> USE CapacityAssumption, ModulusAssumption, MultiplierAssumption
<1> DEFINE w == (k * Multiplier) % Modulus
<1>1. w \in Nat
  <2>1. k * Multiplier \in Nat
    BY SMT DEF Word
  <2> QED
    BY <2>1, SMT
<1>2. Hash(k) \in Slot
  <2> HIDE DEF w
  <2>1. w % Capacity \in 0..(Capacity - 1)
    BY <1>1, SMT
  <2> QED
    BY <2>1 DEF Hash, Slot, w
<1>3. Probe(k, i) = IF Hash(k) + i < Capacity THEN Hash(k) + i
                    ELSE Hash(k) + i - Capacity
  <2> DEFINE h == Hash(k)
  <2>1. h \in Slot
    BY <1>2
  <2> HIDE DEF h
  <2>2. (h + i) % Capacity = IF h + i < Capacity THEN h + i ELSE h + i - Capacity
    BY <2>1, SMT DEF Slot
  <2> QED
    BY <2>2 DEF Probe, h
<1> QED
  BY <1>2, <1>3, SMT DEF Slot

(* Every slot is probed.                                                   *)
LEMMA ProbesCover ==
    ASSUME NEW k \in Word, NEW s \in Slot
    PROVE  \E i \in Slot : Probe(k, i) = s
<1>1. Hash(k) \in Slot
  <2>1. 0 \in Slot
    BY CapacityAssumption, SMT DEF Slot
  <2> QED
    BY <2>1, ProbeWraps
<1> DEFINE i == IF s >= Hash(k) THEN s - Hash(k) ELSE s + Capacity - Hash(k)
<1>2. i \in Slot
  BY <1>1, CapacityAssumption, SMT DEF Slot
<1>3. Probe(k, i) = IF Hash(k) + i < Capacity THEN Hash(k) + i
                    ELSE Hash(k) + i - Capacity
  BY <1>2, ProbeWraps
<1>4. Probe(k, i) = s
  <2> DEFINE h == Hash(k)
  <2>1. h \in Slot
    BY <1>1
  <2> HIDE DEF h
  <2>2. (IF h + (IF s >= h THEN s - h ELSE s + Capacity - h) < Capacity
         THEN h + (IF s >= h THEN s - h ELSE s + Capacity - h)
         ELSE h + (IF s >= h THEN s - h ELSE s + Capacity - h) - Capacity) = s
    BY <2>1, CapacityAssumption, SMT DEF Slot
  <2> QED
    BY <2>2, <1>3 DEF h
<1> QED
  BY <1>2, <1>4

(* The loop stops at its first stop.                                       *)
LEMMA FirstStopIsFirst ==
    ASSUME NEW k \in Word, Stops(k) # {}
    PROVE  /\ FirstStop(k) \in Stops(k)
           /\ \A j \in Stops(k) : FirstStop(k) <= j
<1>1. Stops(k) \subseteq Nat
  BY SMT DEF Stops, Slot
<1>2. \E i \in Stops(k) : \A j \in Stops(k) : i <= j
  <2>1. PICK i \in Stops(k) : \A j \in Stops(k) : ~ (<<j, i>> \in OpToRel(<, Nat))
    BY <1>1, WFMin, NatLessThanWellFounded
  <2>2. \A j \in Stops(k) : ~ (j < i)
    BY <2>1, <1>1 DEF OpToRel
  <2>3. \A j \in Stops(k) : i <= j
    BY <2>2, <1>1, SMT
  <2> QED
    BY <2>3
<1> QED
  BY <1>2 DEF FirstStop

(* Where the loop stops: at the key's entry if there is one, else at an    *)
(* empty slot to which every earlier probe met a used slot.                *)
LEMMA StopSlotMeaning ==
    ASSUME TableInv, NEW k \in Word \ Reserved, Stops(k) # {}
    PROVE  /\ StopSlot(k) \in Slot
           /\ FirstStop(k) \in Slot
           /\ keys[StopSlot(k)] \in {Sentinel, k}
           /\ \A j \in 0..(FirstStop(k) - 1) : Probe(k, j) \in Used
           /\ \A s \in Used : keys[s] = k => s = StopSlot(k)
<1> DEFINE n == FirstStop(k)
<1>1. n \in Stops(k) /\ \A j \in Stops(k) : n <= j
  BY FirstStopIsFirst
<1>2. n \in Slot /\ keys[Probe(k, n)] \in {Sentinel, k}
  BY <1>1 DEF Stops
<1>3. StopSlot(k) \in Slot
  BY <1>2, ProbeWraps DEF StopSlot
<1>4. ASSUME NEW j \in 0..(n - 1) PROVE Probe(k, j) \in Used
  <2>1. j \in Slot /\ j < n
    BY <1>2, CapacityAssumption, SMT DEF Slot
  <2>2. j \notin Stops(k)
    <3> HIDE DEF n
    <3> QED
      BY <1>1, <2>1, <1>2, SMT DEF Slot
  <2>3. Probe(k, j) \in Slot
    BY <2>1, ProbeWraps
  <2> QED
    BY <2>1, <2>2, <2>3 DEF Stops, Used
<1>5. ASSUME NEW s \in Used, keys[s] = k PROVE s = StopSlot(k)
  <2>1. PICK i \in Slot : Probe(k, i) = s /\ \A j \in 0..(i - 1) : Probe(k, j) \in Used
    BY <1>5 DEF TableInv, EntriesReachable
  <2>2. i \in Stops(k)
    BY <1>5, <2>1 DEF Stops
  <2>3. n <= i
    BY <1>1, <2>2
  <2>4. CASE n = i
    BY <2>4, <2>1 DEF StopSlot
  <2>5. CASE n < i
    <3>1. n \in 0..(i - 1)
      <4> HIDE DEF n
      <4> QED
        BY <2>5, <1>2, <2>1, SMT DEF Slot
    <3>2. Probe(k, n) \in Used
      BY <3>1, <2>1
    <3>3. keys[Probe(k, n)] = k
      BY <3>2, <1>2 DEF Used
    <3> QED
      BY <3>2, <3>3, <1>5 DEF TableInv, NoDuplicates, StopSlot
  <2> QED
    <3> HIDE DEF n
    <3> QED
      BY <2>3, <2>4, <2>5, <1>2, SMT DEF Slot
<1> QED
  BY <1>2, <1>3, <1>4, <1>5 DEF StopSlot
-----------------------------------------------------------------------------
LEMMA SlotsFinite ==
    /\ IsFiniteSet(Slot) /\ Cardinality(Slot) = Capacity
    /\ IsFiniteSet(Used) /\ Cardinality(Used) \in Nat
    /\ Cardinality(Used) <= Capacity
    /\ Cardinality(Used) = Capacity => Used = Slot
<1>1. IsFiniteSet(0..(Capacity - 1)) /\ Cardinality(0..(Capacity - 1)) = Capacity
  <2>1. 0 \in Int /\ Capacity - 1 \in Int /\ ~ (0 > Capacity - 1)
        /\ Capacity - 1 - 0 + 1 = Capacity
    BY CapacityAssumption, SMT
  <2> QED
    BY <2>1, FS_Interval
<1>2. Used \in SUBSET Slot
  BY DEF Used
<1>3. IsFiniteSet(Slot) /\ Cardinality(Slot) = Capacity
  BY <1>1 DEF Slot
<1>4. /\ IsFiniteSet(Used) /\ Cardinality(Used) <= Capacity
      /\ Cardinality(Used) = Capacity => Used = Slot
  BY <1>2, <1>3, FS_Subset
<1> QED
  BY <1>3, <1>4, FS_CardinalityType

LEMMA InitEstablishesInv == Init => TableInv
<1> SUFFICES ASSUME Init PROVE TableInv
  OBVIOUS
<1>1. Sentinel \in Word /\ 0 \in Word
  BY ModulusAssumption, SMT DEF Sentinel, Word
<1>2. TypeOK
  BY <1>1, SMT DEF Init, TypeOK, Answer
<1>3. Used = {}
  BY DEF Init, Used
<1>4. CountIsUsed
  BY <1>3, FS_EmptySet DEF Init, CountIsUsed
<1> QED
  BY <1>2, <1>3, <1>4
     DEF TableInv, NoDuplicates, EntriesReachable, NoReservedKeys

(* A step that leaves the table alone.                                     *)
LEMMA AnswerOnly ==
    ASSUME TableInv, UNCHANGED <<keys, vals, count>>,
           answer' \in [ret : {0, 1}, val : Word]
    PROVE  TableInv'
<1>1. Used' = Used
  BY DEF Used
<1>2. TypeOK'
  BY DEF TableInv, TypeOK
<1>3. NoDuplicates' /\ NoReservedKeys' /\ CountIsUsed'
  BY <1>1 DEF TableInv, NoDuplicates, NoReservedKeys, CountIsUsed
<1>4. EntriesReachable'
  BY <1>1 DEF TableInv, EntriesReachable
<1> QED
  BY <1>2, <1>3, <1>4 DEF TableInv

LEMMA PutKeepsInv ==
    ASSUME TableInv, NEW k \in Key, NEW v \in Val, Put(k, v)
    PROVE  TableInv'
<1> DEFINE s == StopSlot(k)
           n == FirstStop(k)
<1>1. k \in Word \ Reserved /\ Stops(k) # {} /\ v \in Word
  BY KeyAssumption DEF Put
<1>2. /\ s \in Slot /\ n \in Slot
      /\ keys[s] \in {Sentinel, k}
      /\ s = Probe(k, n)
      /\ \A j \in 0..(n - 1) : Probe(k, j) \in Used
      /\ \A t \in Used : keys[t] = k => t = s
  BY <1>1, StopSlotMeaning DEF StopSlot
<1>3. /\ keys' = [keys EXCEPT ![s] = k]
      /\ vals' = [vals EXCEPT ![s] = v]
      /\ count' = IF keys[s] = Sentinel THEN count + 1 ELSE count
      /\ answer' = Answer(1, 0)
  BY DEF Put
<1>4. keys \in [Slot -> Word] /\ vals \in [Slot -> Word] /\ count \in Nat
  BY DEF TableInv, TypeOK
<1> HIDE DEF s, n
<1>5. TypeOK'
  <2>1. 0 \in Word
    BY ModulusAssumption, SMT DEF Word
  <2>2. count' \in Nat
    BY <1>3, <1>4, SMT
  <2>3. answer' \in [ret : {0, 1}, val : Word]
    BY <2>1, <1>3 DEF Answer
  <2> QED
    BY <2>2, <2>3, <1>1, <1>2, <1>3, <1>4 DEF TypeOK
<1>6. /\ keys'[s] = k
      /\ \A t \in Slot \ {s} : keys'[t] = keys[t]
      /\ k # Sentinel /\ k # 0
  BY <1>1, <1>2, <1>3, <1>4 DEF Reserved
<1>7. Used' = Used \cup {s}
  BY <1>2, <1>6 DEF Used
<1>8. NoDuplicates'
  BY <1>2, <1>6, <1>7 DEF TableInv, NoDuplicates, Used
<1>9. EntriesReachable'
  <2>1. ASSUME NEW t \in Used'
        PROVE  \E i \in Slot : /\ Probe(keys'[t], i) = t
                               /\ \A j \in 0..(i - 1) : Probe(keys'[t], j) \in Used'
    <3>1. CASE t = s
      BY <3>1, <1>2, <1>6, <1>7
    <3>2. CASE t # s
      <4>1. t \in Used /\ keys'[t] = keys[t]
        BY <3>2, <2>1, <1>6, <1>7 DEF Used
      <4> QED
        BY <4>1, <1>7 DEF TableInv, EntriesReachable
    <3> QED
      BY <3>1, <3>2
  <2> QED
    BY <2>1 DEF EntriesReachable, Probe, Hash
<1>10. NoReservedKeys'
  BY <1>6, <1>7 DEF TableInv, NoReservedKeys, Used
<1>11. CountIsUsed'
  <2>1. count = Cardinality(Used)
    BY DEF TableInv, CountIsUsed
  <2>2. Cardinality(Used \cup {s}) = IF s \in Used THEN Cardinality(Used)
                                     ELSE Cardinality(Used) + 1
    BY SlotsFinite, FS_AddElement
  <2>3. s \in Used <=> keys[s] # Sentinel
    BY <1>2 DEF Used
  <2> QED
    BY <2>1, <2>2, <2>3, <1>3, <1>7 DEF CountIsUsed
<1> QED
  BY <1>5, <1>8, <1>9, <1>10, <1>11 DEF TableInv

LEMMA StepKeepsInv == TableInv /\ [Next]_vars => TableInv'
<1> SUFFICES ASSUME TableInv, [Next]_vars PROVE TableInv'
  OBVIOUS
<1>1. Answer(0, 0) \in [ret : {0, 1}, val : Word]
  <2>1. 0 \in Word
    BY ModulusAssumption, SMT DEF Word
  <2> QED
    BY <2>1 DEF Answer
<1>2. CASE UNCHANGED vars
  BY <1>2, AnswerOnly DEF vars, TableInv, TypeOK
<1>3. ASSUME NEW k \in Key, NEW v \in Val, Put(k, v) PROVE TableInv'
  BY <1>3, PutKeepsInv
<1>4. ASSUME NEW k \in Key, PutRefused(k) PROVE TableInv'
  BY <1>4, <1>1, AnswerOnly DEF PutRefused
<1>5. ASSUME NEW k \in Key, Get(k) PROVE TableInv'
  <2>1. CASE Found(k)
    <3>1. k \in Word \ Reserved /\ Stops(k) # {}
      BY <2>1, KeyAssumption DEF Found
    <3>2. vals[StopSlot(k)] \in Word
      BY <3>1, StopSlotMeaning DEF TableInv, TypeOK
    <3>3. answer' \in [ret : {0, 1}, val : Word]
      BY <3>2, <2>1, <1>5 DEF Get, Answer
    <3> QED
      BY <3>3, <1>5, AnswerOnly DEF Get
  <2>2. CASE ~Found(k)
    BY <2>2, <1>1, <1>5, AnswerOnly DEF Get
  <2> QED
    BY <2>1, <2>2
<1> QED
  BY <1>2, <1>3, <1>4, <1>5 DEF Next

(* No key is held twice, no search ends before its entry, and the entry    *)
(* count is the number of used slots, after any sequence of calls.         *)
THEOREM TableCorrect == Spec => []TableInv
<1> QED
  BY InitEstablishesInv, StepKeepsInv, PTL DEF Spec
-----------------------------------------------------------------------------
(* The map a table stands for.                                             *)
EntriesMatch ==
    /\ DOMAIN Entries = {keys[s] : s \in Used}
    /\ \A s \in Used : Entries[keys[s]] = vals[s]
    /\ Cardinality(DOMAIN Entries) = Cardinality(Used)

LEMMA EntriesOfTable == TableInv => EntriesMatch
<1> SUFFICES ASSUME TableInv PROVE EntriesMatch
  OBVIOUS
<1>1. DOMAIN Entries = {keys[s] : s \in Used}
  BY DEF Entries
<1>2. ASSUME NEW s \in Used PROVE Entries[keys[s]] = vals[s]
  <2>1. SlotOf(keys[s]) \in Used /\ keys[SlotOf(keys[s])] = keys[s]
    BY DEF SlotOf
  <2>2. SlotOf(keys[s]) = s
    BY <2>1 DEF TableInv, NoDuplicates
  <2>3. Entries[keys[s]] = vals[SlotOf(keys[s])]
    BY DEF Entries
  <2> QED
    BY <2>2, <2>3
<1>3. Cardinality(DOMAIN Entries) = Cardinality(Used)
  <2> DEFINE f == [s \in Used |-> keys[s]]
             D == {keys[s] : s \in Used}
  <2>1. f \in Bijection(Used, D)
    <3>1. f \in Injection(Used, D)
      BY DEF Injection, IsInjective, TableInv, NoDuplicates
    <3>2. f \in Surjection(Used, D)
      BY DEF Surjection
    <3> QED
      BY <3>1, <3>2 DEF Bijection
  <2>2. ExistsBijection(Used, D)
    BY <2>1 DEF ExistsBijection
  <2> QED
    BY <2>2, <1>1, SlotsFinite, FS_Bijection
<1> QED
  BY <1>1, <1>2, <1>3 DEF EntriesMatch

(* hm_get finds exactly the keys of the map.                               *)
LEMMA FoundIsStored ==
    ASSUME TableInv, NEW k \in Word
    PROVE  /\ Found(k) <=> k \in DOMAIN Entries
           /\ Found(k) => Entries[k] = vals[StopSlot(k)]
           /\ k \in DOMAIN Entries => Stops(k) # {}
<1>1. ASSUME Found(k)
      PROVE  k \in DOMAIN Entries /\ Entries[k] = vals[StopSlot(k)]
  <2>1. k \in Word \ Reserved /\ Stops(k) # {} /\ keys[StopSlot(k)] = k
    BY <1>1 DEF Found
  <2>2. StopSlot(k) \in Used
    BY <2>1, StopSlotMeaning DEF Used, Reserved
  <2> QED
    BY <2>1, <2>2, EntriesOfTable DEF EntriesMatch
<1>2. ASSUME k \in DOMAIN Entries PROVE Stops(k) # {} /\ Found(k)
  <2>1. PICK s \in Used : keys[s] = k
    BY <1>2, EntriesOfTable DEF EntriesMatch
  <2>2. k \notin Reserved
    BY <2>1 DEF Reserved, Used, TableInv, NoReservedKeys
  <2>3. \E i \in Slot : Probe(k, i) = s
    BY <2>1 DEF TableInv, EntriesReachable
  <2>4. Stops(k) # {}
    BY <2>1, <2>3 DEF Stops
  <2>5. s = StopSlot(k)
    BY <2>1, <2>2, <2>4, StopSlotMeaning
  <2> QED
    BY <2>1, <2>2, <2>4, <2>5 DEF Found
<1> QED
  BY <1>1, <1>2

LEMMA PutImplementsPut ==
    ASSUME TableInv, TableInv', EntriesMatch', NEW k \in Key, NEW v \in Val, Put(k, v)
    PROVE  Map!Put(k, v)
<1> DEFINE s == StopSlot(k)
           after == [x \in DOMAIN Entries \cup {k} |->
                       IF x = k THEN v ELSE Entries[x]]
<1>1. k \in Word \ Reserved /\ Stops(k) # {}
  BY KeyAssumption DEF Put
<1>2. /\ s \in Slot /\ keys[s] \in {Sentinel, k}
      /\ keys' = [keys EXCEPT ![s] = k]
      /\ vals' = [vals EXCEPT ![s] = v]
      /\ answer' = Answer(1, 0)
  BY <1>1, StopSlotMeaning DEF Put
<1>3. keys \in [Slot -> Word] /\ vals \in [Slot -> Word] /\ k # Sentinel
  BY <1>1 DEF TableInv, TypeOK, Reserved
<1> HIDE DEF s
<1>4. /\ keys'[s] = k /\ vals'[s] = v /\ s \in Used'
      /\ \A t \in Slot \ {s} : keys'[t] = keys[t] /\ vals'[t] = vals[t]
  BY <1>2, <1>3 DEF Used
<1>5. Map!HasRoomFor(k)
  <2>1. CASE keys[s] = k
    <3>1. s \in Used
      BY <2>1, <1>2, <1>3 DEF Used
    <3> QED
      BY <2>1, <3>1, EntriesOfTable DEF EntriesMatch, Map!HasRoomFor, Map!Cardinality, Cardinality
  <2>2. CASE keys[s] = Sentinel
    <3>1. Used # Slot
      BY <2>2, <1>2 DEF Used
    <3>2. Cardinality(Used) < Capacity
      BY <3>1, SlotsFinite, CapacityAssumption, SMT
    <3> QED
      BY <3>2, EntriesOfTable DEF EntriesMatch, Map!HasRoomFor, Map!Cardinality, Cardinality
  <2> QED
    BY <2>1, <2>2, <1>2
<1>6. /\ DOMAIN Entries' = {keys'[t] : t \in Used'}
      /\ \A t \in Used' : Entries'[keys'[t]] = vals'[t]
  BY DEF EntriesMatch
<1>7. DOMAIN Entries' = DOMAIN Entries \cup {k}
  <2>1. Used' = Used \cup {s}
    BY <1>2, <1>3, <1>4 DEF Used
  <2>2. \A t \in Used : keys'[t] = IF t = s THEN k ELSE keys[t]
    BY <1>4 DEF Used
  <2>3. s \in Used => keys[s] = k
    BY <1>2 DEF Used
  <2> QED
    BY <2>1, <2>2, <2>3, <1>4, <1>6, EntriesOfTable DEF EntriesMatch
<1>8. ASSUME NEW x \in DOMAIN Entries' PROVE Entries'[x] = after[x]
  <2>1. PICK t \in Used' : keys'[t] = x
    BY <1>6, <1>8
  <2>2. Entries'[x] = vals'[t]
    BY <1>6, <2>1
  <2>3. CASE x = k
    <3>1. t = s
      BY <2>1, <2>3, <1>4 DEF TableInv, NoDuplicates
    <3> QED
      BY <2>2, <2>3, <3>1, <1>4
  <2>4. CASE x # k
    <3>1. t # s /\ t \in Used /\ keys[t] = x
      BY <2>1, <2>4, <1>4 DEF Used
    <3>2. Entries[x] = vals[t]
      BY <3>1, EntriesOfTable DEF EntriesMatch
    <3> QED
      BY <2>2, <2>4, <3>1, <3>2, <1>4, <1>7 DEF Used
  <2> QED
    BY <2>3, <2>4
<1>9. Entries' = after
  <2>1. DOMAIN after = DOMAIN Entries'
    BY <1>7
  <2>2. Entries' = [x \in DOMAIN Entries' |-> Entries'[x]]
    BY DEF Entries
  <2> HIDE DEF after
  <2>3. after = [x \in DOMAIN after |-> after[x]]
    BY DEF after
  <2> QED
    BY <1>8, <2>1, <2>2, <2>3
<1> QED
  BY <1>1, <1>2, <1>5, <1>9 DEF Map!Put, Answer, Map!Answer

LEMMA RefusalImplementsRefusal ==
    ASSUME TableInv, NEW k \in Key, PutRefused(k)
    PROVE  Map!PutRefused(k)
<1>1. Entries' = Entries /\ answer' = Answer(0, 0)
  BY DEF PutRefused, Entries, SlotOf, Used
<1>2. CASE k \in Reserved
  BY <1>1, <1>2 DEF Map!PutRefused, Answer, Map!Answer
<1>3. CASE k \notin Reserved
  <2>1. Stops(k) = {} /\ k \in Word
    BY <1>3, KeyAssumption DEF PutRefused
  <2>2. k \notin DOMAIN Entries
    BY <2>1, FoundIsStored
  <2>3. \A s \in Slot : s \in Used
    BY <2>1, ProbesCover DEF Stops, Used
  <2>4. Cardinality(Used) = Capacity
    BY <2>3, SlotsFinite DEF Used
  <2>5. ~ (Cardinality(Used) < Capacity)
    BY <2>4, CapacityAssumption, SMT
  <2> QED
    BY <1>1, <2>2, <2>5, EntriesOfTable
       DEF EntriesMatch, Map!PutRefused, Map!HasRoomFor, Map!Cardinality, Cardinality, Answer, Map!Answer
<1> QED
  BY <1>2, <1>3

LEMMA StepImplementsStep ==
    TableInv /\ TableInv' /\ EntriesMatch' /\ [Next]_vars
        => [Map!Next]_<<Entries, answer>>
<1> SUFFICES ASSUME TableInv, TableInv', EntriesMatch', [Next]_vars
             PROVE  [Map!Next]_<<Entries, answer>>
  OBVIOUS
<1>1. CASE UNCHANGED vars
  BY <1>1 DEF vars, Entries, SlotOf, Used
<1>2. ASSUME NEW k \in Key, NEW v \in Val, Put(k, v) PROVE Map!Next
  BY <1>2, PutImplementsPut DEF Map!Next
<1>3. ASSUME NEW k \in Key, PutRefused(k) PROVE Map!Next
  BY <1>3, RefusalImplementsRefusal DEF Map!Next
<1>4. ASSUME NEW k \in Key, Get(k) PROVE Map!Next
  <2>1. Entries' = Entries
    BY <1>4 DEF Get, Entries, SlotOf, Used
  <2>2. k \in Word
    BY KeyAssumption
  <2>3. Map!Get(k)
    BY <1>4, <2>1, <2>2, FoundIsStored DEF Get, Map!Get, Answer, Map!Answer
  <2> QED
    BY <2>3 DEF Map!Next
<1> QED
  BY <1>1, <1>2, <1>3, <1>4 DEF Next

(* Every sequence of hm_put and hm_get calls is answered as a map of       *)
(* Capacity keys answers it.                                               *)
THEOREM TableIsMap == Spec => RefinesMap
<1>1. Init => Map!Init
  <2> SUFFICES ASSUME Init PROVE Map!Init
    OBVIOUS
  <2>1. Used = {}
    BY DEF Init, Used
  <2>2. Entries = [k \in {} |-> 0]
    BY <2>1 DEF Entries
  <2> QED
    BY <2>2 DEF Init, Map!Init, Answer, Map!Answer
<1> QED
  BY <1>1, StepImplementsStep, EntriesOfTable, TableCorrect, PTL DEF Spec, RefinesMap, Map!Spec
=============================================================================
