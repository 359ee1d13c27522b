---------------------------- MODULE HandleTable -----------------------------
(***************************************************************************)
(* replay/handle_map.h: the open-addressed hash table in which replay.c    *)
(* keeps live handles under captured ones.  Entries are never removed.     *)
(***************************************************************************)
EXTENDS Naturals, FiniteSets

CONSTANTS
    Capacity,    \* HM_CAPACITY
    Modulus,     \* 2^32: keys and values are unsigned words
    Multiplier,  \* 2654435769
    Key, Val     \* the arguments callers pass

Word == 0..(Modulus - 1)
Slot == 0..(Capacity - 1)

(* HM_SENTINEL, the key of an empty slot: all bits set.                    *)
Sentinel == Modulus - 1
Reserved == {0, Sentinel}

ASSUME CapacityAssumption == Capacity \in Nat \ {0}
ASSUME ModulusAssumption == Modulus \in Nat \ {0, 1}
ASSUME MultiplierAssumption == Multiplier \in Nat
ASSUME KeyAssumption == Key \subseteq Word /\ Val \subseteq Word

VARIABLES
    keys, vals,  \* the table's arrays
    count,       \* its number of entries
    answer       \* what the last call returned: hm_put, hm_get and *val_out

vars == <<keys, vals, count, answer>>
-----------------------------------------------------------------------------
Answer(ret, val) == [ret |-> ret, val |-> val]

(* The product wraps at the word size.                                     *)
Hash(k) == ((k * Multiplier) % Modulus) % Capacity
Probe(k, i) == (Hash(k) + i) % Capacity

(* The loop stops at the first probe that finds the key or an empty slot.  *)
Stops(k) == {i \in Slot : keys[Probe(k, i)] \in {Sentinel, k}}
FirstStop(k) == CHOOSE i \in Stops(k) : \A j \in Stops(k) : i <= j
StopSlot(k) == Probe(k, FirstStop(k))

Init ==
    /\ keys = [s \in Slot |-> Sentinel]
    /\ vals = [s \in Slot |-> 0]
    /\ count = 0
    /\ answer = Answer(0, 0)

(* Mutants: only an empty slot is taken, so that a known key gets a second *)
(* entry; the entry is counted again when its value is replaced.           *)
PutAlwaysNew(k, v) ==
    LET Empty == {i \in Slot : keys[Probe(k, i)] = Sentinel}
    IN /\ k \notin Reserved /\ Empty # {}
       /\ LET s == Probe(k, CHOOSE i \in Empty : \A j \in Empty : i <= j)
          IN /\ count' = count + 1
             /\ keys' = [keys EXCEPT ![s] = k]
             /\ vals' = [vals EXCEPT ![s] = v]
       /\ answer' = Answer(1, 0)

PutCountsAgain(k, v) ==
    /\ k \notin Reserved /\ Stops(k) # {}
    /\ count' = count + 1
    /\ keys' = [keys EXCEPT ![StopSlot(k)] = k]
    /\ vals' = [vals EXCEPT ![StopSlot(k)] = v]
    /\ answer' = Answer(1, 0)

Put(k, v) ==
    /\ k \notin Reserved /\ Stops(k) # {}
    /\ count' = IF keys[StopSlot(k)] = Sentinel THEN count + 1 ELSE count
    /\ keys' = [keys EXCEPT ![StopSlot(k)] = k]
    /\ vals' = [vals EXCEPT ![StopSlot(k)] = v]
    /\ answer' = Answer(1, 0)

(* A reserved key, or a full table without the key.                        *)
PutRefused(k) ==
    /\ k \in Reserved \/ Stops(k) = {}
    /\ answer' = Answer(0, 0)
    /\ UNCHANGED <<keys, vals, count>>

(* A search misses on a reserved key, on an empty slot before the key, and *)
(* when every slot was probed.                                             *)
Found(k) == k \notin Reserved /\ Stops(k) # {} /\ keys[StopSlot(k)] = k

Get(k) ==
    /\ answer' = IF Found(k) THEN Answer(1, vals[StopSlot(k)]) ELSE Answer(0, 0)
    /\ UNCHANGED <<keys, vals, count>>

Next ==
    \E k \in Key :
        \/ \E v \in Val : Put(k, v)
        \/ PutRefused(k)
        \/ Get(k)

Spec == Init /\ [][Next]_vars
-----------------------------------------------------------------------------
Used == {s \in Slot : keys[s] # Sentinel}

TypeOK ==
    /\ keys \in [Slot -> Word]
    /\ vals \in [Slot -> Word]
    /\ count \in Nat
    /\ answer \in [ret : {0, 1}, val : Word]

(* A key is in one slot only, and every probe before that slot meets a     *)
(* used slot: the search for a key cannot end before its entry.            *)
NoDuplicates == \A s, t \in Used : keys[s] = keys[t] => s = t

EntriesReachable ==
    \A s \in Used : \E i \in Slot :
        /\ Probe(keys[s], i) = s
        /\ \A j \in 0..(i - 1) : Probe(keys[s], j) \in Used

NoReservedKeys == \A s \in Used : keys[s] # 0

CountIsUsed == count = Cardinality(Used)

TableInv == TypeOK /\ NoDuplicates /\ EntriesReachable /\ NoReservedKeys /\ CountIsUsed

(* The table answers every sequence of calls as a bounded map does: what   *)
(* was put last under a key is what is found, and only a full table        *)
(* refuses a new key.                                                      *)
SlotOf(k) == CHOOSE s \in Used : keys[s] = k
Entries == [k \in {keys[s] : s \in Used} |-> vals[SlotOf(k)]]
Map == INSTANCE HandleMapSpec WITH map <- Entries
RefinesMap == Map!Spec
=============================================================================
