--------------------------- MODULE HandleMapSpec ----------------------------
(***************************************************************************)
(* What the replayers need of a handle map: a partial function from        *)
(* captured to live handles, of bounded size, in which the latest value of *)
(* a key wins.  The answer of the last call is part of the state, so that  *)
(* an implementation must also answer as the map does.                     *)
(***************************************************************************)
EXTENDS Naturals, FiniteSets

CONSTANTS
    Key,       \* the arguments callers pass as keys
    Val,       \* the values they store
    Reserved,  \* the keys that are refused
    Capacity   \* how many keys fit

VARIABLES map, answer

(* A call returns 1 or 0; a lookup that returns 1 also yields the value,   *)
(* and one that returns 0 leaves the caller's 0 in place.                  *)
Answer(ret, val) == [ret |-> ret, val |-> val]

Init == map = [k \in {} |-> 0] /\ answer = Answer(0, 0)

HasRoomFor(k) == k \in DOMAIN map \/ Cardinality(DOMAIN map) < Capacity

Put(k, v) ==
    /\ k \notin Reserved /\ HasRoomFor(k)
    /\ map' = [x \in DOMAIN map \cup {k} |-> IF x = k THEN v ELSE map[x]]
    /\ answer' = Answer(1, 0)

PutRefused(k) ==
    /\ k \in Reserved \/ ~HasRoomFor(k)
    /\ answer' = Answer(0, 0)
    /\ UNCHANGED map

Get(k) ==
    /\ answer' = IF k \in DOMAIN map THEN Answer(1, map[k]) ELSE Answer(0, 0)
    /\ UNCHANGED map

Next == \E k \in Key : (\E v \in Val : Put(k, v)) \/ PutRefused(k) \/ Get(k)

Spec == Init /\ [][Next]_<<map, answer>>
=============================================================================
