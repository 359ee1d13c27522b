---------------------------- MODULE FindOffsets -----------------------------
(***************************************************************************)
(* tools/find_handle_offsets.py: two captures of one program are compared  *)
(* record by record, and the words that differ vote for being handles.     *)
(* The lists that are paired are the nvidiactl ioctls of the captures.     *)
(* What a word really is, Layout knows and the tool does not; the result   *)
(* is the Schema of Replay.                                                *)
(***************************************************************************)
EXTENDS Integers, FiniteSets, SequencesExt

CONSTANTS
    Req,
    Layout,        \* request -> [offset -> kind of word]
    KnownFds,      \* KNOWN_FD_OFFSETS: request -> offsets
    MinVaryCount,  \* MIN_VARY_COUNT
    VaryPercent,   \* MIN_VARY_FRACTION, in percent
    MaxPairs,      \* bound: records paired
    None

(* A word before the call in runs A and B, and after it in run A.          *)
Same(v)   == [a |-> v, b |-> v, after |-> v]
Differ(v) == [a |-> v, b |-> v + 1, after |-> v]
Written   == [a |-> 0, b |-> 0, after |-> 1]

(* looks_like_ptr_high: 0x7e00..0x7fff.  Libraries, mappings and stacks    *)
(* lie there (0x7f00 is 32512); the heap and the data of a program that is *)
(* loaded anywhere do not (0x5555 is 21845).                               *)
PtrHigh == 32256..32767

(* What the two runs may hold in a word of each kind, at the same call.    *)
(* low and high are the halves of a pointer, status a word that is no      *)
(* handle and that the driver writes.                                      *)
WordsOf == [constant |-> {Same(0), Same(1)},
            length   |-> {Same(0), Same(1), Same(32512)},
            handle   |-> {Same(0), Same(1), Differ(1)},
            counter  |-> {Same(1), Differ(1)},
            result   |-> {Same(0), Written},
            status   |-> {Same(0), Written},
            low      |-> {Same(0), Differ(1)},
            high     |-> {Same(0), Same(32512), Differ(32512), Same(21845)}]
Kind == DOMAIN WordsOf
Word == UNION {WordsOf[k] : k \in Kind}

Offset == UNION {DOMAIN Layout[r] : r \in Req}

ASSUME LayoutAssumption ==
    /\ Offset \subseteq Nat /\ IsFiniteSet(Offset)
    /\ \A r \in Req : /\ Layout[r] \in [DOMAIN Layout[r] -> Kind]
                      /\ \A o \in DOMAIN Layout[r] :
                           Layout[r][o] = "low" =>
                             o + 4 \in DOMAIN Layout[r] /\ Layout[r][o + 4] = "high"
ASSUME KnownAssumption == DOMAIN KnownFds \subseteq Req
ASSUME NumberAssumption ==
    /\ MinVaryCount \in Nat \ {0} /\ VaryPercent \in 0..100 /\ MaxPairs \in Nat
    /\ None \notin Offset

(* The buffers of a pair of records: of the same call, where a pointer is  *)
(* null or not as a whole; of one call of run A and another of run B.      *)
SameCall == [r \in Req |->
    {w \in [DOMAIN Layout[r] -> Word] :
        \A o \in DOMAIN Layout[r] :
            /\ w[o] \in WordsOf[Layout[r][o]]
            /\ Layout[r][o] = "low" => (w[o].a = 0 <=> w[o + 4].a = 0)}]
OtherCall == [r \in Req |->
    {[o \in DOMAIN Layout[r] |-> [v[o] EXCEPT !.b = w[o].b]] :
        v \in SameCall[r], w \in SameCall[r]}]

VARIABLES
    phase,            \* "pairing", then "done"
    aligned,          \* the records paired so far are of the same calls
    total_counts, candidate_counts, zero_before_cnt, zero_to_nonzero,
    order,            \* the offsets of zero_to_nonzero in dict order
    result,           \* what is written to handle_offsets.json
    told,             \* history: how often a handle could be told from its
                      \* two values, per request and offset
    misled            \* history: how often a word that is no handle looked
                      \* like one, per request and offset

counters == <<total_counts, candidate_counts, zero_before_cnt, zero_to_nonzero, order>>
vars == <<phase, aligned, counters, result, told, misled>>

NoVotes == [r \in Req |-> [o \in Offset |-> 0]]

Init ==
    /\ phase = "pairing" /\ aligned = TRUE
    /\ total_counts = [r \in Req |-> 0]
    /\ candidate_counts = NoVotes
    /\ zero_before_cnt = NoVotes /\ zero_to_nonzero = NoVotes
    /\ order = [r \in Req |-> <<>>]
    /\ result = <<>>
    /\ told = NoVotes /\ misled = NoVotes

NumPairs == FoldSet(LAMBDA r, n : total_counts[r] + n, 0, Req)
-----------------------------------------------------------------------------
(* Mutant: there is no pointer filter.                                      *)
PtrNever(w, o) == FALSE

is_ptr_lower_half(w, o) ==
    o + 4 \in DOMAIN w /\ (w[o + 4].a \in PtrHigh \/ w[o + 4].b \in PtrHigh)

Candidate(w, o) ==
    w[o].a # w[o].b /\ w[o].a # 0 /\ w[o].b # 0 /\ ~is_ptr_lower_half(w, o)

Count(cnt, r, offsets) ==
    [cnt EXCEPT ![r] = [o \in Offset |-> @[o] + IF o \in offsets THEN 1 ELSE 0]]

(* Mutant: an offset enters the dict again each time it is counted.        *)
NewAlways(r, written) == written

(* Mutant: an offset enters the dict only with its first zero.             *)
NewAtFirstZero(r, written) == {o \in written : zero_before_cnt[r][o] = 0}

(* The offsets that enter the dict: not counted before.                    *)
NewOffsets(r, written) == {o \in written : zero_to_nonzero[r][o] = 0}

(* In the order in which the loop comes to them.                           *)
Ascending(S) ==
    CHOOSE s \in [1..Cardinality(S) -> S] : \A i, j \in DOMAIN s : i < j => s[i] < s[j]

(* One iteration of the loop over pairs whose requests agree; a buffer     *)
(* without a whole word is not counted.                                    *)
Compare(r, w) ==
    LET words   == DOMAIN w
        zero    == {o \in words : w[o].a = 0}
        written == {o \in zero : w[o].after # 0}
    IN /\ phase = "pairing" /\ words # {}
       /\ total_counts' = [total_counts EXCEPT ![r] = @ + 1]
       /\ candidate_counts' = Count(candidate_counts, r, {o \in words : Candidate(w, o)})
       /\ zero_before_cnt' = Count(zero_before_cnt, r, zero)
       /\ zero_to_nonzero' = Count(zero_to_nonzero, r, written)
       /\ order' = [order EXCEPT ![r] = @ \o Ascending(NewOffsets(r, written))]
       /\ UNCHANGED <<phase, result>>

(* A handle can be told when its values differ and the word after it does  *)
(* not look like the upper half of a pointer.                              *)
Tellable(r, w) ==
    {o \in DOMAIN w : /\ Layout[r][o] = "handle" /\ w[o].a # w[o].b
                      /\ ~(o + 4 \in DOMAIN w /\ w[o + 4].a \in PtrHigh)}

(* A pointer misleads when it differs and points where the filter knows of *)
(* no pointers.                                                            *)
Misleading(r, w) ==
    {o \in DOMAIN w : /\ Layout[r][o] = "low" /\ w[o].a # w[o].b
                      /\ w[o + 4].a \notin PtrHigh}

(* The tool goes on to the next position of both lists, the runs still     *)
(* doing the same.                                                         *)
PairSameCall ==
    \E r \in Req : \E w \in SameCall[r] :
        /\ aligned /\ NumPairs < MaxPairs
        /\ Compare(r, w)
        /\ told' = Count(told, r, Tellable(r, w))
        /\ misled' = Count(misled, r, Misleading(r, w))
        /\ UNCHANGED aligned

(* One run made a call that the other did not, or lost a line of its       *)
(* capture: from here on positions pair different calls.                   *)
Diverge ==
    /\ phase = "pairing" /\ aligned
    /\ aligned' = FALSE
    /\ UNCHANGED <<phase, counters, result, told, misled>>

(* That is not noticed while the requests happen to be the same.  Any word *)
(* but a handle misleads then, if the two calls differ in it and neither   *)
(* has a zero there.                                                       *)
Unrelated(r, w) ==
    {o \in DOMAIN w : /\ Layout[r][o] # "handle"
                      /\ w[o].a # w[o].b /\ w[o].a # 0 /\ w[o].b # 0}
PairOtherCall ==
    \E r \in Req : \E w \in OtherCall[r] :
        /\ ~aligned /\ NumPairs < MaxPairs
        /\ Compare(r, w)
        /\ misled' = Count(misled, r, Unrelated(r, w))
        /\ UNCHANGED <<aligned, told>>
-----------------------------------------------------------------------------
Enough(n, total) == n >= MinVaryCount /\ 100 * n >= total * VaryPercent

(* Mutant: more than the least number is asked for.                        *)
MoreThanEnough(r) ==
    {o \in Offset : /\ Enough(candidate_counts[r][o], total_counts[r])
                    /\ candidate_counts[r][o] > MinVaryCount}

handle_offsets(r) == {o \in Offset : Enough(candidate_counts[r][o], total_counts[r])}

OftenWritten(r, o) == 2 * zero_to_nonzero[r][o] >= zero_before_cnt[r][o]

(* Mutant: the first offset of the dict is taken, whatever its score.      *)
FirstOffset(r) ==
    FoldLeft(LAMBDA best, o : IF best = None /\ OftenWritten(r, o) THEN o ELSE best,
             None, order[r])

(* The first offset with the highest score, among those written in half or *)
(* more of the records in which they were zero.                            *)
output_handle_offset(r) ==
    LET Better(best, o) ==
            IF /\ OftenWritten(r, o)
               /\ best = None \/ zero_to_nonzero[r][o] > zero_to_nonzero[r][best]
            THEN o ELSE best
    IN FoldLeft(Better, None, order[r])

(* The shorter list ends, or two requests differ, which ends the pairing.  *)
(* An entry per request that was counted, and one per known request.       *)
Write ==
    /\ phase = "pairing" /\ phase' = "done"
    /\ result' = [r \in {q \in Req : total_counts[q] > 0} \cup DOMAIN KnownFds |->
                    [in  |-> handle_offsets(r),
                     fds |-> IF r \in DOMAIN KnownFds THEN KnownFds[r] ELSE {},
                     out |-> output_handle_offset(r)]]
    /\ UNCHANGED <<aligned, counters, told, misled>>

Done == phase = "done" /\ UNCHANGED vars

Next == PairSameCall \/ Diverge \/ PairOtherCall \/ Write \/ Done

Spec == Init /\ [][Next]_vars
-----------------------------------------------------------------------------
TypeOK ==
    /\ phase \in {"pairing", "done"} /\ aligned \in BOOLEAN
    /\ total_counts \in [Req -> Nat]
    /\ {candidate_counts, zero_before_cnt, zero_to_nonzero, told, misled}
         \subseteq [Req -> [Offset -> Nat]]
    /\ order \in [Req -> Seq(Offset)]
    /\ \A r \in Req : Len(order[r]) = Cardinality(ToSet(order[r]))

KindAt(r, o) == IF o \in DOMAIN Layout[r] THEN Layout[r][o] ELSE "constant"

(* A constant, a length, a word the driver writes and the lower half of a  *)
(* pointer are taken for a handle only if they looked like one as often as *)
(* a handle must: by pairs of different calls and by pointers the filter   *)
(* does not know.  A pair that looks wrong now and then does no harm.      *)
(* Counters, and the upper halves of pointers, may be taken at any time.   *)
OnlyVaryingWords ==
    \A r \in DOMAIN result : \A o \in result[r].in :
        \/ KindAt(r, o) \in {"handle", "counter", "high"}
        \/ Enough(misled[r][o], total_counts[r])

(* A handle that could be told often enough is found, whatever the other   *)
(* records of its request held, those of different calls included: the     *)
(* contract of the replayers' schema.                                      *)
HandlesFound ==
    \A r \in DOMAIN result : \A o \in Offset :
        Enough(told[r][o], total_counts[r]) => o \in result[r].in

(* A result that was written each time is not passed over, whatever was    *)
(* paired with it, but for a word at a lower offset that the driver wrote  *)
(* each time too: of those the replayers learn handles from the lowest.    *)
OutputFound ==
    \A r \in DOMAIN result : \A o \in Offset :
        /\ KindAt(r, o) = "result"
        /\ zero_to_nonzero[r][o] > 0
        /\ zero_to_nonzero[r][o] = total_counts[r]
        => LET out == result[r].out
           IN /\ KindAt(r, out) \in {"result", "status"}
              /\ zero_to_nonzero[r][out] = total_counts[r]
              /\ \A q \in Offset : zero_to_nonzero[r][q] = total_counts[r] => out <= q
-----------------------------------------------------------------------------
(* Why all this holds.  A word that does not vary has a vote only where it *)
(* misled, a handle has one for each time it could be told, and only words *)
(* that the driver writes are seen to be written.                          *)
VotesInv ==
    \A r \in Req : \A o \in Offset :
        /\ KindAt(r, o) \notin {"handle", "counter", "high"}
             => candidate_counts[r][o] <= misled[r][o]
        /\ told[r][o] <= candidate_counts[r][o]
        /\ zero_to_nonzero[r][o] > 0 => KindAt(r, o) \in {"result", "status"}

(* A word is written only where it was zero; the dict has each offset that *)
(* was ever written, once, and those that are written each time came into  *)
(* it with the first record, in the order of the loop.                     *)
WrittenInv ==
    \A r \in Req :
        /\ \A o \in Offset :
             zero_to_nonzero[r][o] <= zero_before_cnt[r][o]
               /\ zero_before_cnt[r][o] <= total_counts[r]
        /\ ToSet(order[r]) = {o \in Offset : zero_to_nonzero[r][o] > 0}
        /\ \A i, j \in DOMAIN order[r] : i # j => order[r][i] # order[r][j]
        /\ \A i, j \in DOMAIN order[r] :
             /\ i < j
             /\ zero_to_nonzero[r][order[r][i]] = total_counts[r]
             /\ zero_to_nonzero[r][order[r][j]] = total_counts[r]
             => order[r][i] < order[r][j]

(* What is written follows the votes.                                      *)
ResultInv ==
    /\ phase = "pairing" => result = <<>>
    /\ phase = "done" =>
         /\ DOMAIN result \subseteq Req
         /\ \A r \in DOMAIN result :
              result[r].in = handle_offsets(r) /\ result[r].out = output_handle_offset(r)

FindInv == TypeOK /\ VotesInv /\ WrittenInv /\ ResultInv
=============================================================================
