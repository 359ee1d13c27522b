--------------------------- MODULE MCFindOffsets ----------------------------
(* An instance of FindOffsets: a request that returns a handle beside a    *)
(* status, one with a handle before a word that can look like half of a    *)
(* pointer, one with a pointer and a counter, and one without arguments.   *)
EXTENDS FindOffsets

MCReq == {"alloc", "control", "map", "query"}
MCLayout ==
    [r \in MCReq |->
       IF r = "alloc" THEN 0 :> "handle" @@ 4 :> "status" @@ 8 :> "result"
       ELSE IF r = "control" THEN 0 :> "handle" @@ 4 :> "length"
       ELSE IF r = "map" THEN 0 :> "low" @@ 4 :> "high" @@ 8 :> "counter"
       ELSE <<>>]
MCKnownFds == "query" :> {0}
=============================================================================
