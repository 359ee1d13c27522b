------------------------------ MODULE MCReplay ------------------------------
(* Instances of Replay.  Two requests: one allocates an object under an    *)
(* optional parent, one frees an object and carries an fd beside it.  The  *)
(* schema also names an offset beyond the arguments, which the replayer    *)
(* skips.                                                                  *)
EXTENDS ReplayInv, TLC

CONSTANTS f1, f2, h1, h2

MCReq == {"alloc", "free"}
MCFrees == {"free"}
MCLayout ==
    [r \in Req |->
       IF r = "alloc" THEN [ext |-> {0, 4}, in |-> {0}, fds |-> {}, out |-> 4]
                      ELSE [ext |-> {0, 4}, in |-> {0}, fds |-> {4}, out |-> None]]
MCSchema ==
    [r \in Req |->
       IF r = "alloc" THEN [in |-> {0, 8}, fds |-> {8}, out |-> 4]
                      ELSE [in |-> {0}, fds |-> {4}, out |-> 8]]
MCOffset == {0, 4, 8}

ASSUME SchemaComplete

Symmetry == Permutations(Fd) \cup Permutations(Handle)
=============================================================================
