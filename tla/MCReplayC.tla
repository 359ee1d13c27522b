----------------------------- MODULE MCReplayC ------------------------------
(* Instances of ReplayC: one request allocates, one carries an fd, none    *)
(* frees; objects end with the file they were created through.             *)
EXTENDS ReplayCInv, TLC

CONSTANTS f1, f2, h1, h2

MCReq == {"alloc", "register"}
MCFrees == {}
MCLayout ==
    [r \in Req |->
       IF r = "alloc" THEN [ext |-> {0, 4}, in |-> {0}, fds |-> {}, out |-> 4]
                      ELSE [ext |-> {0}, in |-> {}, fds |-> {0}, out |-> None]]
MCSchema ==
    [r \in Req |->
       IF r = "alloc" THEN [in |-> {0}, fds |-> {}, out |-> 4]
                      ELSE [in |-> {4}, fds |-> {0, 4}, out |-> 4]]
MCOffset == {0, 4}
MCSchemaFile == <<"alloc", "register">>
MCHexNamed == {"alloc"}

ASSUME SchemaComplete

Symmetry == Permutations(Fd) \cup Permutations(Handle)
HandleSymmetry == Permutations(Handle)
=============================================================================
