----------------------------- MODULE MCEvaluate -----------------------------
(* Harnesses of up to two programs whose file names differ or not; replays *)
(* with at most one skip, offset files with at most two common requests.   *)
EXTENDS Evaluate

CONSTANTS matmul, vector_add

MCStems == {matmul, vector_add}
=============================================================================
