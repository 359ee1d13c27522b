------------------------------ MODULE MCLadder ------------------------------
(* Instances of Ladder: two codes, one of which the table lacks.           *)
EXTENDS Ladder, TLC

CONSTANTS c1, c2, ctl, uvm, tty, p, q

MCLookup == c1 :> "high"
=============================================================================
