--------------------------- MODULE MCHandleTable ----------------------------
(* Four slots and four-bit words.  The keys 1, 5 and 9 share a hash slot,  *)
(* 7 hashes to the last slot and wraps, 0 and 15 are reserved; six keys    *)
(* compete for the four slots.                                             *)
EXTENDS HandleTable

MCKey == {0, 1, 2, 5, 7, 9, 11, 15}
MCVal == {3, 4}
=============================================================================
