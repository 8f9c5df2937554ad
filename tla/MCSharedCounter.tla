--------------------------- MODULE MCSharedCounter ---------------------------
(***************************************************************************)
(* SharedCounter for TLC.  The counter wraps at 2^4 instead of 2^32, which *)
(* meets the flashes at the same place: both leave the remainder 1 by 5.   *)
(***************************************************************************)
EXTENDS SharedCounter

ASSUME WrapsAlike == Modulus % 5 = 1 /\ Modulus > Slots + Depth + 3
=============================================================================
