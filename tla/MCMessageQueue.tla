--------------------------- MODULE MCMessageQueue ---------------------------
(***************************************************************************)
(* MessageQueue for TLC: the lab's sizes, and a mailbox that can hold back *)
(* a whole burst for a late client.                                        *)
(***************************************************************************)
EXTENDS MessageQueue

ASSUME HoldsABurst == Slots >= Len(Burst)
=============================================================================
