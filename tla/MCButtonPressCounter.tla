------------------------ MODULE MCButtonPressCounter ------------------------
(***************************************************************************)
(* Instances of ButtonPressCounter for TLC.  There are presses enough to   *)
(* fill the mailbox, Send_Task's hands and the queue, and two more: one to *)
(* be dropped and one to be counted after it.                              *)
(***************************************************************************)
EXTENDS ButtonPressCounter

ASSUME EnoughPresses == MaxPresses >= Slots + 1 + Depth + 2
=============================================================================
