---------------------------- MODULE MCButtonPong ----------------------------
(***************************************************************************)
(* ButtonPong for TLC: presses enough to fill the mailbox, Button_Task's   *)
(* hands and the queue, and two more.                                      *)
(***************************************************************************)
EXTENDS ButtonPong

ASSUME EnoughPresses == MaxPresses >= Slots + 1 + Depth + 2
=============================================================================
