------------------------- MODULE MCStructuredCommand -------------------------
(***************************************************************************)
(* Instances of StructuredCommand for TLC.                                 *)
(***************************************************************************)
EXTENDS StructuredCommand

(* The host asks twice, once after a whole cycle, and there are commands   *)
(* enough to fill mailbox, queue and Cmd_Task and lose one more.           *)
ASSUME TwoQuestions == MaxSteps >= 8
ASSUME EnoughCommands == MaxSteps >= Slots + Depth + 2
=============================================================================
