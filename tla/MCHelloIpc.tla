----------------------------- MODULE MCHelloIpc -----------------------------
(***************************************************************************)
(* Instances of HelloIpc for TLC.                                          *)
(*                                                                         *)
(* MCMaxSeq is the smallest number of pings that fills every place at once:*)
(* both mailboxes, the queue, Toggle_Task's hands, the sender's, and one   *)
(* more to be dropped.                                                     *)
(***************************************************************************)
EXTENDS HelloIpc

MCMaxSeq == 2 * Slots + Depth + 3

ASSUME MaxSeqFillsEverything == MaxSeq >= MCMaxSeq
=============================================================================
