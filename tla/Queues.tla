------------------------------- MODULE Queues -------------------------------
(***************************************************************************)
(* Vocabulary for properties about numbered messages that travel through a *)
(* chain of FIFO queues.                                                   *)
(***************************************************************************)
EXTENDS Naturals, Sequences, Functions

(* The numbers in queue s, oldest first, rise.                             *)
Increasing(s) == \A i, j \in DOMAIN s : i < j => s[i] < s[j]

(* Every number in S is smaller than every number in T.                    *)
Before(S, T) == \A m \in S, n \in T : m < n

(* The numbers of a queue of records with a field seq.                     *)
Seqs(s) == [i \in DOMAIN s |-> s[i].seq]

(* How many messages a place for at most one message holds.                *)
One(p) == IF p THEN 1 ELSE 0
=============================================================================
