--------------------------- MODULE InOrderDelivery ---------------------------
(***************************************************************************)
(* What the request and reply path between the two cores promises to the   *)
(* core that sends numbered requests: requests 1, 2, 3, ... are answered   *)
(* at most once and in the order in which they were made; any of them may  *)
(* be lost, and none is answered that was not made.                        *)
(***************************************************************************)
EXTENDS Naturals

VARIABLES
  offered,  (* the number of the latest request                            *)
  pending,  (* requests that are neither answered nor lost                 *)
  last      (* the number of the latest answered request                   *)

Init == offered = 0 /\ pending = {} /\ last = 0

Offer ==
  /\ offered' = offered + 1
  /\ pending' = pending \cup {offered + 1}
  /\ UNCHANGED last

Lose(n) ==
  /\ n \in pending
  /\ pending' = pending \ {n}
  /\ UNCHANGED <<offered, last>>

Answer(n) ==
  /\ n \in pending
  /\ n > last
  /\ \A m \in pending : n <= m
  /\ last' = n
  /\ pending' = pending \ {n}
  /\ UNCHANGED offered

Next == Offer \/ \E n \in pending : Lose(n) \/ Answer(n)

Spec == Init /\ [][Next]_<<offered, pending, last>>
=============================================================================
