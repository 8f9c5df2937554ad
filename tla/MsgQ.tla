-------------------------------- MODULE MsgQ --------------------------------
(***************************************************************************)
(* A Zephyr k_msgq (the kernel is not in this repository), as the labs use *)
(* it to hand messages from an interrupt callback to a worker thread:      *)
(* K_MSGQ_DEFINE(q, size, Depth, align), k_msgq_put(.., K_NO_WAIT) in the  *)
(* callback, k_msgq_get(.., K_FOREVER) in the worker.                      *)
(***************************************************************************)
EXTENDS Naturals, Sequences

CONSTANT Depth
VARIABLE q

Init == q = <<>>

Full == Len(q) >= Depth

(* k_msgq_put(.., K_NO_WAIT) returns 0.                                    *)
Put(m) == ~Full /\ q' = Append(q, m)

(* k_msgq_put(.., K_NO_WAIT) returns -ENOMSG: the message is not stored.   *)
PutFails == Full /\ UNCHANGED q

(* k_msgq_get(.., K_FOREVER) returns: the caller now holds m.              *)
Get(m) ==
  /\ q # <<>>
  /\ m = Head(q)
  /\ q' = Tail(q)
=============================================================================
