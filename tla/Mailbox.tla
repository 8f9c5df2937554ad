------------------------------- MODULE Mailbox -------------------------------
(***************************************************************************)
(* One direction of the SR110 mailbox between the two cores, as the labs   *)
(* use it through Zephyr's mbox API (the driver is not in this repository; *)
(* everything here is what the callers under lab/ rely on).                *)
(*                                                                         *)
(* box holds the messages that mbox_send_dt() accepted and the receiver's  *)
(* interrupt has not fetched yet; enabled says whether the receiver has    *)
(* called mbox_set_enabled_dt(.., 1).  A full box blocks the sender until  *)
(* the receiver drains it: 07_echo_service/lab/remote/src/main.c:5-24.     *)
(***************************************************************************)
EXTENDS Naturals, Sequences

CONSTANTS
  Slots,  (* how many messages the shared memory of one direction holds    *)
  Mtu     (* the largest message mbox_send_dt() takes, mbox_mtu_get_dt()   *)

VARIABLES box, enabled

Init == box = <<>> /\ enabled = FALSE

(* mbox_send_dt() returns >= 0: the message is copied into a free slot.    *)
Post(m, size) ==
  /\ size <= Mtu
  /\ Len(box) < Slots
  /\ box' = Append(box, m)
  /\ UNCHANGED enabled

(* The receiver's rx callback runs, in interrupt context, for message m.   *)
Interrupt(m) ==
  /\ enabled
  /\ box # <<>>
  /\ m = Head(box)
  /\ box' = Tail(box)
  /\ UNCHANGED enabled

(* A doorbell nobody has enabled may go unheard.  The labs fear this loss  *)
(* (03/lab/src/main.c:114, 10/lab/src/main.c:59 sleep to avoid it) but do  *)
(* not know it, so a message to a disabled channel is kept or lost.        *)
Discard ==
  /\ ~enabled
  /\ box # <<>>
  /\ box' = Tail(box)
  /\ UNCHANGED enabled

(* mbox_register_callback_dt() and mbox_set_enabled_dt(.., 1) succeed.     *)
Enable == enabled' = TRUE /\ UNCHANGED box
=============================================================================
