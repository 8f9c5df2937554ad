------------------------------ MODULE HelloIpc ------------------------------
(***************************************************************************)
(* Lab 01: the M55 host pings the M4 client once per second; the client's  *)
(* interrupt callback queues the ping, its Toggle_Task toggles LED0 and    *)
(* answers with a diagnostic ack that the host's callback logs.            *)
(*                                                                         *)
(* The two cores boot and run independently.  A k_msleep() is only a lower *)
(* bound on the time that passes, so the host may ping at any pace: the    *)
(* model has every order of events that some timing produces, and more.    *)
(***************************************************************************)
EXTENDS Queues

CONSTANTS
  Slots, Mtu,  (* of each direction of the mailbox                         *)
  Depth,       (* of rx_msgq; 4 in the code                                *)
  MaxSeq       (* the bound of the model: the host stops after MaxSeq pings *)

ASSUME HelloIpcAssumption ==
  /\ Slots \in Nat \ {0}
  /\ Depth \in Nat \ {0}
  /\ Mtu \in Nat
  /\ MaxSeq \in Nat

(* sizeof(struct ipc_ping_msg) and sizeof(struct ipc_ack_msg).             *)
PingSize == 4
AckSize == 8

(* A ping is its seq; led_ret is 0, -1000 or another negative value.       *)
LedRet == {"ok", "not_ready", "error"}
Ack == [seq : Nat, led_ret : LedRet]

VARIABLES
  hpc,        (* host main: "boot", "loop", "sending", "halted" (returned)  *)
  seq,        (* msg.seq of host main                                       *)
  pingBox, pingOn,    (* mailbox direction M55 -> M4                        *)
  ackBox, ackOn,      (* mailbox direction M4 -> M55                        *)
  mpc,        (* client main: "boot", "enabled", "ready", "halted"          *)
  led0_ready,
  led0,               (* the LED itself, behind the I2C expander            *)
  rx_msgq, g_msgq_drop_count,
  tpc,        (* Toggle_Task: "off", "get", "toggle", "reply"               *)
  msg, ack,           (* its local variables                                *)
  \* History: what is needed to state the properties, never read by actions.
  lost,       (* pings or acks lost in a failed send or an unheard doorbell *)
  acked,      (* how many acks the host's callback has logged               *)
  lastAck,    (* the seq of the latest of them                              *)
  console,    (* LED0 as the acks on the host's console tell it             *)
  blurred     (* an ack was lost or a toggle failed half-way                *)

hostVars == <<hpc, seq>>
pingVars == <<pingBox, pingOn>>
ackVars == <<ackBox, ackOn>>
bootVars == <<mpc, led0_ready>>
queueVars == <<rx_msgq, g_msgq_drop_count>>
taskVars == <<tpc, msg, ack, led0>>
consoleVars == <<acked, lastAck, console>>
faultVars == <<lost, blurred>>
vars == <<hostVars, pingVars, ackVars, bootVars, queueVars, taskVars,
          consoleVars, faultVars>>

PingChannel == INSTANCE Mailbox WITH box <- pingBox, enabled <- pingOn
AckChannel == INSTANCE Mailbox WITH box <- ackBox, enabled <- ackOn
RxMsgQ == INSTANCE MsgQ WITH q <- rx_msgq

Init ==
  /\ hpc = "boot" /\ seq = 0
  /\ PingChannel!Init
  /\ AckChannel!Init
  /\ mpc = "boot" /\ led0_ready = FALSE
  /\ RxMsgQ!Init /\ g_msgq_drop_count = 0
  /\ tpc = "off" /\ msg = 0 /\ ack = [seq |-> 0, led_ret |-> "ok"]
  /\ led0 = FALSE
  /\ lost = 0 /\ acked = 0 /\ lastAck = 0 /\ console = FALSE
  /\ blurred = FALSE
-----------------------------------------------------------------------------
(* The M55 host.                                                           *)

\* Fault: the ack channel is registered but not enabled before the loop.
HostMain_NoEnable ==
  /\ hpc = "boot"
  /\ PingSize <= Mtu
  /\ hpc' = "loop"
  /\ UNCHANGED <<seq, pingVars, ackVars, bootVars, queueVars, taskVars,
                 consoleVars, faultVars>>

HostMain ==
  /\ hpc = "boot"
  /\ PingSize <= Mtu
  /\ AckChannel!Enable
  /\ hpc' = "loop"
  /\ UNCHANGED <<seq, pingVars, bootVars, queueVars, taskVars, consoleVars,
                 faultVars>>

(* -EINVAL for a small MTU, -EIO when registering or enabling fails.       *)
HostMainFails ==
  /\ hpc = "boot"
  /\ hpc' = "halted"
  /\ UNCHANGED <<seq, pingVars, ackVars, bootVars, queueVars, taskVars,
                 consoleVars, faultVars>>

(* k_msleep() is over (or the loop begins): msg.seq++, then mbox_send_dt().*)
HostPing ==
  /\ hpc = "loop"
  /\ seq < MaxSeq
  /\ seq' = seq + 1
  /\ hpc' = "sending"
  /\ UNCHANGED <<pingVars, ackVars, bootVars, queueVars, taskVars,
                 consoleVars, faultVars>>

SendPing ==
  /\ hpc = "sending"
  /\ PingChannel!Post(seq, PingSize)
  /\ hpc' = "loop"
  /\ UNCHANGED <<seq, ackVars, bootVars, queueVars, taskVars, consoleVars,
                 faultVars>>

(* mbox_send_dt() returns < 0: a warning, and the ping is not sent again.  *)
SendPingFails ==
  /\ hpc = "sending"
  /\ hpc' = "loop"
  /\ lost' = lost + 1
  /\ UNCHANGED <<seq, pingVars, ackVars, bootVars, queueVars, taskVars,
                 consoleVars, blurred>>

(* The console after one more ack: only led_ret = 0 reports a toggle.      *)
MboxAckRxCallback ==
  \E a \in Range(ackBox) :
    /\ AckChannel!Interrupt(a)
    /\ acked' = acked + 1
    /\ lastAck' = a.seq
    /\ console' = IF a.led_ret = "ok" THEN ~console ELSE console
    /\ UNCHANGED <<hostVars, pingVars, bootVars, queueVars, taskVars,
                   faultVars>>
-----------------------------------------------------------------------------
(* The M4 client.                                                          *)

\* Fault: the channel is registered but never enabled.
M4Main_NoEnable ==
  /\ mpc = "boot"
  /\ led0_ready' \in BOOLEAN
  /\ mpc' = "enabled"
  /\ UNCHANGED <<hostVars, pingVars, ackVars, queueVars, taskVars,
                 consoleVars, faultVars>>

(* LED0 may be unready or unconfigurable; main carries on either way.      *)
M4Main ==
  /\ mpc = "boot"
  /\ led0_ready' \in BOOLEAN
  /\ PingChannel!Enable
  /\ mpc' = "enabled"
  /\ UNCHANGED <<hostVars, ackVars, queueVars, taskVars, consoleVars,
                 faultVars>>

(* -EIO: the callback could not be registered or the channel not enabled.  *)
M4MainFails ==
  /\ mpc = "boot"
  /\ led0_ready' \in BOOLEAN
  /\ mpc' = "halted"
  /\ UNCHANGED <<hostVars, pingVars, ackVars, queueVars, taskVars,
                 consoleVars, faultVars>>

(* k_thread_create(): from here the queue has a consumer.                  *)
StartToggleTask ==
  /\ mpc = "enabled"
  /\ mpc' = "ready"
  /\ tpc' = "get"
  /\ UNCHANGED <<hostVars, pingVars, ackVars, led0_ready, queueVars, msg, ack,
                 led0, consoleVars, faultVars>>

LosePing ==
  /\ PingChannel!Discard
  /\ lost' = lost + 1
  /\ UNCHANGED <<hostVars, ackVars, bootVars, queueVars, taskVars,
                 consoleVars, blurred>>

\* Fault: the result of k_msgq_put() is ignored.
MboxRxCallback_NoCount ==
  \E m \in Range(pingBox) :
    /\ PingChannel!Interrupt(m)
    /\ RxMsgQ!Put(m) \/ RxMsgQ!PutFails
    /\ UNCHANGED <<hostVars, ackVars, bootVars, g_msgq_drop_count, taskVars,
                   consoleVars, faultVars>>

MboxRxCallback ==
  \E m \in Range(pingBox) :
    /\ PingChannel!Interrupt(m)
    /\ \/ RxMsgQ!Put(m) /\ UNCHANGED g_msgq_drop_count
       \/ RxMsgQ!PutFails /\ g_msgq_drop_count' = g_msgq_drop_count + 1
    /\ UNCHANGED <<hostVars, ackVars, bootVars, taskVars, consoleVars,
                   faultVars>>

GetPing ==
  /\ tpc = "get"
  /\ \E m \in Range(rx_msgq) : RxMsgQ!Get(m) /\ msg' = m
  /\ tpc' = "toggle"
  /\ UNCHANGED <<hostVars, pingVars, ackVars, bootVars, g_msgq_drop_count,
                 ack, led0, consoleVars, faultVars>>

\* Fault: no else branch, so an LED that is not ready reports led_ret = 0.
ToggleLed_NoElse ==
  /\ tpc = "toggle"
  /\ tpc' = "reply"
  /\ ack' = [seq |-> msg, led_ret |-> "ok"]
  /\ led0' = IF led0_ready THEN ~led0 ELSE led0
  /\ UNCHANGED <<hostVars, pingVars, ackVars, bootVars, queueVars, msg,
                 consoleVars, faultVars>>

(* gpio_pin_toggle_dt() over I2C: after an error nobody knows the LED.     *)
ToggleLed ==
  /\ tpc = "toggle"
  /\ tpc' = "reply"
  /\ \/ /\ led0_ready
        /\ led0' = ~led0
        /\ ack' = [seq |-> msg, led_ret |-> "ok"]
        /\ UNCHANGED blurred
     \/ /\ led0_ready
        /\ led0' \in BOOLEAN
        /\ ack' = [seq |-> msg, led_ret |-> "error"]
        /\ blurred' = TRUE
     \/ /\ ~led0_ready
        /\ ack' = [seq |-> msg, led_ret |-> "not_ready"]
        /\ UNCHANGED <<led0, blurred>>
  /\ UNCHANGED <<hostVars, pingVars, ackVars, bootVars, queueVars, msg,
                 consoleVars, lost>>

\* Fault: the ack may be sent once more after it was accepted.
SendAck_Again ==
  /\ tpc = "reply"
  /\ AckChannel!Post(ack, AckSize)
  /\ tpc' \in {"get", "reply"}
  /\ UNCHANGED <<hostVars, pingVars, bootVars, queueVars, msg, ack, led0,
                 consoleVars, faultVars>>

SendAck ==
  /\ tpc = "reply"
  /\ AckChannel!Post(ack, AckSize)
  /\ tpc' = "get"
  /\ UNCHANGED <<hostVars, pingVars, bootVars, queueVars, msg, ack, led0,
                 consoleVars, faultVars>>

(* mbox_send_dt() returns < 0: a warning, the ack is lost.                 *)
SendAckFails ==
  /\ tpc = "reply"
  /\ tpc' = "get"
  /\ lost' = lost + 1
  /\ blurred' = TRUE
  /\ UNCHANGED <<hostVars, pingVars, ackVars, bootVars, queueVars, msg, ack,
                 led0, consoleVars>>
-----------------------------------------------------------------------------
(* The pings between the host's msg.seq++ and their fate, by where they    *)
(* are: acks on their way back, the ping Toggle_Task works on, the queued  *)
(* ones, those in the mailbox and the one being sent.                      *)
InTask == tpc \in {"toggle", "reply"}

Answering == Range(Seqs(ackBox))
Toggling == IF InTask THEN {msg} ELSE {}
Queued == Range(rx_msgq)
Boxed == Range(pingBox)
Sending == IF hpc = "sending" THEN {seq} ELSE {}

InFlight == Answering \cup Toggling \cup Queued \cup Boxed \cup Sending

(* Where the system may stop: main() of a core has returned and all that   *)
(* could still move has; or the bound of the model is reached.             *)
AtRest ==
  /\ \/ hpc = "halted"
     \/ hpc = "loop" /\ seq = MaxSeq
     \/ hpc = "sending" /\ mpc = "halted"
  /\ mpc \in {"ready", "halted"}
  /\ tpc \in {"off", "get"}
  /\ rx_msgq = <<>> /\ ackBox = <<>>
  /\ pingBox = <<>> \/ mpc = "halted"

Rest == AtRest /\ UNCHANGED vars

Next ==
  \/ HostMain \/ HostMainFails \/ HostPing \/ SendPing \/ SendPingFails
  \/ MboxAckRxCallback
  \/ M4Main \/ M4MainFails \/ StartToggleTask \/ LosePing \/ MboxRxCallback
  \/ GetPing \/ ToggleLed \/ SendAck \/ SendAckFails
  \/ Rest

Spec == Init /\ [][Next]_vars

(* Both cores keep running, interrupts are served, and a send that finds a *)
(* free slot returns.  A send never has to fail, unless it is too large.   *)
Fairness ==
  /\ WF_vars(HostMain \/ HostMainFails)
  /\ WF_vars(HostPing)
  /\ WF_vars(SendPing)
  /\ WF_vars(MboxAckRxCallback)
  /\ WF_vars(M4Main \/ M4MainFails)
  /\ WF_vars(StartToggleTask)
  /\ WF_vars(MboxRxCallback)
  /\ WF_vars(GetPing)
  /\ WF_vars(ToggleLed)
  /\ WF_vars(SendAck)
  /\ WF_vars(AckSize > Mtu /\ SendAckFails)

FairSpec == Spec /\ Fairness
-----------------------------------------------------------------------------
(* Type invariant: every variable of both cores keeps its range, and no    *)
(* buffer exceeds the size the code gives it.                              *)
TypeOK ==
  /\ hpc \in {"boot", "loop", "sending", "halted"}
  /\ seq \in 0..MaxSeq
  /\ pingBox \in Seq(Nat) /\ Len(pingBox) <= Slots /\ pingOn \in BOOLEAN
  /\ ackBox \in Seq(Ack) /\ Len(ackBox) <= Slots /\ ackOn \in BOOLEAN
  /\ mpc \in {"boot", "enabled", "ready", "halted"}
  /\ led0_ready \in BOOLEAN /\ led0 \in BOOLEAN
  /\ rx_msgq \in Seq(Nat) /\ Len(rx_msgq) <= Depth
  /\ g_msgq_drop_count \in Nat
  /\ tpc \in {"off", "get", "toggle", "reply"}
  /\ tpc = "off" <=> mpc # "ready"
  /\ msg \in Nat /\ ack \in Ack
  /\ lost \in Nat /\ acked \in Nat /\ lastAck \in Nat
  /\ console \in BOOLEAN /\ blurred \in BOOLEAN

(* No ping disappears without a trace and none is answered twice: at any   *)
(* moment the pings made so far are the acked ones, the ones counted in    *)
(* g_msgq_drop_count, the lost ones and the ones still on their way.       *)
Accounted ==
  seq = acked + lost + g_msgq_drop_count
          + Len(ackBox) + One(InTask) + Len(rx_msgq) + Len(pingBox)
          + One(hpc = "sending")

(* No ack ever reaches a channel the host has not enabled: the host enables*)
(* its ack channel before it makes the first ping.                         *)
AcksAreHeard == ackBox # <<>> \/ tpc = "reply" => ackOn

(* Pings are never reordered: along the path from the latest logged ack    *)
(* back to the host's counter every ping is younger than those before it,  *)
(* whatever was lost or dropped in between.                                *)
InOrder ==
  /\ Increasing(Seqs(ackBox)) /\ Increasing(rx_msgq) /\ Increasing(pingBox)
  /\ Before({lastAck}, InFlight)
  /\ Before(Answering, Toggling \cup Queued \cup Boxed \cup Sending)
  /\ Before(Toggling, Queued \cup Boxed \cup Sending)
  /\ Before(Queued, Boxed \cup Sending)
  /\ Before(Boxed, Sending)
  /\ \A n \in InFlight \cup {lastAck} : n <= seq
  /\ tpc = "reply" => ack.seq = msg

(* What makes AcksAreHeard inductive: the host pings only after enabling.  *)
HostListens == ackOn \/ (hpc \in {"boot", "halted"} /\ seq = 0)

(* The console diagnoses the LED: while no ack was lost and no toggle      *)
(* failed, and no ack is under way, the acks logged so far tell the state  *)
(* of LED0 on the other core.                                              *)
ConsoleShowsLed ==
  ~blurred /\ ackBox = <<>> /\ tpc # "reply" => console = led0

(* Every ping is eventually acked, dropped or lost: no mix of full         *)
(* mailboxes, a full queue and a late boot leaves both cores waiting for   *)
(* each other.  The exception is a client whose main() returned.           *)
EveryPingSettles ==
  \A n \in 1..MaxSeq : n \in InFlight ~> n \notin InFlight \/ mpc = "halted"

(* The host sees the acks of its pings in order, each at most once, and    *)
(* never the ack of a ping it did not make.                                *)
Service == INSTANCE InOrderDelivery
             WITH offered <- seq, pending <- InFlight, last <- lastAck
ServiceSpec == Service!Spec
=============================================================================
