------------------------------ MODULE PingPong ------------------------------
(***************************************************************************)
(* Lab 03: the host's main() sends one ping; from then on the client       *)
(* answers every ping with a pong of the same seq and the host answers     *)
(* every pong with the ping of the next seq.  Both sides hand messages     *)
(* from the interrupt callback to a worker thread through a k_msgq.        *)
(***************************************************************************)
EXTENDS Queues

CONSTANTS
  Slots, Mtu,  (* of each direction of the mailbox                         *)
  Depth,       (* of each rx_msgq; 4 in the code                           *)
  Modulus      (* seq wraps around here; 2^32 in the code                  *)

ASSUME PingPongAssumption ==
  /\ Slots \in Nat \ {0}
  /\ Depth \in Nat \ {0}
  /\ Modulus \in Nat \ {0} /\ Modulus % 2 = 0
  /\ Mtu \in Nat /\ Mtu >= 4

MsgSize == 4  (* sizeof(struct ipc_pingpong_msg): its uint32_t seq         *)

VARIABLES
  hmain,    (* host main: "boot", "settle", "done", "halted" (returned)     *)
  htask,    (* host Pong_Task: "off", "get", "send" (asleep or in send_ping) *)
  hmsg, hq, (* its local msg and the host's rx_msgq                         *)
  pingBox, pingOn,  (* mailbox direction M55 -> M4                          *)
  pongBox, pongOn,  (* mailbox direction M4 -> M55                          *)
  cmain,    (* client main: "boot", "enabled", "ready", "halted"            *)
  ctask,    (* client Pong_Task: "off", "get", "toggle", "send"             *)
  cmsg, cq, (* its local msg and the client's rx_msgq                       *)
  led0,
  \* History, never read by actions.
  lastPing, (* the seq of the latest call of send_ping()                    *)
  lost,     (* a message was lost: send failed, doorbell unheard, queue full *)
  ledError  (* a toggle failed                                              *)

hostVars == <<hmain, htask, hmsg, hq>>
clientVars == <<cmain, ctask, cmsg, cq, led0, ledError>>
pingVars == <<pingBox, pingOn>>
pongVars == <<pongBox, pongOn>>
vars == <<hostVars, clientVars, pingVars, pongVars, lastPing, lost>>

PingChannel == INSTANCE Mailbox WITH box <- pingBox, enabled <- pingOn
PongChannel == INSTANCE Mailbox WITH box <- pongBox, enabled <- pongOn
HostMsgQ == INSTANCE MsgQ WITH q <- hq
ClientMsgQ == INSTANCE MsgQ WITH q <- cq

Init ==
  /\ hmain = "boot" /\ htask = "off" /\ hmsg = 0 /\ HostMsgQ!Init
  /\ PingChannel!Init /\ PongChannel!Init
  /\ cmain = "boot" /\ ctask = "off" /\ cmsg = 0 /\ ClientMsgQ!Init
  /\ led0 = FALSE
  /\ lastPing = 0 /\ lost = FALSE /\ ledError = FALSE
-----------------------------------------------------------------------------
(* The M55 host.                                                           *)

(* Register, enable, create Pong_Task; then k_msleep(500).  No message can *)
(* arrive in between, for the client only answers.                         *)
HostMain ==
  /\ hmain = "boot"
  /\ PongChannel!Enable
  /\ htask' = "get"
  /\ hmain' = "settle"
  /\ UNCHANGED <<hmsg, hq, clientVars, pingVars, lastPing, lost>>

HostMainFails ==
  /\ hmain = "boot"
  /\ hmain' = "halted"
  /\ UNCHANGED <<htask, hmsg, hq, clientVars, pingVars, pongVars, lastPing,
                 lost>>

(* send_ping(): a failed mbox_send_dt() is logged and forgotten.           *)
SendPing(seq) ==
  /\ lastPing' = seq
  /\ \/ PingChannel!Post(seq, MsgSize) /\ UNCHANGED lost
     \/ lost' = TRUE /\ UNCHANGED pingVars

\* Fault: main() goes on pinging every 500 ms.
FirstPing_Repeats ==
  /\ hmain = "settle"
  /\ SendPing(1)
  /\ hmain' \in {"settle", "done"}
  /\ UNCHANGED <<htask, hmsg, hq, clientVars, pongVars>>

\* Fault: the first ping carries an uncounted seq.
FirstPing_Zero ==
  /\ hmain = "settle"
  /\ SendPing(0)
  /\ hmain' = "done"
  /\ UNCHANGED <<htask, hmsg, hq, clientVars, pongVars>>

FirstPing ==
  /\ hmain = "settle"
  /\ SendPing(1)
  /\ hmain' = "done"
  /\ UNCHANGED <<htask, hmsg, hq, clientVars, pongVars>>

HostRxCallback ==
  \E m \in Range(pongBox) :
    /\ PongChannel!Interrupt(m)
    /\ \/ HostMsgQ!Put(m) /\ UNCHANGED lost
       \/ HostMsgQ!PutFails /\ lost' = TRUE
    /\ UNCHANGED <<hmain, htask, hmsg, clientVars, pingVars, lastPing>>

GetPong ==
  /\ htask = "get"
  /\ \E m \in Range(hq) : HostMsgQ!Get(m) /\ hmsg' = m
  /\ htask' = "send"
  /\ UNCHANGED <<hmain, clientVars, pingVars, pongVars, lastPing, lost>>

NextPing ==
  /\ htask = "send"
  /\ SendPing((hmsg + 1) % Modulus)
  /\ htask' = "get"
  /\ UNCHANGED <<hmain, hmsg, hq, clientVars, pongVars>>
-----------------------------------------------------------------------------
(* The M4 client.                                                          *)

ClientMain ==
  /\ cmain = "boot"
  /\ PingChannel!Enable
  /\ cmain' = "enabled"
  /\ UNCHANGED <<hostVars, ctask, cmsg, cq, led0, ledError, pongVars, lastPing,
                 lost>>

(* -ENODEV or -EIO: no LED0, or no callback, or no enabled channel.        *)
ClientMainFails ==
  /\ cmain = "boot"
  /\ cmain' = "halted"
  /\ UNCHANGED <<hostVars, ctask, cmsg, cq, led0, ledError, pingVars, pongVars,
                 lastPing, lost>>

\* Fault: creating the thread clears what the queue already holds.
StartPongTask_Purges ==
  /\ cmain = "enabled"
  /\ cmain' = "ready"
  /\ ctask' = "get"
  /\ cq' = <<>>
  /\ UNCHANGED <<hostVars, cmsg, led0, ledError, pingVars, pongVars, lastPing,
                 lost>>

(* k_thread_create().                                                      *)
StartPongTask ==
  /\ cmain = "enabled"
  /\ cmain' = "ready"
  /\ ctask' = "get"
  /\ UNCHANGED <<hostVars, cmsg, cq, led0, ledError, pingVars, pongVars,
                 lastPing, lost>>

LosePing ==
  /\ PingChannel!Discard
  /\ lost' = TRUE
  /\ UNCHANGED <<hostVars, clientVars, pongVars, lastPing>>

ClientRxCallback ==
  \E m \in Range(pingBox) :
    /\ PingChannel!Interrupt(m)
    /\ \/ ClientMsgQ!Put(m) /\ UNCHANGED lost
       \/ ClientMsgQ!PutFails /\ lost' = TRUE
    /\ UNCHANGED <<hostVars, cmain, ctask, cmsg, led0, ledError, pongVars,
                   lastPing>>

GetPing ==
  /\ ctask = "get"
  /\ \E m \in Range(cq) : ClientMsgQ!Get(m) /\ cmsg' = m
  /\ ctask' = "toggle"
  /\ UNCHANGED <<hostVars, cmain, led0, ledError, pingVars, pongVars, lastPing,
                 lost>>

(* The result of gpio_pin_toggle_dt() is ignored; after an error nobody    *)
(* knows the LED.                                                          *)
ToggleLed ==
  /\ ctask = "toggle"
  /\ ctask' = "send"
  /\ \/ led0' = ~led0 /\ UNCHANGED ledError
     \/ led0' \in BOOLEAN /\ ledError' = TRUE
  /\ UNCHANGED <<hostVars, cmain, cmsg, cq, pingVars, pongVars, lastPing, lost>>

\* Fault: the pong already carries the next seq.
SendPong_NextSeq ==
  /\ ctask = "send"
  /\ \/ PongChannel!Post((cmsg + 1) % Modulus, MsgSize) /\ UNCHANGED lost
     \/ lost' = TRUE /\ UNCHANGED pongVars
  /\ ctask' = "get"
  /\ UNCHANGED <<hostVars, cmain, cmsg, cq, led0, ledError, pingVars, lastPing>>

SendPong ==
  /\ ctask = "send"
  /\ \/ PongChannel!Post(cmsg, MsgSize) /\ UNCHANGED lost
     \/ lost' = TRUE /\ UNCHANGED pongVars
  /\ ctask' = "get"
  /\ UNCHANGED <<hostVars, cmain, cmsg, cq, led0, ledError, pingVars, lastPing>>
-----------------------------------------------------------------------------
(* The ball is the one message of the rally, wherever it is.               *)
AtHost == One(hmain \in {"boot", "settle"}) + Len(pongBox) + Len(hq)
            + One(htask = "send")
Outbound == Len(pingBox) + Len(cq) + One(ctask = "toggle")
AtClient == Outbound + One(ctask = "send")

(* The rally may stop: the ball is lost, a core's main() has returned, and *)
(* nothing else is left to do.                                             *)
AtRest ==
  /\ hmain \in {"done", "halted"} /\ htask \in {"off", "get"} /\ hq = <<>>
  /\ cmain \in {"ready", "halted"} /\ ctask \in {"off", "get"} /\ cq = <<>>
  /\ pongBox = <<>>
  /\ \/ pingBox = <<>> /\ (lost \/ hmain = "halted")
     \/ cmain = "halted"

Rest == AtRest /\ UNCHANGED vars

Next ==
  \/ HostMain \/ HostMainFails \/ FirstPing \/ HostRxCallback \/ GetPong
  \/ NextPing
  \/ ClientMain \/ ClientMainFails \/ StartPongTask \/ LosePing
  \/ ClientRxCallback \/ GetPing \/ ToggleLed \/ SendPong
  \/ Rest

Spec == Init /\ [][Next]_vars

(* Threads run, sleeps end, interrupts are served, boots end, and a send   *)
(* that finds a free slot returns.  A send never has to fail.              *)
Fairness ==
  /\ WF_vars(HostMain \/ HostMainFails)
  /\ WF_vars(FirstPing /\ UNCHANGED lost)
  /\ WF_vars(HostRxCallback)
  /\ WF_vars(GetPong)
  /\ WF_vars(NextPing /\ UNCHANGED lost)
  /\ WF_vars(ClientMain \/ ClientMainFails)
  /\ WF_vars(StartPongTask)
  /\ WF_vars(ClientRxCallback)
  /\ WF_vars(GetPing)
  /\ WF_vars(ToggleLed)
  /\ WF_vars(SendPong /\ UNCHANGED lost)

FairSpec == Spec /\ Fairness
-----------------------------------------------------------------------------
(* Type invariant of both cores and both directions.                       *)
Seq32 == 0..(Modulus - 1)

TypeOK ==
  /\ hmain \in {"boot", "settle", "done", "halted"}
  /\ htask \in {"off", "get", "send"} /\ hmsg \in Seq32
  /\ htask = "off" <=> hmain \in {"boot", "halted"}
  /\ cmain \in {"boot", "enabled", "ready", "halted"}
  /\ ctask \in {"off", "get", "toggle", "send"} /\ cmsg \in Seq32
  /\ ctask = "off" <=> cmain # "ready"
  /\ hq \in Seq(Seq32) /\ Len(hq) <= Depth
  /\ cq \in Seq(Seq32) /\ Len(cq) <= Depth
  /\ pingBox \in Seq(Seq32) /\ Len(pingBox) <= Slots /\ pingOn \in BOOLEAN
  /\ pongBox \in Seq(Seq32) /\ Len(pongBox) <= Slots /\ pongOn \in BOOLEAN
  /\ led0 \in BOOLEAN /\ ledError \in BOOLEAN
  /\ lastPing \in Seq32 /\ lost \in BOOLEAN

(* There is one ball and never a second: nothing but a loss or a host that *)
(* could not start takes it out of play.  So no queue of this lab ever     *)
(* overflows and no send ever waits for a slot, whatever the timing.       *)
SingleBall == AtHost + AtClient = One(~lost /\ hmain # "halted")

(* Every message in either direction carries the seq of the latest ping:   *)
(* a pong can never answer an older ping.                                  *)
SeqAgrees ==
  /\ \A m \in Range(pingBox) \cup Range(cq) \cup Range(pongBox) \cup Range(hq) :
       m = lastPing
  /\ htask = "send" => hmsg = lastPing
  /\ ctask \in {"toggle", "send"} => cmsg = lastPing

(* LED0 shows the parity of the ball that has passed it, also when seq     *)
(* wraps around.                                                           *)
LedTracksSeq ==
  ~lost /\ ~ledError =>
    (led0 <=> (lastPing + Outbound) % 2 = 1)

(* The two cores never disagree: neither about the number of the ball nor, *)
(* as far as the number tells it, about the LED.                           *)
CoresAgree == SeqAgrees /\ LedTracksSeq

(* The rally goes on for ever: as long as both cores started and no message*)
(* was lost, pongs keep coming and are answered.                           *)
RallyGoesOn ==
  \/ []<>(htask = "send") /\ []<>(htask = "get")
  \/ <>(lost \/ hmain = "halted" \/ cmain = "halted")

(* The two cores implement a rally of alternating, gaplessly numbered      *)
(* shots.                                                                  *)
Turns ==
  INSTANCE Rally WITH
    shot <- lastPing,
    turn <- IF lost \/ hmain = "halted" THEN "over"
            ELSE IF AtHost > 0 THEN "m55" ELSE "m4"
TakesTurns == Turns!Spec
=============================================================================
