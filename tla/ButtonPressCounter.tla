------------------------- MODULE ButtonPressCounter -------------------------
(***************************************************************************)
(* Lab 05: the client's input callback queues every press of the button;   *)
(* its Send_Task takes them one by one and sends the running total to the  *)
(* host, whose callback logs it.                                           *)
(***************************************************************************)
EXTENDS Queues

CONSTANTS
  Slots, Mtu,  (* of the mailbox direction M4 -> M55                       *)
  Depth,       (* of press_msgq; 4 in the code                             *)
  MaxPresses   (* the bound of the model: the button is then left alone    *)

ASSUME ButtonPressCounterAssumption ==
  /\ Slots \in Nat \ {0}
  /\ Depth \in Nat \ {0}
  /\ Mtu \in Nat /\ Mtu >= 4
  /\ MaxPresses \in Nat

MsgSize == 4  (* sizeof(struct ipc_press_count_msg): its uint32_t          *)
Dummy == 1    (* what press_msgq holds                                     *)

VARIABLES
  hmain,             (* host main: "boot", "ready", "halted" (returned)    *)
  totalBox, totalOn, (* mailbox direction M4 -> M55                        *)
  cmain,             (* client main: "boot", "ready"                       *)
  tpc,               (* Send_Task: "off", "get", "send"                    *)
  press_msgq, g_total_presses,
  \* History, never read by actions.
  presses,           (* how often the button was pressed                   *)
  dropped,           (* how many presses press_msgq had no room for        *)
  shown,             (* the latest total on the host's console             *)
  latestLost         (* the latest total that was sent did not get through *)

hostVars == <<hmain, shown>>
totalVars == <<totalBox, totalOn>>
pressVars == <<presses, dropped>>
vars == <<hostVars, totalVars, cmain, tpc, press_msgq, g_total_presses,
          pressVars, latestLost>>

TotalChannel == INSTANCE Mailbox WITH box <- totalBox, enabled <- totalOn
PressMsgQ == INSTANCE MsgQ WITH q <- press_msgq

Init ==
  /\ hmain = "boot" /\ shown = 0
  /\ TotalChannel!Init
  /\ cmain = "boot" /\ tpc = "off"
  /\ PressMsgQ!Init /\ g_total_presses = 0
  /\ presses = 0 /\ dropped = 0 /\ latestLost = FALSE
-----------------------------------------------------------------------------
(* The M55 host.                                                           *)

\* Fault: the channel is registered, but never enabled.
HostMain_NoEnable ==
  /\ hmain = "boot"
  /\ hmain' = "ready"
  /\ UNCHANGED <<shown, totalVars, cmain, tpc, press_msgq, g_total_presses,
                 pressVars, latestLost>>

HostMain ==
  /\ hmain = "boot"
  /\ TotalChannel!Enable
  /\ hmain' = "ready"
  /\ UNCHANGED <<shown, cmain, tpc, press_msgq, g_total_presses, pressVars,
                 latestLost>>

HostMainFails ==
  /\ hmain = "boot"
  /\ hmain' = "halted"
  /\ UNCHANGED <<shown, totalVars, cmain, tpc, press_msgq, g_total_presses,
                 pressVars, latestLost>>

HostRxCallback ==
  \E m \in Range(totalBox) :
    /\ TotalChannel!Interrupt(m)
    /\ shown' = m
    /\ UNCHANGED <<hmain, cmain, tpc, press_msgq, g_total_presses, pressVars,
                   latestLost>>
-----------------------------------------------------------------------------
(* The M4 client.                                                          *)

\* Fault: a press that finds the queue full is added to the total on the spot,
\* although it is counted as dropped.
ButtonInputCb_Counts ==
  /\ presses < MaxPresses
  /\ presses' = presses + 1
  /\ \/ PressMsgQ!Put(Dummy) /\ UNCHANGED <<dropped, g_total_presses>>
     \/ /\ PressMsgQ!PutFails
        /\ dropped' = dropped + 1
        /\ g_total_presses' = g_total_presses + 1
  /\ UNCHANGED <<hostVars, totalVars, cmain, tpc, latestLost>>

(* INPUT_CALLBACK_DEFINE: active before main().  A release is ignored.  The*)
(* result of k_msgq_put() is ignored, too.                                 *)
ButtonInputCb ==
  /\ presses < MaxPresses
  /\ presses' = presses + 1
  /\ \/ PressMsgQ!Put(Dummy) /\ UNCHANGED dropped
     \/ PressMsgQ!PutFails /\ dropped' = dropped + 1
  /\ UNCHANGED <<hostVars, totalVars, cmain, tpc, g_total_presses, latestLost>>

(* k_thread_create(); main() cannot fail.                                  *)
StartSendTask ==
  /\ cmain = "boot"
  /\ cmain' = "ready"
  /\ tpc' = "get"
  /\ UNCHANGED <<hostVars, totalVars, press_msgq, g_total_presses, pressVars,
                 latestLost>>

GetPress ==
  /\ tpc = "get"
  /\ PressMsgQ!Get(Dummy)
  /\ g_total_presses' = g_total_presses + 1
  /\ tpc' = "send"
  /\ UNCHANGED <<hostVars, totalVars, cmain, pressVars, latestLost>>

\* Fault: the message is filled before the total is incremented.
SendTotal_Early ==
  /\ tpc = "send"
  /\ \/ TotalChannel!Post(g_total_presses - 1, MsgSize) /\ latestLost' = FALSE
     \/ latestLost' = TRUE /\ UNCHANGED totalVars
  /\ tpc' = "get"
  /\ UNCHANGED <<hostVars, cmain, press_msgq, g_total_presses, pressVars>>

\* Fault: a total that failed to be sent is counted back.
SendTotal_Undo ==
  /\ tpc = "send"
  /\ \/ /\ TotalChannel!Post(g_total_presses, MsgSize)
        /\ latestLost' = FALSE
        /\ UNCHANGED g_total_presses
     \/ /\ latestLost' = TRUE
        /\ g_total_presses' = g_total_presses - 1
        /\ UNCHANGED totalVars
  /\ tpc' = "get"
  /\ UNCHANGED <<hostVars, cmain, press_msgq, pressVars>>

(* A failed send is logged; the press stays counted.                       *)
SendTotal ==
  /\ tpc = "send"
  /\ \/ TotalChannel!Post(g_total_presses, MsgSize) /\ latestLost' = FALSE
     \/ latestLost' = TRUE /\ UNCHANGED totalVars
  /\ tpc' = "get"
  /\ UNCHANGED <<hostVars, cmain, press_msgq, g_total_presses, pressVars>>

(* A total posted before the host has enabled its channel goes unheard.    *)
LoseTotal ==
  /\ TotalChannel!Discard
  /\ latestLost' = (latestLost \/ Len(totalBox) = 1)
  /\ UNCHANGED <<hostVars, cmain, tpc, press_msgq, g_total_presses, pressVars>>
-----------------------------------------------------------------------------
AtRest ==
  /\ presses = MaxPresses
  /\ hmain # "boot" /\ cmain = "ready"
  /\ hmain = "halted" \/ (press_msgq = <<>> /\ tpc = "get" /\ totalBox = <<>>)

Rest == AtRest /\ UNCHANGED vars

Next ==
  \/ HostMain \/ HostMainFails \/ HostRxCallback
  \/ ButtonInputCb \/ StartSendTask \/ GetPress \/ SendTotal \/ LoseTotal
  \/ Rest

Spec == Init /\ [][Next]_vars

(* Both cores run, interrupts are served, a send that finds a free slot    *)
(* returns.  Nobody has to press the button, and no send has to fail.      *)
Fairness ==
  /\ WF_vars(HostMain \/ HostMainFails)
  /\ WF_vars(HostRxCallback)
  /\ WF_vars(StartSendTask)
  /\ WF_vars(GetPress)
  /\ WF_vars(SendTotal /\ ~UNCHANGED totalBox)

FairSpec == Spec /\ Fairness
-----------------------------------------------------------------------------
(* Type invariant of both cores.                                           *)
TypeOK ==
  /\ hmain \in {"boot", "ready", "halted"} /\ shown \in 0..MaxPresses
  /\ totalBox \in Seq(1..MaxPresses) /\ Len(totalBox) <= Slots
  /\ totalOn \in BOOLEAN
  /\ cmain \in {"boot", "ready"} /\ tpc \in {"off", "get", "send"}
  /\ tpc = "off" <=> cmain = "boot"
  /\ press_msgq \in Seq({Dummy}) /\ Len(press_msgq) <= Depth
  /\ g_total_presses \in 0..MaxPresses
  /\ presses \in 0..MaxPresses /\ dropped \in 0..MaxPresses
  /\ latestLost \in BOOLEAN

(* The total lags behind the presses by those in the queue and by those the*)
(* queue had no room for, and by nothing else: a failed send costs nothing.*)
(* So main.c:3-4 ("every time user_button is pressed, increments a running *)
(* total") holds for the presses that press_msgq had room for.             *)
PressesAccounted == presses = g_total_presses + Len(press_msgq) + dropped

(* What the running total is for (05_button_press_counter_en.md:29): any   *)
(* message that gets through makes good for all that were lost before it.  *)
(* Whenever no total is under way and the latest one was not lost, the host*)
(* shows the client's total.                                               *)
TotalResyncs ==
  tpc # "send" /\ totalBox = <<>> /\ ~latestLost => shown = g_total_presses

(* The host's console counts upwards: totals arrive in order, each once.   *)
InFlight == Range(totalBox) \cup IF tpc = "send" THEN {g_total_presses} ELSE {}
Service == INSTANCE InOrderDelivery
             WITH offered <- g_total_presses, pending <- InFlight, last <- shown
TotalsInOrder == Service!Spec

(* A queued press is counted and leaves the client in the end, unless the  *)
(* host's main() has returned and its mailbox is full.                     *)
PressesAreTaken ==
  \A n \in 1..MaxPresses :
    presses - dropped = n ~>
      (g_total_presses >= n /\ n \notin InFlight) \/ hmain = "halted"
=============================================================================
