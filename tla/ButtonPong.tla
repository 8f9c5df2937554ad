----------------------------- MODULE ButtonPong -----------------------------
(***************************************************************************)
(* Lab 02: the client's input callback queues every press of the button;   *)
(* its Button_Task counts it, toggles LED1 and sends the count to the      *)
(* host, whose callback logs it.                                           *)
(***************************************************************************)
EXTENDS Queues

CONSTANTS
  Slots, Mtu,  (* of the mailbox direction M4 -> M55                       *)
  Depth,       (* of press_msgq; 4 in the code                             *)
  MaxPresses   (* the bound of the model: the button is then left alone    *)

ASSUME ButtonPongAssumption ==
  /\ Slots \in Nat \ {0}
  /\ Depth \in Nat \ {0}
  /\ Mtu \in Nat /\ Mtu >= 4
  /\ MaxPresses \in Nat

EvtSize == 4  (* sizeof(struct ipc_button_evt): its uint32_t               *)
Dummy == 1    (* what press_msgq holds                                     *)

VARIABLES
  hmain,             (* host main: "boot", "ready", "halted" (returned)    *)
  evtBox, evtOn,     (* mailbox direction M4 -> M55                        *)
  cmain,             (* client main: "boot", "ready", "halted"             *)
  tpc,               (* Button_Task: "off", "get", "toggle", "send"        *)
  press_msgq, g_press_count,
  led1,              (* the LED itself, behind the I2C expander            *)
  \* History, never read by actions.
  presses,           (* how often the button was pressed                   *)
  dropped,           (* how many presses press_msgq had no room for        *)
  shown,             (* the latest seq on the host's console               *)
  latestLost,        (* the latest event did not get through               *)
  ledError           (* a toggle failed                                    *)

hostVars == <<hmain, shown>>
evtVars == <<evtBox, evtOn>>
ledVars == <<led1, ledError>>
pressVars == <<press_msgq, presses, dropped>>
vars == <<hostVars, evtVars, cmain, tpc, g_press_count, ledVars, pressVars,
          latestLost>>

EvtChannel == INSTANCE Mailbox WITH box <- evtBox, enabled <- evtOn
PressMsgQ == INSTANCE MsgQ WITH q <- press_msgq

Init ==
  /\ hmain = "boot" /\ shown = 0
  /\ EvtChannel!Init
  /\ cmain = "boot" /\ tpc = "off"
  /\ PressMsgQ!Init /\ g_press_count = 0
  /\ led1 = FALSE /\ ledError = FALSE
  /\ presses = 0 /\ dropped = 0 /\ latestLost = FALSE
-----------------------------------------------------------------------------
(* The M55 host.                                                           *)

HostMain ==
  /\ hmain = "boot"
  /\ \/ EvtChannel!Enable /\ hmain' = "ready"
     \/ hmain' = "halted" /\ UNCHANGED evtVars
  /\ UNCHANGED <<shown, cmain, tpc, g_press_count, ledVars, pressVars,
                 latestLost>>

HostRxCallback ==
  \E seq \in Range(evtBox) :
    /\ EvtChannel!Interrupt(seq)
    /\ shown' = seq
    /\ UNCHANGED <<hmain, cmain, tpc, g_press_count, ledVars, pressVars,
                   latestLost>>
-----------------------------------------------------------------------------
(* The M4 client.                                                          *)

(* INPUT_CALLBACK_DEFINE: active before main(), and also when main() has   *)
(* returned.  A release is ignored, and so is the result of k_msgq_put().  *)
ButtonInputCb ==
  /\ presses < MaxPresses
  /\ presses' = presses + 1
  /\ \/ PressMsgQ!Put(Dummy) /\ UNCHANGED dropped
     \/ PressMsgQ!PutFails /\ dropped' = dropped + 1
  /\ UNCHANGED <<hostVars, evtVars, cmain, tpc, g_press_count, ledVars,
                 latestLost>>

(* Without LED1 (-ENODEV, -EIO) there is no Button_Task.                   *)
ClientMain ==
  /\ cmain = "boot"
  /\ \/ cmain' = "ready" /\ tpc' = "get"
     \/ cmain' = "halted" /\ UNCHANGED tpc
  /\ UNCHANGED <<hostVars, evtVars, g_press_count, ledVars, pressVars,
                 latestLost>>

\* Fault: presses that were queued meanwhile are purged as bounces.
GetPress_Debounces ==
  /\ tpc = "get"
  /\ press_msgq # <<>> /\ press_msgq' = <<>>
  /\ g_press_count' = g_press_count + 1
  /\ tpc' = "toggle"
  /\ UNCHANGED <<hostVars, evtVars, cmain, ledVars, presses, dropped,
                 latestLost>>

GetPress ==
  /\ tpc = "get"
  /\ PressMsgQ!Get(Dummy)
  /\ g_press_count' = g_press_count + 1
  /\ tpc' = "toggle"
  /\ UNCHANGED <<hostVars, evtVars, cmain, ledVars, presses, dropped,
                 latestLost>>

(* The result of gpio_pin_toggle_dt() is ignored; after an error nobody    *)
(* knows the LED.                                                          *)
ToggleLed ==
  /\ tpc = "toggle"
  /\ \/ led1' = ~led1 /\ UNCHANGED ledError
     \/ led1' \in BOOLEAN /\ ledError' = TRUE
  /\ tpc' = "send"
  /\ UNCHANGED <<hostVars, evtVars, cmain, g_press_count, pressVars,
                 latestLost>>

\* Fault: after a failed send the toggle is taken back.
SendEvt_TakesBack ==
  /\ tpc = "send"
  /\ \/ EvtChannel!Post(g_press_count, EvtSize) /\ latestLost' = FALSE
        /\ UNCHANGED led1
     \/ latestLost' = TRUE /\ led1' = ~led1 /\ UNCHANGED evtVars
  /\ tpc' = "get"
  /\ UNCHANGED <<hostVars, cmain, g_press_count, ledError, pressVars>>

(* A failed send is logged; the seq it carried is spent.                   *)
SendEvt ==
  /\ tpc = "send"
  /\ \/ EvtChannel!Post(g_press_count, EvtSize) /\ latestLost' = FALSE
     \/ latestLost' = TRUE /\ UNCHANGED evtVars
  /\ tpc' = "get"
  /\ UNCHANGED <<hostVars, cmain, g_press_count, ledVars, pressVars>>

(* An event posted before the host has enabled its channel goes unheard.   *)
LoseEvt ==
  /\ EvtChannel!Discard
  /\ latestLost' = (latestLost \/ Len(evtBox) = 1)
  /\ UNCHANGED <<hostVars, cmain, tpc, g_press_count, ledVars, pressVars>>
-----------------------------------------------------------------------------
(* The system may stop: nobody presses the button any more, and each core  *)
(* has done what it can, or its main() has returned.                       *)
AtRest ==
  /\ presses = MaxPresses
  /\ hmain # "boot" /\ cmain # "boot"
  /\ \/ hmain = "halted"
     \/ evtBox = <<>> /\ tpc \in {"off", "get"}
        /\ (press_msgq = <<>> \/ cmain = "halted")

Rest == AtRest /\ UNCHANGED vars

Next ==
  \/ HostMain \/ HostRxCallback
  \/ ButtonInputCb \/ ClientMain \/ GetPress \/ ToggleLed \/ SendEvt \/ LoseEvt
  \/ Rest

Spec == Init /\ [][Next]_vars
-----------------------------------------------------------------------------
(* Type invariant of both cores.                                           *)
TypeOK ==
  /\ hmain \in {"boot", "ready", "halted"} /\ shown \in 0..MaxPresses
  /\ evtBox \in Seq(1..MaxPresses) /\ Len(evtBox) <= Slots
  /\ evtOn \in BOOLEAN
  /\ cmain \in {"boot", "ready", "halted"}
  /\ tpc \in {"off", "get", "toggle", "send"}
  /\ tpc = "off" <=> cmain # "ready"
  /\ press_msgq \in Seq({Dummy}) /\ Len(press_msgq) <= Depth
  /\ g_press_count \in 0..MaxPresses /\ led1 \in BOOLEAN
  /\ presses \in 0..MaxPresses /\ dropped \in 0..MaxPresses
  /\ latestLost \in BOOLEAN /\ ledError \in BOOLEAN

(* To the host this client is the press counter of lab 05, although it has *)
(* an LED to toggle between counting and sending, and although it may fail *)
(* to start: whatever is true of that lab's totals is true of these seqs.  *)
Counter ==
  INSTANCE ButtonPressCounter WITH
    totalBox <- evtBox, totalOn <- evtOn, g_total_presses <- g_press_count,
    cmain <- IF cmain = "halted" THEN "boot" ELSE cmain,
    tpc <- IF tpc = "toggle" THEN "send" ELSE tpc
CounterSpec == Counter!Spec

(* LED1 and the console tell the same story: when the latest event has     *)
(* been logged, LED1 is lit exactly if its seq is odd, however many events *)
(* were lost before it and whatever was dropped, unless a toggle failed.   *)
LedMatchesConsole ==
  tpc \notin {"toggle", "send"} /\ evtBox = <<>> /\ ~latestLost /\ ~ledError
    => led1 = (shown % 2 = 1)
=============================================================================
