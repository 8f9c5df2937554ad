---------------------------- MODULE SharedCounter ----------------------------
(***************************************************************************)
(* Lab 04: the host counts once per second and sends the counter; the      *)
(* client's callback queues it and its Blink_Task flashes LED0 once more   *)
(* than the counter's remainder by five.  Five flashes take longer than    *)
(* the second in which the next counter comes, one flash takes less: what  *)
(* the queue is for is a matter of time, so this module has a clock.       *)
(*                                                                         *)
(* One unit is 10 ms.  A sleep counts down what is left of it, time jumps  *)
(* to the end of the next sleep, and whatever can run runs before time     *)
(* passes.  A sleep may take up to Slack longer than asked for, which also *)
(* stands for the time that the code around it takes (I2C transfers, the   *)
(* rounding to a kernel tick).                                             *)
(***************************************************************************)
EXTENDS Integers, Sequences, FiniteSetsExt, Functions

CONSTANTS
  Slots, Mtu,   (* of the mailbox direction M55 -> M4                      *)
  Depth,        (* of rx_msgq; 4 in the code                               *)
  Slack,        (* the most that a sleep exceeds its argument, in units    *)
  Modulus       (* the counter wraps around here; 2^32 in the code         *)

ASSUME SharedCounterAssumption ==
  /\ Slots \in Nat \ {0}
  /\ Depth \in Nat \ {0}
  /\ Mtu \in Nat /\ Mtu >= 4
  /\ Slack \in Nat
  /\ Modulus \in Nat \ {0}

MsgSize == 4  (* sizeof(struct ipc_counter_msg): its uint32_t              *)
TICK_PERIOD == 100
BLINK_ON == 15
BLINK_OFF == 15

VARIABLES
  hpc, hostLeft,      (* host main: "sleep" (or about to begin), "send"    *)
  counter,            (* msg.counter of host main                          *)
  box, on,            (* mailbox direction M55 -> M4                       *)
  cmain,              (* client main: "boot", "enabled", "ready", "halted" *)
  rx_msgq,
  tpc, taskLeft,      (* Blink_Task: "off", "get", "loop", "lit", "dark"   *)
  msg, i,             (* its local variables; msg is the counter in it     *)
  led0,               (* the LED itself, behind the I2C expander           *)
  \* History, never read by actions.
  held,               (* messages that waited for M4's boot, not yet shown *)
  flashes,            (* how often LED0 was switched on for msg            *)
  spoiled             (* a pin could not be set while msg was displayed    *)

hostVars == <<hpc, hostLeft, counter>>
boxVars == <<box, on>>
ledVars == <<led0, flashes, spoiled>>
queueVars == <<rx_msgq, held>>
taskVars == <<tpc, taskLeft, msg, i, ledVars>>
vars == <<hostVars, boxVars, cmain, queueVars, taskVars>>

Channel == INSTANCE Mailbox WITH enabled <- on
RxMsgQ == INSTANCE MsgQ WITH q <- rx_msgq

Init ==
  /\ hpc = "sleep" /\ hostLeft = 0 /\ counter = 0
  /\ Channel!Init
  /\ cmain = "boot" /\ RxMsgQ!Init
  /\ tpc = "off" /\ taskLeft = 0 /\ msg = 0 /\ i = 0
  /\ led0 = FALSE /\ flashes = 0 /\ spoiled = FALSE /\ held = 0

(* How long k_msleep() may take.                                           *)
Sleep(d) == d..(d + Slack)
-----------------------------------------------------------------------------
(* The M55 host.                                                           *)

Count ==
  /\ hpc = "sleep" /\ hostLeft = 0
  /\ counter' = (counter + 1) % Modulus
  /\ hpc' = "send"
  /\ UNCHANGED <<hostLeft, boxVars, cmain, queueVars, taskVars>>

(* mbox_send_dt(): it waits for a slot; a failure is only logged.          *)
SendCounter ==
  /\ hpc = "send"
  /\ Channel!Post(counter, MsgSize) \/ UNCHANGED boxVars
  /\ hpc' = "sleep" /\ hostLeft' \in Sleep(TICK_PERIOD)
  /\ UNCHANGED <<counter, cmain, queueVars, taskVars>>
-----------------------------------------------------------------------------
(* The M4 client.                                                          *)

ClientMain ==
  /\ cmain = "boot"
  /\ Channel!Enable
  /\ cmain' = "enabled"
  /\ held' = Len(box)
  /\ UNCHANGED <<hostVars, rx_msgq, taskVars>>

(* -ENODEV or -EIO: no LED0, or no channel.                                *)
ClientMainFails ==
  /\ cmain = "boot"
  /\ cmain' = "halted"
  /\ UNCHANGED <<hostVars, boxVars, queueVars, taskVars>>

StartBlinkTask ==
  /\ cmain = "enabled"
  /\ cmain' = "ready" /\ tpc' = "get"
  /\ UNCHANGED <<hostVars, boxVars, queueVars, taskLeft, msg, i, ledVars>>

(* A counter posted before M4 has enabled its channel goes unheard.        *)
LoseCounter ==
  /\ Channel!Discard
  /\ UNCHANGED <<hostVars, cmain, queueVars, taskVars>>

(* The result of k_msgq_put() is ignored.                                  *)
MboxRxCallback ==
  /\ \E c \in Range(box) :
       Channel!Interrupt(c) /\ (RxMsgQ!Put(c) \/ RxMsgQ!PutFails)
  /\ UNCHANGED <<hostVars, cmain, held, taskVars>>

GetCounter ==
  /\ tpc = "get"
  /\ \E c \in Range(rx_msgq) : RxMsgQ!Get(c) /\ msg' = c
  /\ i' = 0 /\ tpc' = "loop"
  /\ flashes' = 0 /\ spoiled' = FALSE
  /\ UNCHANGED <<hostVars, boxVars, cmain, held, taskLeft, led0>>

(* gpio_pin_set_dt(): the result is ignored, and after an error nobody     *)
(* knows the LED.                                                          *)
SetLed0(value) ==
  \/ led0' = value /\ UNCHANGED spoiled
  \/ led0' \in BOOLEAN /\ spoiled' = TRUE

\* Fault: the number of flashes takes the remainder by seven.
BlinkCount_BySeven(c) == (c % 7) + 1

BlinkCount(c) == (c % 5) + 1

\* Fault: i <= blink_count.
LedOn_OneMore ==
  /\ tpc = "loop" /\ i <= BlinkCount(msg)
  /\ SetLed0(TRUE)
  /\ flashes' = flashes + 1
  /\ tpc' = "lit" /\ taskLeft' \in Sleep(BLINK_ON)
  /\ UNCHANGED <<hostVars, boxVars, cmain, queueVars, msg, i>>

LedOn ==
  /\ tpc = "loop" /\ i < BlinkCount(msg)
  /\ SetLed0(TRUE)
  /\ flashes' = flashes + 1
  /\ tpc' = "lit" /\ taskLeft' \in Sleep(BLINK_ON)
  /\ UNCHANGED <<hostVars, boxVars, cmain, queueVars, msg, i>>

LedOff ==
  /\ tpc = "lit" /\ taskLeft = 0
  /\ SetLed0(FALSE)
  /\ tpc' = "dark" /\ taskLeft' \in Sleep(BLINK_OFF)
  /\ UNCHANGED <<hostVars, boxVars, cmain, queueVars, msg, i, flashes>>

NextBlink ==
  /\ tpc = "dark" /\ taskLeft = 0
  /\ i' = i + 1 /\ tpc' = "loop"
  /\ UNCHANGED <<hostVars, boxVars, cmain, queueVars, taskLeft, msg, ledVars>>

EndBlinking ==
  /\ tpc = "loop" /\ i >= BlinkCount(msg)
  /\ tpc' = "get"
  /\ held' = Max({held - 1, 0})
  /\ UNCHANGED <<hostVars, boxVars, cmain, rx_msgq, taskLeft, msg, i, ledVars>>
-----------------------------------------------------------------------------
(* Time.  Threads and interrupts are quick; only M4's boot takes as long as*)
(* it likes.                                                               *)
HostCanRun == IF hpc = "send" THEN Len(box) < Slots ELSE hostLeft = 0
TaskSleeps == tpc \in {"lit", "dark"}
TaskCanRun ==
  \/ tpc = "get" /\ rx_msgq # <<>>
  \/ tpc = "loop"
  \/ TaskSleeps /\ taskLeft = 0
Urgent == HostCanRun \/ TaskCanRun \/ cmain = "enabled" \/ (on /\ box # <<>>)

Sleeps == (IF hpc = "sleep" THEN {hostLeft} ELSE {})
            \cup IF TaskSleeps THEN {taskLeft} ELSE {}

Tick ==
  /\ ~Urgent /\ Sleeps # {}
  /\ LET d == IF cmain = "boot" THEN 1 ELSE Min(Sleeps) IN
       /\ hostLeft' = IF hpc = "sleep" THEN hostLeft - d ELSE 0
       /\ taskLeft' = IF TaskSleeps THEN taskLeft - d ELSE 0
  /\ UNCHANGED <<hpc, counter, boxVars, cmain, queueVars, tpc, msg, i,
                 ledVars>>

(* The host waits for ever for a client whose main() has returned.         *)
Rest == hpc = "send" /\ cmain = "halted" /\ UNCHANGED vars

Next ==
  \/ Count \/ SendCounter
  \/ ClientMain \/ ClientMainFails \/ StartBlinkTask \/ LoseCounter
  \/ MboxRxCallback \/ GetCounter
  \/ LedOn \/ LedOff \/ NextBlink \/ EndBlinking
  \/ Tick \/ Rest

Spec == Init /\ [][Next]_vars
-----------------------------------------------------------------------------
(* Type invariant of both cores.                                           *)
Counter == 0..(Modulus - 1)

TypeOK ==
  /\ hpc \in {"sleep", "send"} /\ hostLeft \in 0..(TICK_PERIOD + Slack)
  /\ counter \in Counter
  /\ box \in Seq(Counter) /\ Len(box) <= Slots /\ on \in BOOLEAN
  /\ cmain \in {"boot", "enabled", "ready", "halted"}
  /\ rx_msgq \in Seq(Counter) /\ Len(rx_msgq) <= Depth
  /\ tpc \in {"off", "get", "loop", "lit", "dark"}
  /\ tpc = "off" <=> cmain # "ready"
  /\ taskLeft \in 0..(BLINK_ON + Slack) /\ msg \in Counter /\ i \in 0..5
  /\ led0 \in BOOLEAN /\ flashes \in 0..5 /\ spoiled \in BOOLEAN

(* The display keeps up: apart from what waited in the mailbox for M4 to   *)
(* boot, the counter that LED0 displays is at most three counts behind the *)
(* host's, and rx_msgq always has room for the next one, although single   *)
(* counters take longer to display than the next one takes to come.        *)
Displaying == tpc \in {"loop", "lit", "dark"}
DisplayKeepsUp ==
  /\ Displaying /\ held = 0 => (counter - msg) % Modulus <= 3
  /\ on /\ box # <<>> => ~RxMsgQ!Full

(* LED0 tells the counter: after counter % 5 + 1 flashes it is dark again, *)
(* unless a pin could not be set.                                          *)
LedTellsCounter ==
  [][tpc = "loop" /\ tpc' = "get" /\ ~spoiled
       => ~led0 /\ flashes = (msg % 5) + 1]_vars
=============================================================================
