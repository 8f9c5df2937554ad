---------------------------- MODULE MessageQueue ----------------------------
(***************************************************************************)
(* Lab 08: every six seconds the host sends four LED patterns at once; the *)
(* client's callback queues them and its Pattern_Task runs each to its end *)
(* before it takes the next.  The queue is there because they take longer  *)
(* to run than to send, and it suffices because a burst takes less time    *)
(* than the pause after it.  Time is modelled as in SharedCounter, but one *)
(* unit is 50 ms: a sleep takes up to Slack units more than asked for.     *)
(***************************************************************************)
EXTENDS Integers, Sequences, FiniteSetsExt, Functions

CONSTANTS
  Slots, Mtu,  (* of the mailbox direction M55 -> M4                       *)
  Depth,       (* of pattern_msgq; 8 in the code                           *)
  Slack,       (* the most that a sleep exceeds its argument, in units     *)
  MaxFaults    (* the bound of the model: of failed sends, unheard         *)
               (* doorbells and failed I2C transfers together              *)

ASSUME MessageQueueAssumption ==
  /\ Slots \in Nat \ {0}
  /\ Depth \in Nat \ {0}
  /\ Mtu \in Nat /\ Mtu >= 8
  /\ Slack \in Nat
  /\ MaxFaults \in Nat

MsgSize == 8  (* sizeof(struct ipc_pattern_msg): two uint32_t              *)
STEP == 4

\* Fault: a pause that only covers the flashing, not the dark steps.
PAUSE_Short == 44

PAUSE == 120

Pattern(id, n) == [pattern_id |-> id, repeat |-> n]
Burst == <<Pattern("blink_led0", 3), Pattern("blink_led1", 3),
           Pattern("alternate", 3), Pattern("both_flash", 2)>>

VARIABLES
  hpc, hostLeft,      (* host main: "sleep" (or about to begin), "send"    *)
  sent,               (* how many patterns of the burst have been sent     *)
  box, on,            (* mailbox direction M55 -> M4                       *)
  cmain,              (* client main: "boot", "enabled", "ready", "halted" *)
  pattern_msgq,
  tpc, taskLeft,      (* Pattern_Task: "off", "get", "loop", "first" and   *)
                      (* "second" (the two steps of an iteration)          *)
  msg, i,             (* its local variables                               *)
  leds,               (* the LEDs themselves, behind the I2C expander      *)
  \* History, never read by what the code does.
  unsure,             (* the LEDs whose latest setting failed              *)
  faults              (* how many faults there were                        *)

LEDs == {"led0", "led1"}
hostVars == <<hpc, hostLeft, sent>>
boxVars == <<box, on>>
ledVars == <<leds, unsure>>
taskVars == <<tpc, taskLeft, msg, i, ledVars>>
vars == <<hostVars, boxVars, cmain, pattern_msgq, taskVars, faults>>

Channel == INSTANCE Mailbox WITH enabled <- on
PatternMsgQ == INSTANCE MsgQ WITH q <- pattern_msgq

Init ==
  /\ hpc = "sleep" /\ hostLeft = 0 /\ sent = 0
  /\ Channel!Init
  /\ cmain = "boot" /\ PatternMsgQ!Init
  /\ tpc = "off" /\ taskLeft = 0 /\ msg = Burst[1] /\ i = 0
  /\ leds = [k \in LEDs |-> FALSE] /\ unsure = {}
  /\ faults = 0

(* How long k_msleep() may take.                                           *)
Sleep(d) == d..(d + Slack)

Faults(n) == faults + n <= MaxFaults /\ faults' = faults + n
-----------------------------------------------------------------------------
(* The M55 host.                                                           *)

BeginBurst ==
  /\ hpc = "sleep" /\ hostLeft = 0
  /\ hpc' = "send" /\ sent' = 0
  /\ UNCHANGED <<hostLeft, boxVars, cmain, pattern_msgq, taskVars, faults>>

(* send_pattern(): it waits for a slot; its result is ignored.             *)
SendPattern ==
  /\ hpc = "send"
  /\ \/ Channel!Post(Burst[sent + 1], MsgSize) /\ Faults(0)
     \/ Faults(1) /\ UNCHANGED boxVars
  /\ sent' = sent + 1
  /\ IF sent' < Len(Burst) THEN UNCHANGED <<hpc, hostLeft>>
     ELSE hpc' = "sleep" /\ hostLeft' \in Sleep(PAUSE)
  /\ UNCHANGED <<cmain, pattern_msgq, taskVars>>
-----------------------------------------------------------------------------
(* The M4 client.                                                          *)

(* The LEDs are configured, and whether that works is ignored.             *)
ClientMain ==
  /\ cmain = "boot"
  /\ Channel!Enable
  /\ cmain' = "enabled"
  /\ UNCHANGED <<hostVars, pattern_msgq, taskVars, faults>>

ClientMainFails ==
  /\ cmain = "boot"
  /\ cmain' = "halted"
  /\ UNCHANGED <<hostVars, boxVars, pattern_msgq, taskVars, faults>>

\* Fault: k_thread_create(.., K_FOREVER): the thread is never started.
StartPatternTask_Unstarted ==
  /\ cmain = "enabled"
  /\ cmain' = "ready"
  /\ UNCHANGED <<hostVars, boxVars, pattern_msgq, taskVars, faults>>

StartPatternTask ==
  /\ cmain = "enabled"
  /\ cmain' = "ready" /\ tpc' = "get"
  /\ UNCHANGED <<hostVars, boxVars, pattern_msgq, taskLeft, msg, i, ledVars,
                 faults>>

(* A pattern posted before M4 has enabled its channel goes unheard.        *)
LosePattern ==
  /\ Channel!Discard /\ Faults(1)
  /\ UNCHANGED <<hostVars, cmain, pattern_msgq, taskVars>>

(* The result of k_msgq_put() is ignored.                                  *)
MboxRxCallback ==
  /\ \E p \in Range(box) :
       Channel!Interrupt(p) /\ (PatternMsgQ!Put(p) \/ PatternMsgQ!PutFails)
  /\ UNCHANGED <<hostVars, cmain, taskVars, faults>>

GetPattern ==
  /\ tpc = "get"
  /\ \E p \in Range(pattern_msgq) : PatternMsgQ!Get(p) /\ msg' = p
  /\ i' = 0 /\ tpc' = "loop"
  /\ UNCHANGED <<hostVars, boxVars, cmain, taskLeft, ledVars, faults>>

(* gpio_pin_set_dt() on some LEDs: those in lit on, the others off.  The   *)
(* result is ignored, and after an error nobody knows the LED.             *)
SetLeds(some, lit) ==
  \E failed \in SUBSET some :
    /\ Faults(Cardinality(failed))
    /\ unsure' = (unsure \ some) \cup failed
    /\ leds' \in {f \in [LEDs -> BOOLEAN] :
                    \A k \in LEDs \ failed :
                      f[k] = IF k \in some THEN k \in lit ELSE leds[k]}

(* The LEDs that a pattern sets, and those it lights first and second.     *)
Uses(id) ==
  CASE id = "blink_led0" -> {"led0"}
    [] id = "blink_led1" -> {"led1"}
    [] OTHER -> LEDs
First(id) == IF id = "alternate" THEN {"led0"} ELSE Uses(id)
Second(id) == IF id = "alternate" THEN {"led1"} ELSE {}

FirstStep ==
  /\ tpc = "loop" /\ i < msg.repeat
  /\ SetLeds(Uses(msg.pattern_id), First(msg.pattern_id))
  /\ tpc' = "first" /\ taskLeft' \in Sleep(STEP)
  /\ UNCHANGED <<hostVars, boxVars, cmain, pattern_msgq, msg, i>>

SecondStep ==
  /\ tpc = "first" /\ taskLeft = 0
  /\ SetLeds(Uses(msg.pattern_id), Second(msg.pattern_id))
  /\ tpc' = "second" /\ taskLeft' \in Sleep(STEP)
  /\ UNCHANGED <<hostVars, boxVars, cmain, pattern_msgq, msg, i>>

NextStep ==
  /\ tpc = "second" /\ taskLeft = 0
  /\ tpc' = "loop"
  /\ i' = i + 1
  /\ UNCHANGED <<hostVars, boxVars, cmain, pattern_msgq, taskLeft, msg,
                 ledVars, faults>>

\* Fault: no gpio_pin_set_dt(&led1, 0) after the loop of PATTERN_ALTERNATE.
EndPattern_Lit ==
  /\ tpc = "loop" /\ i >= msg.repeat
  /\ tpc' = "get"
  /\ UNCHANGED <<hostVars, boxVars, cmain, pattern_msgq, taskLeft, msg, i,
                 ledVars, faults>>

EndPattern ==
  /\ tpc = "loop" /\ i >= msg.repeat
  /\ SetLeds(Second(msg.pattern_id), {})
  /\ tpc' = "get"
  /\ UNCHANGED <<hostVars, boxVars, cmain, pattern_msgq, taskLeft, msg, i>>
-----------------------------------------------------------------------------
(* Time.  Threads and interrupts are quick; only M4's boot takes as long as*)
(* it likes.                                                               *)
HostCanRun == IF hpc = "send" THEN Len(box) < Slots ELSE hostLeft = 0
TaskSleeps == tpc \in {"first", "second"}
TaskCanRun ==
  \/ tpc = "get" /\ pattern_msgq # <<>>
  \/ tpc = "loop"
  \/ TaskSleeps /\ taskLeft = 0
Urgent == HostCanRun \/ TaskCanRun \/ cmain = "enabled" \/ (on /\ box # <<>>)

Sleeps == (IF hpc = "sleep" THEN {hostLeft} ELSE {})
            \cup IF TaskSleeps THEN {taskLeft} ELSE {}

Tick ==
  /\ ~Urgent /\ Sleeps # {}
  /\ LET d == IF cmain = "boot" THEN 1 ELSE Min(Sleeps) IN
       /\ hostLeft' = IF hpc = "sleep" THEN hostLeft - d ELSE 0
       /\ taskLeft' = IF TaskSleeps THEN taskLeft - d ELSE 0
  /\ UNCHANGED <<hpc, sent, boxVars, cmain, pattern_msgq, tpc, msg, i,
                 ledVars, faults>>

(* The host waits for ever for a client whose main() has returned.         *)
Rest == hpc = "send" /\ cmain = "halted" /\ UNCHANGED vars

Boot == ClientMain \/ ClientMainFails
Work ==
  \/ BeginBurst \/ SendPattern
  \/ StartPatternTask \/ LosePattern \/ MboxRxCallback \/ GetPattern
  \/ FirstStep \/ SecondStep \/ NextStep \/ EndPattern
Next == Boot \/ Work \/ Tick \/ Rest

Spec == Init /\ [][Next]_vars

(* M4 boots in the end, both cores work and time passes.                   *)
FairSpec == Spec /\ WF_vars(Boot) /\ WF_vars(Work \/ Tick)
-----------------------------------------------------------------------------
(* Type invariant of both cores.                                           *)
Patterns == Range(Burst)

TypeOK ==
  /\ hpc \in {"sleep", "send"} /\ hostLeft \in 0..(PAUSE + Slack)
  /\ sent \in 0..Len(Burst) /\ (hpc = "send" => sent < Len(Burst))
  /\ box \in Seq(Patterns) /\ Len(box) <= Slots /\ on \in BOOLEAN
  /\ cmain \in {"boot", "enabled", "ready", "halted"}
  /\ pattern_msgq \in Seq(Patterns) /\ Len(pattern_msgq) <= Depth
  /\ tpc \in {"off", "get", "loop", "first", "second"}
  /\ tpc = "off" <=> cmain # "ready"
  /\ taskLeft \in 0..(STEP + Slack) /\ msg \in Patterns /\ i \in 0..msg.repeat
  /\ leds \in [LEDs -> BOOLEAN] /\ unsure \subseteq LEDs

(* No pattern is ever dropped: pattern_msgq has room for every message the *)
(* mailbox delivers, also when M4 boots late and meets all that waited for *)
(* it and the next bursts on top.                                          *)
EveryPatternFits == on /\ box # <<>> => ~PatternMsgQ!Full

(* The backlog of a late boot is worked off, and from then on every burst  *)
(* finds the queue empty and Pattern_Task idle.                            *)
Idle == box = <<>> /\ pattern_msgq = <<>> /\ tpc = "get"
BacklogClears ==
  <>[](cmain = "halted" \/ (hpc = "sleep" /\ hostLeft = 0 => Idle))

(* A pattern leaves no LED on: between patterns both are dark, and a       *)
(* running pattern finds the LED it does not use dark, except for an LED   *)
(* whose latest setting failed.                                            *)
NoLedLeftOn ==
  \A k \in LEDs \ unsure :
    leds[k] =>
      tpc \in {"first", "second", "loop"} /\ k \in Uses(msg.pattern_id)
=============================================================================
