--------------------------- MODULE ThresholdEvent ---------------------------
(***************************************************************************)
(* Lab 10: the client's Threshold_Task averages a few samples after boot   *)
(* into a baseline, then polls the accelerometer and sends an event when a *)
(* sample is too far from the baseline.  The same thread takes the host's  *)
(* one SET_THRESHOLD command from a queue; its poll period is the timeout  *)
(* of that queue.                                                          *)
(*                                                                         *)
(* Time is abstract: a sleep, a timeout or the debounce period may end at  *)
(* any moment after it began.                                              *)
(***************************************************************************)
EXTENDS Queues, Integers, FiniteSets

CONSTANTS
  Slots, Mtu,        (* of each direction of the mailbox                   *)
  Depth,             (* of cmd_msgq; 4 in the code                         *)
  Readings,          (* what an awake sensor may read, in milli-units      *)
  CALIB_SAMPLES,     (* 10 in the code                                     *)
  DefaultThreshold,  (* the initial threshold_milli_g                      *)
  HostThreshold,     (* ACCEL_THRESHOLD_MILLI_G of the host                *)
  MaxSeq             (* the bound of the model: events stop after MaxSeq   *)

Axes == {"x", "y", "z"}

ASSUME ThresholdEventAssumption ==
  /\ Slots \in Nat \ {0}
  /\ Depth \in Nat \ {0}
  /\ Mtu \in Nat /\ Mtu >= 16
  /\ Readings # {} /\ Readings \subseteq [Axes -> Int]
  /\ CALIB_SAMPLES \in Nat \ {0}
  /\ DefaultThreshold \in Int /\ HostThreshold \in Int
  /\ MaxSeq \in Nat

CmdSize == 8     (* sizeof(struct ipc10_cmd_msg): cmd, threshold           *)
EventSize == 16  (* sizeof(struct ipc10_event_msg): x, y, z, seq           *)

Zero == [a \in Axes |-> 0]
Plus(f, g) == [a \in Axes |-> f[a] + g[a]]
Minus(f, g) == [a \in Axes |-> f[a] - g[a]]

(* mag: the sum of the absolute values of all axes.                        *)
Abs(n) == IF n < 0 THEN -n ELSE n
Mag(f) == Abs(f["x"]) + Abs(f["y"]) + Abs(f["z"])

(* Integer division of C, which rounds towards zero.                       *)
Quotient(n, d) == IF n < 0 THEN -((-n) \div d) ELSE n \div d

\* Fault: divides by the number of samples tried, not of those that succeeded.
Average_OfAll(sum, good) == [a \in Axes |-> Quotient(sum[a], CALIB_SAMPLES)]

Average(sum, good) == [a \in Axes |-> Quotient(sum[a], good)]

VARIABLES
  hpc,               (* host main: "boot", "pause", "done", "halted"       *)
  cmdBox, cmdOn,     (* mailbox direction M55 -> M4: thresholds            *)
  eventBox, eventOn, (* mailbox direction M4 -> M55                        *)
  mpc,               (* client main: "boot", "enabled", "ready", "halted"  *)
  accel_dev,         (* "absent", "asleep" (reads zero) or "awake"         *)
  tpc,               (* Threshold_Task: "off", "calibrate", "nap" (between *)
                     (* samples), "get", "sample", "send"                  *)
  i, sum, good_samples, base,       (* of calibrate_baseline()             *)
  cmd_msgq, threshold_milli_g,
  evt, seq,
  quiet,             (* now - last_event_ms > DEBOUNCE_MS                  *)
  \* History, never read by actions.
  seen,              (* the samples that the baseline is made of           *)
  lastEvent,         (* the seq of the latest event the host has logged    *)
  timely,            (* the command was queued before calibration ended    *)
  cmdLost            (* the command was lost                               *)

hostVars == <<hpc, lastEvent>>
cmdVars == <<cmdBox, cmdOn, cmdLost>>
eventVars == <<eventBox, eventOn>>
bootVars == <<mpc, accel_dev>>
calibVars == <<i, sum, good_samples, base, seen, timely>>
queueVars == <<cmd_msgq, threshold_milli_g>>
judgeVars == <<evt, seq, quiet>>
vars == <<hostVars, cmdVars, eventVars, bootVars, tpc, calibVars, queueVars,
          judgeVars>>

CmdChannel == INSTANCE Mailbox WITH box <- cmdBox, enabled <- cmdOn
EventChannel == INSTANCE Mailbox WITH box <- eventBox, enabled <- eventOn
CmdMsgQ == INSTANCE MsgQ WITH q <- cmd_msgq

Init ==
  /\ hpc = "boot" /\ lastEvent = 0
  /\ CmdChannel!Init /\ cmdLost = FALSE
  /\ EventChannel!Init
  /\ mpc = "boot" /\ accel_dev = "absent"
  /\ tpc = "off"
  /\ i = 0 /\ sum = Zero /\ good_samples = 0 /\ base = Zero /\ seen = {}
  /\ timely = FALSE
  /\ CmdMsgQ!Init /\ threshold_milli_g = DefaultThreshold
  /\ evt = [seq |-> 0, accel |-> Zero] /\ seq = 0 /\ quiet = FALSE
-----------------------------------------------------------------------------
(* The M55 host.                                                           *)

(* Register and enable, then k_msleep(200).                                *)
HostMain ==
  /\ hpc = "boot"
  /\ EventChannel!Enable
  /\ hpc' = "pause"
  /\ UNCHANGED <<lastEvent, cmdVars, bootVars, tpc, calibVars, queueVars,
                 judgeVars>>

HostMainFails ==
  /\ hpc = "boot"
  /\ hpc' = "halted"
  /\ UNCHANGED <<lastEvent, cmdVars, eventVars, bootVars, tpc, calibVars,
                 queueVars, judgeVars>>

(* The result of mbox_send_dt() is ignored.                                *)
SendThreshold ==
  /\ hpc = "pause"
  /\ hpc' = "done"
  /\ \/ CmdChannel!Post(HostThreshold, CmdSize) /\ UNCHANGED cmdLost
     \/ cmdLost' = TRUE /\ UNCHANGED <<cmdBox, cmdOn>>
  /\ UNCHANGED <<lastEvent, eventVars, bootVars, tpc, calibVars, queueVars,
                 judgeVars>>

HostRxCb ==
  \E e \in Range(eventBox) :
    /\ EventChannel!Interrupt(e)
    /\ lastEvent' = e.seq
    /\ UNCHANGED <<hpc, cmdVars, bootVars, tpc, calibVars, queueVars,
                   judgeVars>>

LoseEvent ==
  /\ EventChannel!Discard
  /\ UNCHANGED <<hostVars, cmdVars, bootVars, tpc, calibVars, queueVars,
                 judgeVars>>
-----------------------------------------------------------------------------
(* The M4 client: main() and the callback.                                 *)

\* Fault: the channel is registered, but never enabled.
ClientMain_NoEnable ==
  /\ mpc = "boot"
  /\ mpc' = "enabled"
  /\ UNCHANGED <<hostVars, cmdVars, eventVars, accel_dev, tpc, calibVars,
                 queueVars, judgeVars>>

ClientMain ==
  /\ mpc = "boot"
  /\ CmdChannel!Enable
  /\ mpc' = "enabled"
  /\ UNCHANGED <<hostVars, cmdLost, eventVars, accel_dev, tpc, calibVars,
                 queueVars, judgeVars>>

ClientMainFails ==
  /\ mpc = "boot"
  /\ mpc' = "halted"
  /\ UNCHANGED <<hostVars, cmdVars, eventVars, accel_dev, tpc, calibVars,
                 queueVars, judgeVars>>

(* The sensor is woken if that works, and the thread is created anyway.    *)
StartTask ==
  /\ mpc = "enabled"
  /\ mpc' = "ready"
  /\ accel_dev' \in {"absent", "asleep", "awake"}
  /\ tpc' = "calibrate"
  /\ UNCHANGED <<hostVars, cmdVars, eventVars, calibVars, queueVars, judgeVars>>

LoseCmd ==
  /\ CmdChannel!Discard
  /\ cmdLost' = TRUE
  /\ UNCHANGED <<hostVars, eventVars, bootVars, tpc, calibVars, queueVars,
                 judgeVars>>

ClientRxCb ==
  \E m \in Range(cmdBox) :
    /\ CmdChannel!Interrupt(m)
    /\ \/ CmdMsgQ!Put(m) /\ UNCHANGED cmdLost
       \/ CmdMsgQ!PutFails /\ cmdLost' = TRUE
    /\ UNCHANGED <<hostVars, eventVars, bootVars, tpc, calibVars,
                   threshold_milli_g, judgeVars>>
-----------------------------------------------------------------------------
(* The M4 client: Threshold_Task.                                          *)

(* read_accel_milli() returns 0 with reading r.                            *)
ReadAccel(r) ==
  \/ accel_dev = "awake" /\ r \in Readings
  \/ accel_dev = "asleep" /\ r = Zero

\* Fault: the loop takes one sample more than CALIB_SAMPLES.
CalibrateBaseline_OneMore ==
  /\ tpc = "calibrate"
  /\ i <= CALIB_SAMPLES
  /\ tpc' = "nap"
  /\ i' = i + 1
  /\ \/ \E r \in Readings \cup {Zero} :
          /\ ReadAccel(r)
          /\ sum' = Plus(sum, r)
          /\ good_samples' = good_samples + 1
          /\ seen' = seen \cup {r}
     \/ UNCHANGED <<sum, good_samples, seen>>
  /\ UNCHANGED <<hostVars, cmdVars, eventVars, bootVars, base, timely,
                 queueVars, judgeVars>>

(* One turn of the loop in calibrate_baseline(): read, or fail to read;    *)
(* then k_msleep() for a poll period.                                      *)
CalibrateBaseline ==
  /\ tpc = "calibrate"
  /\ i < CALIB_SAMPLES
  /\ tpc' = "nap"
  /\ i' = i + 1
  /\ \/ \E r \in Readings \cup {Zero} :
          /\ ReadAccel(r)
          /\ sum' = Plus(sum, r)
          /\ good_samples' = good_samples + 1
          /\ seen' = seen \cup {r}
     \/ UNCHANGED <<sum, good_samples, seen>>
  /\ UNCHANGED <<hostVars, cmdVars, eventVars, bootVars, base, timely,
                 queueVars, judgeVars>>

EndNap ==
  /\ tpc = "nap"
  /\ tpc' = "calibrate"
  /\ UNCHANGED <<hostVars, cmdVars, eventVars, bootVars, i, sum, good_samples,
                 base, seen, timely, queueVars, judgeVars>>

FinishCalibration ==
  /\ tpc = "calibrate"
  /\ i = CALIB_SAMPLES
  /\ base' = IF good_samples = 0 THEN Zero ELSE Average(sum, good_samples)
  /\ tpc' = "get"
  /\ timely' = (cmd_msgq # <<>>)
  /\ UNCHANGED <<hostVars, cmdVars, eventVars, bootVars, i, sum, good_samples,
                 seen, queueVars, judgeVars>>

(* k_msgq_get() returns 0: the command takes effect.                       *)
GetCmd ==
  /\ tpc = "get"
  /\ \E m \in Range(cmd_msgq) : CmdMsgQ!Get(m) /\ threshold_milli_g' = m
  /\ UNCHANGED <<hostVars, cmdVars, eventVars, bootVars, tpc, calibVars,
                 judgeVars>>

\* Fault: the sensor is polled before the queue is looked at.
PollTimeout_Unasked ==
  /\ tpc = "get"
  /\ tpc' = "sample"
  /\ UNCHANGED <<hostVars, cmdVars, eventVars, bootVars, calibVars, queueVars,
                 judgeVars>>

(* It times out after POLL_PERIOD_MS.                                      *)
PollTimeout ==
  /\ tpc = "get"
  /\ cmd_msgq = <<>>
  /\ tpc' = "sample"
  /\ UNCHANGED <<hostVars, cmdVars, eventVars, bootVars, calibVars, queueVars,
                 judgeVars>>

\* Fault: a failed read ends the thread.
SampleFails_GivesUp ==
  /\ tpc = "sample"
  /\ tpc' = "off"
  /\ UNCHANGED <<hostVars, cmdVars, eventVars, bootVars, calibVars, queueVars,
                 judgeVars>>

(* read_accel_milli() fails: continue.                                     *)
SampleFails ==
  /\ tpc = "sample"
  /\ tpc' = "get"
  /\ UNCHANGED <<hostVars, cmdVars, eventVars, bootVars, calibVars, queueVars,
                 judgeVars>>

Exceeds(r) == Mag(Minus(r, base)) > threshold_milli_g

(* The sample is near the baseline, or too soon after the latest event.    *)
SampleIsQuiet ==
  /\ tpc = "sample"
  /\ \E r \in Readings \cup {Zero} : ReadAccel(r) /\ ~(Exceeds(r) /\ quiet)
  /\ tpc' = "get"
  /\ UNCHANGED <<hostVars, cmdVars, eventVars, bootVars, calibVars, queueVars,
                 judgeVars>>

SampleIsEvent ==
  /\ tpc = "sample"
  /\ seq < MaxSeq
  /\ \E r \in Readings \cup {Zero} :
       /\ ReadAccel(r)
       /\ Exceeds(r) /\ quiet
       /\ evt' = [seq |-> seq + 1, accel |-> r]
  /\ seq' = seq + 1
  /\ quiet' = FALSE
  /\ tpc' = "send"
  /\ UNCHANGED <<hostVars, cmdVars, eventVars, bootVars, calibVars, queueVars>>

\* Fault: an event that could not be sent is put off until the next poll.
SendEvent_Later ==
  /\ tpc = "send"
  /\ EventChannel!Post(evt, EventSize) \/ UNCHANGED eventVars
  /\ tpc' \in {"get", "send"}
  /\ UNCHANGED <<hostVars, cmdVars, bootVars, calibVars, queueVars, judgeVars>>

(* The result of mbox_send_dt() is ignored: the event and its seq are gone.*)
SendEvent ==
  /\ tpc = "send"
  /\ EventChannel!Post(evt, EventSize) \/ UNCHANGED eventVars
  /\ tpc' = "get"
  /\ UNCHANGED <<hostVars, cmdVars, bootVars, calibVars, queueVars, judgeVars>>

(* DEBOUNCE_MS have passed since the latest event, or since boot.          *)
DebounceElapses ==
  /\ ~quiet
  /\ quiet' = TRUE
  /\ UNCHANGED <<hostVars, cmdVars, eventVars, bootVars, tpc, calibVars,
                 queueVars, evt, seq>>
-----------------------------------------------------------------------------
(* Without Threshold_Task nothing moves; or the bound of the model is      *)
(* reached.                                                                *)
AtRest ==
  /\ hpc \in {"done", "halted"} /\ quiet
  /\ \/ mpc = "halted"
     \/ tpc = "sample" /\ seq = MaxSeq

Rest == AtRest /\ UNCHANGED vars

Next ==
  \/ HostMain \/ HostMainFails \/ SendThreshold \/ HostRxCb \/ LoseEvent
  \/ ClientMain \/ ClientMainFails \/ StartTask \/ LoseCmd \/ ClientRxCb
  \/ CalibrateBaseline \/ EndNap \/ FinishCalibration
  \/ GetCmd \/ PollTimeout \/ SampleFails \/ SampleIsQuiet \/ SampleIsEvent
  \/ SendEvent \/ DebounceElapses
  \/ Rest

Spec == Init /\ [][Next]_vars

(* Both cores run, sleeps and timeouts end, interrupts are served, a send  *)
(* that finds a free slot returns.  Neither a send nor a read must fail.   *)
Fairness ==
  /\ WF_vars(HostMain \/ HostMainFails)
  /\ WF_vars(SendThreshold)
  /\ WF_vars(HostRxCb)
  /\ WF_vars(ClientMain \/ ClientMainFails)
  /\ WF_vars(StartTask)
  /\ WF_vars(ClientRxCb)
  /\ WF_vars(CalibrateBaseline)
  /\ WF_vars(EndNap)
  /\ WF_vars(FinishCalibration)
  /\ WF_vars(GetCmd \/ PollTimeout)
  /\ WF_vars(SampleFails \/ SampleIsQuiet \/ SampleIsEvent)
  /\ WF_vars(SendEvent /\ ~UNCHANGED eventBox)
  /\ WF_vars(DebounceElapses)

FairSpec == Spec /\ Fairness
-----------------------------------------------------------------------------
(* Type invariant: buffers stay within their sizes, and calibration never  *)
(* takes more samples than it counts.                                      *)
Thresholds == {DefaultThreshold, HostThreshold}
Event == [seq : 0..MaxSeq, accel : Readings \cup {Zero}]

TypeOK ==
  /\ hpc \in {"boot", "pause", "done", "halted"} /\ lastEvent \in 0..MaxSeq
  /\ cmdBox \in Seq(Thresholds) /\ Len(cmdBox) <= Slots
  /\ cmdOn \in BOOLEAN /\ cmdLost \in BOOLEAN
  /\ eventBox \in Seq(Event) /\ Len(eventBox) <= Slots /\ eventOn \in BOOLEAN
  /\ mpc \in {"boot", "enabled", "ready", "halted"}
  /\ accel_dev \in {"absent", "asleep", "awake"}
  /\ tpc \in {"off", "calibrate", "nap", "get", "sample", "send"}
  /\ tpc = "off" <=> mpc # "ready"
  /\ i \in 0..CALIB_SAMPLES /\ good_samples \in 0..i
  /\ sum \in [Axes -> Int] /\ base \in [Axes -> Int]
  /\ seen \subseteq Readings \cup {Zero}
  /\ cmd_msgq \in Seq(Thresholds) /\ Len(cmd_msgq) <= Depth
  /\ threshold_milli_g \in Thresholds
  /\ evt \in Event /\ seq \in 0..MaxSeq /\ quiet \in BOOLEAN
  /\ timely \in BOOLEAN

(* Every event means motion, if any read of the calibration succeeded: its *)
(* sample differs from one of those samples by more than the threshold, but*)
(* for one unit per axis that rounding may cost.  A board that stays as it *)
(* was calibrated is silent, however it is tilted.                         *)
EventMeansMotion ==
  [][seq' # seq /\ seen # {} =>
       \E r \in seen :
         Mag(Minus(evt'.accel, r)) > threshold_milli_g - Cardinality(Axes)]_vars

(* A threshold that reaches M4 during calibration rules every event, the   *)
(* first one included.                                                     *)
TimelyThresholdRules ==
  [][seq' # seq /\ timely => threshold_milli_g = HostThreshold]_vars

(* Events come in the order of their samples, each at most once; those     *)
(* that are lost leave a gap in seq and nothing else.                      *)
InFlight == {e.seq : e \in Range(eventBox)} \cup IF tpc = "send" THEN {seq} ELSE {}
Service == INSTANCE InOrderDelivery
             WITH offered <- seq, pending <- InFlight, last <- lastEvent
EventsInOrder == Service!Spec

(* The host's threshold comes into force, unless it is lost or the client's*)
(* main() has returned: neither polling nor a blocked send starves it.     *)
ThresholdTakesEffect ==
  hpc = "pause" ~>
    threshold_milli_g = HostThreshold \/ cmdLost \/ mpc = "halted"

(* Polling never stops for good: not for a failed read, not for a command  *)
(* and not for a send, unless nobody fetches the events.                   *)
PollingGoesOn ==
  \/ []<>(tpc = "get") /\ []<>(tpc = "sample")
  \/ <>(mpc = "halted" \/ hpc = "halted" \/ seq = MaxSeq)

(* 10_threshold_event_en.md:168: no event once calibration has finished if *)
(* the board is left still, that is, if the sensor has but one reading.    *)
StillBoardIsSilent == Cardinality(Readings) = 1 => seq = 0
=============================================================================
