--------------------------- MODULE AccelTelemetry ---------------------------
(***************************************************************************)
(* Lab 09: the client wakes its accelerometer, reads it twice per second   *)
(* and sends every sample, numbered, to the host, whose callback logs it.  *)
(* The three axes are read and converted alike: one stands for all.        *)
(***************************************************************************)
EXTENDS Integers, Sequences, FiniteSets, Functions

CONSTANTS
  Slots, Mtu,  (* of the mailbox direction M4 -> M55                       *)
  Readings,    (* what the sensor may measure, as struct sensor_value      *)
  MaxSeq       (* the bound of the model: then every fetch fails           *)

MICRO == 1000 * 1000  (* val2 is in millionths of the unit of val1         *)

ASSUME AccelTelemetryAssumption ==
  /\ Slots \in Nat \ {0}
  /\ Mtu \in Nat /\ Mtu >= 16
  /\ Readings \subseteq [val1 : Int, val2 : (1 - MICRO)..(MICRO - 1)]
  /\ \A v \in Readings : (v.val1 >= 0 /\ v.val2 >= 0) \/ (v.val1 <= 0 /\ v.val2 <= 0)
  /\ MaxSeq \in Nat

MsgSize == 16  (* sizeof(struct ipc_accel_msg): three int32_t, a uint32_t  *)
Zero == [val1 |-> 0, val2 |-> 0]

(* A sensor_value is val1 + val2 / 10^6, both parts of the same sign; C    *)
(* rounds towards zero.                                                    *)
Thousandth(n) == IF n >= 0 THEN n \div 1000 ELSE -((-n) \div 1000)

\* Fault: only the whole units are converted.
SensorValToMilli_Whole(v) == v.val1 * 1000

SensorValToMilli(v) == v.val1 * 1000 + Thousandth(v.val2)

VARIABLES
  hmain,            (* host main: "boot", "ready", "halted" (returned)     *)
  msgBox, msgOn,    (* mailbox direction M4 -> M55                         *)
  cmain,            (* client main: "boot", "fetch", "send", "sleep",      *)
                    (* "halted" (returned)                                 *)
  awake, scaled,    (* the sensor has an ODR, the driver a sensitivity     *)
  msg,              (* main's message; its fields x, y, z as one           *)
  \* History, never read by actions.
  measured,         (* what the sensor measured for seq 1, 2, ...          *)
  lost,             (* the seqs that did not get through                   *)
  rows, row         (* how many rows the console has, and the latest one   *)

consoleVars == <<rows, row>>
hostVars == <<hmain, consoleVars>>
msgVars == <<msgBox, msgOn>>
sensorVars == <<awake, scaled>>
vars == <<hostVars, msgVars, cmain, sensorVars, msg, measured, lost>>

MsgChannel == INSTANCE Mailbox WITH box <- msgBox, enabled <- msgOn

Init ==
  /\ hmain = "boot"
  /\ MsgChannel!Init
  /\ cmain = "boot" /\ awake = FALSE /\ scaled = FALSE
  /\ msg = [xyz |-> 0, seq |-> 0]
  /\ measured = <<>> /\ lost = {}
  /\ rows = 0 /\ row = [xyz |-> 0, seq |-> 0]
-----------------------------------------------------------------------------
(* The M55 host.                                                           *)

\* Fault: the callback is registered, but the channel is never enabled.
HostMain_NoEnable ==
  /\ hmain = "boot"
  /\ hmain' = "ready"
  /\ UNCHANGED <<consoleVars, msgVars, cmain, sensorVars, msg, measured, lost>>

HostMain ==
  /\ hmain = "boot"
  /\ \/ MsgChannel!Enable /\ hmain' = "ready"
     \/ hmain' = "halted" /\ UNCHANGED msgVars
  /\ UNCHANGED <<consoleVars, cmain, sensorVars, msg, measured, lost>>

RxCb ==
  \E m \in Range(msgBox) :
    /\ MsgChannel!Interrupt(m)
    /\ row' = m
    /\ rows' = rows + 1
    /\ UNCHANGED <<hmain, cmain, sensorVars, msg, measured, lost>>
-----------------------------------------------------------------------------
(* The M4 client.                                                          *)

(* Either attribute may fail to be set, and sampling begins all the same.  *)
ClientMain ==
  /\ cmain = "boot"
  /\ cmain' = "fetch"
  /\ awake' \in BOOLEAN /\ scaled' \in BOOLEAN
  /\ UNCHANGED <<hostVars, msgVars, msg, measured, lost>>

ClientMainFails ==
  /\ cmain = "boot"
  /\ cmain' = "halted"
  /\ UNCHANGED <<hostVars, msgVars, sensorVars, msg, measured, lost>>

(* While the sensor sleeps, or its sensitivity is 0, everything reads 0.   *)
FetchSample ==
  /\ cmain = "fetch" /\ msg.seq < MaxSeq
  /\ \E v \in Readings :
       LET read == IF awake /\ scaled THEN v ELSE Zero IN
         /\ msg' = [xyz |-> SensorValToMilli(read), seq |-> msg.seq + 1]
         /\ measured' = Append(measured, v)
  /\ cmain' = "send"
  /\ UNCHANGED <<hostVars, msgVars, sensorVars, lost>>

\* Fault: the sample is numbered before it is fetched.
FetchFails_Numbers ==
  /\ cmain = "fetch" /\ msg.seq < MaxSeq
  /\ msg' = [msg EXCEPT !.seq = @ + 1]
  /\ measured' = Append(measured, Zero)
  /\ cmain' = "sleep"
  /\ UNCHANGED <<hostVars, msgVars, sensorVars, lost>>

(* A failed fetch is logged and spends no seq.                             *)
FetchFails ==
  /\ cmain = "fetch"
  /\ cmain' = "sleep"
  /\ UNCHANGED <<hostVars, msgVars, sensorVars, msg, measured, lost>>

(* The result of mbox_send_dt() is ignored.                                *)
SendSample ==
  /\ cmain = "send"
  /\ \/ MsgChannel!Post(msg, MsgSize) /\ UNCHANGED lost
     \/ lost' = lost \cup {msg.seq} /\ UNCHANGED msgVars
  /\ cmain' = "sleep"
  /\ UNCHANGED <<hostVars, sensorVars, msg, measured>>

(* k_msleep(SAMPLE_PERIOD_MS) is over.                                     *)
Wake ==
  /\ cmain = "sleep"
  /\ cmain' = "fetch"
  /\ UNCHANGED <<hostVars, msgVars, sensorVars, msg, measured, lost>>

(* A sample posted before the host has enabled its channel goes unheard.   *)
LoseSample ==
  /\ MsgChannel!Discard
  /\ lost' = lost \cup {Head(msgBox).seq}
  /\ UNCHANGED <<hostVars, cmain, sensorVars, msg, measured>>
-----------------------------------------------------------------------------
(* The system may stop only if main() of one core has returned.            *)
AtRest ==
  \/ cmain = "halted" /\ hmain # "boot"
  \/ cmain = "send" /\ hmain = "halted"

Rest == AtRest /\ UNCHANGED vars

Next ==
  \/ HostMain \/ RxCb
  \/ ClientMain \/ ClientMainFails
  \/ FetchSample \/ FetchFails \/ SendSample \/ Wake \/ LoseSample
  \/ Rest

Spec == Init /\ [][Next]_vars

(* Both cores run, boots and sleeps end, interrupts are served, and a send *)
(* that finds a free slot returns.  Neither a send nor a fetch must fail.  *)
Fairness ==
  /\ WF_vars(HostMain)
  /\ WF_vars(RxCb)
  /\ WF_vars(ClientMain \/ ClientMainFails)
  /\ WF_vars(FetchSample \/ FetchFails)
  /\ WF_vars(SendSample /\ ~UNCHANGED msgBox)
  /\ WF_vars(Wake)

FairSpec == Spec /\ Fairness
-----------------------------------------------------------------------------
(* Type invariant of both cores.                                           *)
Sample == [xyz : Int, seq : 0..MaxSeq]

TypeOK ==
  /\ hmain \in {"boot", "ready", "halted"}
  /\ msgBox \in Seq(Sample) /\ Len(msgBox) <= Slots /\ msgOn \in BOOLEAN
  /\ cmain \in {"boot", "fetch", "send", "sleep", "halted"}
  /\ awake \in BOOLEAN /\ scaled \in BOOLEAN
  /\ msg \in Sample /\ measured \in Seq(Readings) /\ lost \subseteq 1..MaxSeq
  /\ rows \in Nat /\ row \in Sample

(* The console's gaps are the lost messages: at every row, the samples that*)
(* its seq says have no row are those whose send failed or went unheard.   *)
(* A failed fetch leaves no gap, and no sample has two rows.               *)
GapsTellLosses == row.seq - rows = Cardinality({n \in lost : n < row.seq})

(* A row with seq n tells what the sensor measured for seq n, rounded to a *)
(* thousandth towards zero, or 0 if the sensor was not set up: no row mixes*)
(* one sample's number with another one's value.                           *)
Micro(v) == v.val1 * MICRO + v.val2
Truncates(milli, micro) ==
  IF micro >= 0 THEN milli * 1000 \in (micro - 999)..micro
                ELSE milli * 1000 \in micro..(micro + 999)

RowsAreTrue ==
  row.seq > 0 =>
    IF awake /\ scaled THEN Truncates(row.xyz, Micro(measured[row.seq]))
                       ELSE row.xyz = 0

(* Sampling never stops for good, neither for a failed fetch nor for a send*)
(* that waits for the host, unless main() of one core has returned.        *)
SamplingGoesOn ==
  []<>(cmain = "fetch") \/ <>(cmain = "halted" \/ hmain = "halted")
=============================================================================
