------------------------ MODULE ThresholdEventProofs ------------------------
(***************************************************************************)
(* Theorems about ThresholdEvent, for every board, sensor and threshold,   *)
(* every capacity of the mailbox and of the queue, and every number of     *)
(* samples and events: events mean motion, a timely threshold rules, and   *)
(* events come in order.                                                   *)
(* The second half is about lab 09, which reads the same sensor, as the    *)
(* instance Accel: gaps in the rows are losses, and every row is true.     *)
(***************************************************************************)
EXTENDS ThresholdEvent, QueueLemmas, FiniteSetTheorems

(* Readings, sums and averages have a whole number for every axis.         *)
LEMMA VectorsAreIntegral ==
  /\ Zero \in [Axes -> Int]
  /\ \A r \in Readings \cup {Zero} : r \in [Axes -> Int]
  /\ \A f, g \in [Axes -> Int] : Plus(f, g) \in [Axes -> Int]
<1>1. Zero \in [Axes -> Int]
  BY DEF Zero
<1>2. \A r \in Readings \cup {Zero} : r \in [Axes -> Int]
  BY <1>1, ThresholdEventAssumption
<1>3. ASSUME NEW f \in [Axes -> Int], NEW g \in [Axes -> Int]
      PROVE  Plus(f, g) \in [Axes -> Int]
  BY DEF Plus
<1>4. QED
  BY <1>1, <1>2, <1>3

LEMMA QuotientIsInt ==
  ASSUME NEW n \in Int, NEW d \in Nat, d # 0 PROVE Quotient(n, d) \in Int
<1>1. \A m \in Int : m \div d \in Int
  OBVIOUS
<1>2. -n \in Int
  OBVIOUS
<1>3. n \div d \in Int /\ (-n) \div d \in Int
  BY <1>1, <1>2
<1>4. -((-n) \div d) \in Int
  BY <1>3
<1>5. QED
  BY <1>3, <1>4 DEF Quotient

LEMMA AverageIsIntegral ==
  ASSUME NEW f \in [Axes -> Int], NEW d \in Nat, d # 0
  PROVE  Average(f, d) \in [Axes -> Int]
<1>1. \A a \in Axes : Quotient(f[a], d) \in Int
  BY QuotientIsInt
<1>2. QED
  BY <1>1 DEF Average

LEMMA EventFields ==
  ASSUME NEW e \in Event
  PROVE  e.seq \in 0..MaxSeq /\ e.accel \in Readings \cup {Zero}
BY DEF Event

LEMMA TypeInit == Init => TypeOK
<1> SUFFICES ASSUME Init PROVE TypeOK
  OBVIOUS
<1>1. /\ cmdBox = <<>> /\ cmdOn = FALSE /\ eventBox = <<>> /\ eventOn = FALSE
      /\ cmd_msgq = <<>>
  BY DEF Init, CmdChannel!Init, EventChannel!Init, CmdMsgQ!Init
<1>2. /\ <<>> \in Seq(Thresholds) /\ <<>> \in Seq(Event) /\ Len(<<>>) = 0
      /\ 0 <= Slots /\ 0 <= Depth
  BY EmptySeq, ThresholdEventAssumption
<1>3. cmdOn \in BOOLEAN /\ eventOn \in BOOLEAN
  BY <1>1
<1>4. /\ hpc = "boot" /\ lastEvent = 0 /\ cmdLost = FALSE /\ mpc = "boot"
      /\ accel_dev = "absent" /\ tpc = "off" /\ i = 0 /\ sum = Zero
      /\ good_samples = 0 /\ base = Zero /\ seen = {} /\ timely = FALSE
      /\ threshold_milli_g = DefaultThreshold
      /\ evt = [seq |-> 0, accel |-> Zero] /\ seq = 0 /\ quiet = FALSE
  BY DEF Init
<1>5. cmdLost \in BOOLEAN /\ timely \in BOOLEAN /\ quiet \in BOOLEAN
  BY <1>4
<1>6. /\ 0 \in 0..MaxSeq /\ 0 \in 0..CALIB_SAMPLES /\ 0 \in 0..0
  BY ThresholdEventAssumption
<1>7. evt \in Event /\ threshold_milli_g \in Thresholds
  BY <1>4, <1>6 DEF Event, Thresholds
<1>8. sum \in [Axes -> Int] /\ base \in [Axes -> Int]
  BY <1>4, VectorsAreIntegral
<1>9. QED
  BY <1>1, <1>2, <1>3, <1>4, <1>5, <1>6, <1>7, <1>8 DEF TypeOK

LEMMA TypeStep == TypeOK /\ [Next]_vars => TypeOK'
<1> SUFFICES ASSUME TypeOK, [Next]_vars PROVE TypeOK'
  OBVIOUS
<1>a. Slots \in Nat /\ Depth \in Nat /\ CALIB_SAMPLES \in Nat /\ MaxSeq \in Nat
  BY ThresholdEventAssumption
<1>b. /\ cmdBox \in Seq(Thresholds) /\ Len(cmdBox) <= Slots
      /\ eventBox \in Seq(Event) /\ Len(eventBox) <= Slots
      /\ cmd_msgq \in Seq(Thresholds) /\ Len(cmd_msgq) <= Depth
      /\ Len(cmdBox) \in Nat /\ Len(eventBox) \in Nat /\ Len(cmd_msgq) \in Nat
  BY LenProperties DEF TypeOK
<1>c. /\ i \in Nat /\ i <= CALIB_SAMPLES /\ good_samples \in Nat
      /\ good_samples <= i /\ seq \in Nat /\ seq <= MaxSeq
  BY <1>a DEF TypeOK
<1> USE DEF TypeOK, hostVars, cmdVars, eventVars, bootVars, calibVars,
      queueVars, judgeVars
<1>1. CASE HostMain
  BY <1>1 DEF HostMain, EventChannel!Enable
<1>2. CASE HostMainFails
  BY <1>2 DEF HostMainFails
<1>3. CASE SendThreshold
  <2>1. CASE CmdChannel!Post(HostThreshold, CmdSize) /\ UNCHANGED cmdLost
    <3>1. /\ cmdBox' = Append(cmdBox, HostThreshold) /\ Len(cmdBox) < Slots
          /\ cmdOn' = cmdOn
      BY <2>1 DEF CmdChannel!Post
    <3>2. HostThreshold \in Thresholds
      BY DEF Thresholds
    <3>3. cmdBox' \in Seq(Thresholds) /\ Len(cmdBox') <= Slots
      BY <1>a, <1>b, <3>1, <3>2, Puts
    <3>4. QED
      BY <1>3, <2>1, <3>1, <3>3 DEF SendThreshold
  <2>2. CASE cmdLost' = TRUE /\ UNCHANGED <<cmdBox, cmdOn>>
    BY <1>3, <2>2 DEF SendThreshold
  <2>3. QED
    BY <1>3, <2>1, <2>2 DEF SendThreshold
<1>4. CASE HostRxCb
  <2>1. PICK e \in Range(eventBox) :
          EventChannel!Interrupt(e) /\ lastEvent' = e.seq
    BY <1>4 DEF HostRxCb
  <2>2. /\ eventBox # <<>> /\ e = Head(eventBox)
        /\ eventBox' = Tail(eventBox) /\ eventOn' = eventOn
    BY <2>1 DEF EventChannel!Interrupt
  <2>3. eventBox' \in Seq(Event) /\ Len(eventBox') <= Slots /\ e \in Event
    BY <1>a, <1>b, <2>2, Takes
  <2>4. lastEvent' \in 0..MaxSeq
    BY <2>1, <2>3, EventFields
  <2>5. QED
    BY <1>4, <2>2, <2>3, <2>4 DEF HostRxCb
<1>5. CASE LoseEvent
  <2>1. /\ eventBox # <<>> /\ eventBox' = Tail(eventBox)
        /\ eventOn' = eventOn
    BY <1>5 DEF LoseEvent, EventChannel!Discard
  <2>2. eventBox' \in Seq(Event) /\ Len(eventBox') <= Slots
    BY <1>a, <1>b, <2>1, Takes
  <2>3. QED
    BY <1>5, <2>1, <2>2 DEF LoseEvent
<1>6. CASE ClientMain
  BY <1>6 DEF ClientMain, CmdChannel!Enable
<1>7. CASE ClientMainFails
  BY <1>7 DEF ClientMainFails
<1>8. CASE StartTask
  BY <1>8 DEF StartTask
<1>9. CASE LoseCmd
  <2>1. cmdBox # <<>> /\ cmdBox' = Tail(cmdBox) /\ cmdOn' = cmdOn
    BY <1>9 DEF LoseCmd, CmdChannel!Discard
  <2>2. cmdBox' \in Seq(Thresholds) /\ Len(cmdBox') <= Slots
    BY <1>a, <1>b, <2>1, Takes
  <2>3. QED
    BY <1>9, <2>1, <2>2 DEF LoseCmd
<1>10. CASE ClientRxCb
  <2>1. PICK m \in Range(cmdBox) :
          /\ CmdChannel!Interrupt(m)
          /\ \/ CmdMsgQ!Put(m) /\ UNCHANGED cmdLost
             \/ CmdMsgQ!PutFails /\ cmdLost' = TRUE
    BY <1>10 DEF ClientRxCb
  <2>2. /\ cmdBox # <<>> /\ m = Head(cmdBox) /\ cmdBox' = Tail(cmdBox)
        /\ cmdOn' = cmdOn
    BY <2>1 DEF CmdChannel!Interrupt
  <2>3. /\ cmdBox' \in Seq(Thresholds) /\ Len(cmdBox') <= Slots
        /\ m \in Thresholds
    BY <1>a, <1>b, <2>2, Takes
  <2>4. CASE CmdMsgQ!Put(m) /\ UNCHANGED cmdLost
    <3>1. cmd_msgq' = Append(cmd_msgq, m) /\ Len(cmd_msgq) < Depth
      BY <1>a, <1>b, <2>4 DEF CmdMsgQ!Put, CmdMsgQ!Full
    <3>2. cmd_msgq' \in Seq(Thresholds) /\ Len(cmd_msgq') <= Depth
      BY <1>a, <1>b, <2>3, <3>1, Puts
    <3>3. QED
      BY <1>10, <2>2, <2>3, <2>4, <3>2 DEF ClientRxCb
  <2>5. CASE CmdMsgQ!PutFails /\ cmdLost' = TRUE
    BY <1>10, <2>2, <2>3, <2>5 DEF ClientRxCb, CmdMsgQ!PutFails
  <2>6. QED
    BY <2>1, <2>4, <2>5
<1>11. CASE CalibrateBaseline
  <2>1. /\ i' \in 0..CALIB_SAMPLES /\ good_samples \in 0..i'
        /\ good_samples + 1 \in 0..i'
    BY <1>a, <1>c, <1>11 DEF CalibrateBaseline
  <2>2. CASE UNCHANGED <<sum, good_samples, seen>>
    BY <1>11, <2>1, <2>2 DEF CalibrateBaseline
  <2>3. ASSUME NEW r \in Readings \cup {Zero},
               sum' = Plus(sum, r), good_samples' = good_samples + 1,
               seen' = seen \cup {r}
        PROVE  TypeOK'
    <3>1. sum' \in [Axes -> Int]
      BY <2>3, VectorsAreIntegral
    <3>2. seen' \subseteq Readings \cup {Zero}
      BY <2>3
    <3>3. QED
      BY <1>11, <2>1, <2>3, <3>1, <3>2 DEF CalibrateBaseline
  <2>4. QED
    BY <1>11, <2>2, <2>3 DEF CalibrateBaseline
<1>12. CASE EndNap
  BY <1>12 DEF EndNap
<1>13. CASE FinishCalibration
  <2>1. base' \in [Axes -> Int]
    BY <1>c, <1>13, VectorsAreIntegral, AverageIsIntegral
       DEF FinishCalibration
  <2>2. timely' \in BOOLEAN
    BY <1>13 DEF FinishCalibration
  <2>3. QED
    BY <1>13, <2>1, <2>2 DEF FinishCalibration
<1>14. CASE GetCmd
  <2>1. /\ cmd_msgq # <<>> /\ cmd_msgq' = Tail(cmd_msgq)
        /\ threshold_milli_g' = Head(cmd_msgq)
    BY <1>14 DEF GetCmd, CmdMsgQ!Get
  <2>2. /\ cmd_msgq' \in Seq(Thresholds) /\ Len(cmd_msgq') <= Depth
        /\ threshold_milli_g' \in Thresholds
    BY <1>a, <1>b, <2>1, Takes
  <2>3. QED
    BY <1>14, <2>2 DEF GetCmd
<1>15. CASE PollTimeout \/ SampleFails \/ SampleIsQuiet
  BY <1>15 DEF PollTimeout, SampleFails, SampleIsQuiet
<1>16. CASE SampleIsEvent
  <2>1. seq' \in 0..MaxSeq
    BY <1>a, <1>c, <1>16 DEF SampleIsEvent
  <2>2. evt' \in Event
    BY <1>16, <2>1 DEF SampleIsEvent, Event
  <2>3. quiet' \in BOOLEAN
    BY <1>16 DEF SampleIsEvent
  <2>4. QED
    BY <1>16, <2>1, <2>2, <2>3 DEF SampleIsEvent
<1>17. CASE SendEvent
  <2>1. CASE EventChannel!Post(evt, EventSize)
    <3>1. /\ eventBox' = Append(eventBox, evt) /\ Len(eventBox) < Slots
          /\ eventOn' = eventOn
      BY <2>1 DEF EventChannel!Post
    <3>2. eventBox' \in Seq(Event) /\ Len(eventBox') <= Slots
      BY <1>a, <1>b, <3>1, Puts
    <3>3. QED
      BY <1>17, <3>1, <3>2 DEF SendEvent
  <2>2. CASE UNCHANGED eventVars
    BY <1>17, <2>2 DEF SendEvent
  <2>3. QED
    BY <1>17, <2>1, <2>2 DEF SendEvent
<1>18. CASE DebounceElapses
  BY <1>18 DEF DebounceElapses
<1>19. CASE Rest \/ UNCHANGED vars
  BY <1>19 DEF Rest, vars
<1>20. QED
  BY <1>1, <1>2, <1>3, <1>4, <1>5, <1>6, <1>7, <1>8, <1>9, <1>10, <1>11,
     <1>12, <1>13, <1>14, <1>15, <1>16, <1>17, <1>18, <1>19 DEF Next

LEMMA TypeAlways == Spec => []TypeOK
BY TypeInit, TypeStep, PTL DEF Spec

(* Type correctness: buffers stay within their sizes, the calibration      *)
(* takes no sample too many, and the baseline is made of whole numbers.    *)
THEOREM TypeCorrect == Spec => []TypeOK
BY TypeAlways, PTL
-----------------------------------------------------------------------------
(* Whatever is on its way to Threshold_Task is the host's threshold, and   *)
(* once calibration has ended with a command in the queue, the thread does *)
(* not leave "get" before the command is in force.                         *)
CommandsAreHosts ==
  \A m \in Range(cmdBox) \cup Range(cmd_msgq) : m = HostThreshold
TimelyWaits ==
  timely => \/ tpc = "get" /\ cmd_msgq # <<>>
            \/ threshold_milli_g = HostThreshold

(* SendThreshold, ClientRxCb, LoseCmd and GetCmd: commands are moved and   *)
(* lost, and none is made up.                                              *)
LEMMA CommandsStep ==
  TypeOK /\ CommandsAreHosts /\ [Next]_vars => CommandsAreHosts'
<1> SUFFICES ASSUME TypeOK, CommandsAreHosts, [Next]_vars
             PROVE  CommandsAreHosts'
  OBVIOUS
<1>a. /\ cmdBox \in Seq(Thresholds) /\ cmd_msgq \in Seq(Thresholds)
      /\ HostThreshold \in Thresholds
  BY DEF TypeOK, Thresholds
<1>1. CASE SendThreshold
  <2>1. cmd_msgq' = cmd_msgq
    BY <1>1 DEF SendThreshold, queueVars
  <2>2. CASE CmdChannel!Post(HostThreshold, CmdSize)
    <3>1. Range(cmdBox') = Range(cmdBox) \cup {HostThreshold}
      BY <1>a, <2>2, RangeAppend DEF CmdChannel!Post
    <3>2. QED
      BY <2>1, <3>1 DEF CommandsAreHosts
  <2>3. CASE UNCHANGED cmdBox
    BY <2>1, <2>3 DEF CommandsAreHosts
  <2>4. QED
    BY <1>1, <2>2, <2>3 DEF SendThreshold
<1>2. CASE LoseCmd
  <2>1. cmdBox # <<>> /\ cmdBox' = Tail(cmdBox) /\ cmd_msgq' = cmd_msgq
    BY <1>2 DEF LoseCmd, CmdChannel!Discard, queueVars
  <2>2. \A m \in Range(cmdBox') : m \in Range(cmdBox)
    BY <1>a, <2>1, AfterTail
  <2>3. QED
    BY <2>1, <2>2 DEF CommandsAreHosts
<1>3. CASE ClientRxCb
  <2>1. PICK m \in Range(cmdBox) :
          /\ CmdChannel!Interrupt(m)
          /\ CmdMsgQ!Put(m) \/ CmdMsgQ!PutFails
    BY <1>3 DEF ClientRxCb
  <2>2. cmdBox # <<>> /\ cmdBox' = Tail(cmdBox) /\ m = Head(cmdBox)
    BY <2>1 DEF CmdChannel!Interrupt
  <2>3. m \in Thresholds /\ \A x \in Range(cmdBox') : x \in Range(cmdBox)
    BY <1>a, <2>2, AfterTail
  <2>4. \A x \in Range(cmd_msgq') : x \in Range(cmd_msgq) \/ x = m
    <3>1. CASE CmdMsgQ!Put(m)
      <4>1. Range(cmd_msgq') = Range(cmd_msgq) \cup {m}
        BY <1>a, <2>3, <3>1, RangeAppend DEF CmdMsgQ!Put
      <4>2. QED
        BY <4>1
    <3>2. CASE CmdMsgQ!PutFails
      BY <3>2 DEF CmdMsgQ!PutFails
    <3>3. QED
      BY <2>1, <3>1, <3>2
  <2>5. QED
    BY <2>1, <2>3, <2>4 DEF CommandsAreHosts
<1>4. CASE GetCmd
  <2>1. cmd_msgq # <<>> /\ cmd_msgq' = Tail(cmd_msgq) /\ cmdBox' = cmdBox
    BY <1>4 DEF GetCmd, CmdMsgQ!Get, cmdVars
  <2>2. \A m \in Range(cmd_msgq') : m \in Range(cmd_msgq)
    BY <1>a, <2>1, AfterTail
  <2>3. QED
    BY <2>1, <2>2 DEF CommandsAreHosts
<1>5. CASE UNCHANGED <<cmdBox, cmd_msgq>>
  BY <1>5 DEF CommandsAreHosts
<1>6. QED
  BY <1>1, <1>2, <1>3, <1>4, <1>5
     DEF Next, vars, cmdVars, queueVars, HostMain, HostMainFails, HostRxCb,
         LoseEvent, ClientMain, CmdChannel!Enable, ClientMainFails, StartTask,
         CalibrateBaseline, EndNap, FinishCalibration, PollTimeout,
         SampleFails, SampleIsQuiet, SampleIsEvent, SendEvent,
         DebounceElapses, Rest

LEMMA TimelyStep ==
  TypeOK /\ CommandsAreHosts /\ TimelyWaits /\ [Next]_vars => TimelyWaits'
<1> SUFFICES ASSUME TypeOK, CommandsAreHosts, TimelyWaits, [Next]_vars
             PROVE  TimelyWaits'
  OBVIOUS
<1>1. CASE ClientRxCb
  <2>1. UNCHANGED <<timely, tpc, threshold_milli_g>>
    BY <1>1 DEF ClientRxCb, calibVars
  <2>2. cmd_msgq # <<>> => cmd_msgq' # <<>>
    <3>1. PICK m \in Range(cmdBox) :
            /\ CmdChannel!Interrupt(m)
            /\ CmdMsgQ!Put(m) \/ CmdMsgQ!PutFails
      BY <1>1 DEF ClientRxCb
    <3>2. m \in Thresholds
      BY <3>1, AfterTail DEF CmdChannel!Interrupt, TypeOK
    <3>3. CASE CmdMsgQ!Put(m)
      <4>1. /\ cmd_msgq' = Append(cmd_msgq, m)
            /\ cmd_msgq \in Seq(Thresholds)
        BY <3>3 DEF CmdMsgQ!Put, TypeOK
      <4>2. QED
        BY <3>2, <4>1, AppendProperties
    <3>4. CASE CmdMsgQ!PutFails
      BY <3>4 DEF CmdMsgQ!PutFails
    <3>5. QED
      BY <3>1, <3>3, <3>4
  <2>3. QED
    BY <2>1, <2>2 DEF TimelyWaits
<1>2. CASE FinishCalibration
  BY <1>2 DEF FinishCalibration, TimelyWaits, queueVars
<1>3. CASE GetCmd
  <2>1. threshold_milli_g' \in Range(cmd_msgq)
    BY <1>3 DEF GetCmd
  <2>2. QED
    BY <2>1 DEF CommandsAreHosts, TimelyWaits
<1>4. CASE StartTask
  <2>1. tpc = "off" /\ UNCHANGED <<timely, threshold_milli_g>>
    BY <1>4 DEF StartTask, TypeOK, calibVars, queueVars
  <2>2. QED
    BY <2>1 DEF TimelyWaits
<1>5. CASE PollTimeout
  BY <1>5 DEF PollTimeout, TimelyWaits, calibVars, queueVars
<1>6. CASE CalibrateBaseline \/ EndNap \/ SampleFails \/ SampleIsQuiet
           \/ SampleIsEvent \/ SendEvent
  <2>1. tpc # "get" /\ UNCHANGED <<timely, threshold_milli_g>>
    BY <1>6 DEF CalibrateBaseline, EndNap, SampleFails, SampleIsQuiet,
       SampleIsEvent, SendEvent, calibVars, queueVars
  <2>2. QED
    BY <2>1 DEF TimelyWaits
<1>7. CASE UNCHANGED <<timely, tpc, cmd_msgq, threshold_milli_g>>
  BY <1>7 DEF TimelyWaits
<1>8. QED
  BY <1>1, <1>2, <1>3, <1>4, <1>5, <1>6, <1>7
     DEF Next, vars, calibVars, queueVars, HostMain, HostMainFails,
         SendThreshold, HostRxCb, LoseEvent, ClientMain, ClientMainFails,
         LoseCmd, DebounceElapses, Rest

LEMMA TimelyAlways == Spec => [](TypeOK /\ CommandsAreHosts /\ TimelyWaits)
<1>1. Init => CommandsAreHosts /\ TimelyWaits
  BY DEF Init, CmdChannel!Init, CmdMsgQ!Init, CommandsAreHosts, TimelyWaits,
     Range
<1>2. QED
  BY <1>1, CommandsStep, TimelyStep, TypeInit, TypeStep, PTL DEF Spec

(* A threshold that reaches M4 during calibration rules every event: the   *)
(* thread empties its queue before it takes the next sample.               *)
THEOREM TimelyRules == Spec => TimelyThresholdRules
<1>1. ASSUME TypeOK, TimelyWaits, [Next]_vars, seq' # seq, timely
      PROVE  threshold_milli_g = HostThreshold
  <2>1. SampleIsEvent
    BY <1>1 DEF Next, vars, judgeVars, HostMain, HostMainFails, SendThreshold,
       HostRxCb, LoseEvent, ClientMain, ClientMainFails, StartTask, LoseCmd,
       ClientRxCb, CalibrateBaseline, EndNap, FinishCalibration, GetCmd,
       PollTimeout, SampleFails, SampleIsQuiet, SendEvent, DebounceElapses,
       Rest
  <2>2. tpc = "sample"
    BY <2>1 DEF SampleIsEvent
  <2>3. QED
    BY <1>1, <2>2 DEF TimelyWaits
<1>2. TypeOK /\ TimelyWaits /\ [Next]_vars
        => [seq' # seq /\ timely => threshold_milli_g = HostThreshold]_vars
  BY <1>1
<1>3. QED
  BY <1>2, TimelyAlways, PTL DEF Spec, TimelyThresholdRules
-----------------------------------------------------------------------------
(* The magnitude is a norm.  If a sample is near to each sample of the     *)
(* calibration, a multiple of it is near to their sum, and so it is near   *)
(* to their average but for what the rounding costs.                       *)
Vector == [Axes -> Int]
Times(n, f) == [a \in Axes |-> n * f[a]]

SumFollowsSamples ==
  \A s \in Vector, b \in Int :
    (\A r \in seen : Mag(Minus(s, r)) <= b)
      => Mag(Minus(Times(good_samples, s), sum)) <= good_samples * b
BaseIsAverage ==
  /\ seen = {} <=> good_samples = 0
  /\ tpc \in {"get", "sample", "send"} =>
       base = IF good_samples = 0 THEN Zero ELSE Average(sum, good_samples)

LEMMA Triangle ==
  ASSUME NEW m \in Int, NEW n \in Int
  PROVE  Abs(m) \in Nat /\ Abs(m + n) <= Abs(m) + Abs(n)
BY DEF Abs

LEMMA MagIsSum ==
  ASSUME NEW f \in Vector, NEW g \in Vector
  PROVE  /\ Minus(f, g) \in Vector
         /\ Mag(f) \in Nat
         /\ Mag(Minus(f, g)) = Abs(f["x"] - g["x"]) + Abs(f["y"] - g["y"])
                               + Abs(f["z"] - g["z"])
<1>1. \A a \in Axes : f[a] \in Int /\ g[a] \in Int
  BY DEF Vector
<1>2. "x" \in Axes /\ "y" \in Axes /\ "z" \in Axes
  BY DEF Axes
<1>3. Minus(f, g) = [a \in Axes |-> f[a] - g[a]]
  BY DEF Minus
<1>4. Minus(f, g) \in Vector
  BY <1>1, <1>3 DEF Vector
<1>5. /\ Minus(f, g)["x"] = f["x"] - g["x"]
      /\ Minus(f, g)["y"] = f["y"] - g["y"]
      /\ Minus(f, g)["z"] = f["z"] - g["z"]
  BY <1>2, <1>3
<1>6. Abs(f["x"]) \in Nat /\ Abs(f["y"]) \in Nat /\ Abs(f["z"]) \in Nat
  BY <1>1, <1>2, Triangle
<1>7. Mag(f) \in Nat
  BY <1>6 DEF Mag
<1>8. QED
  BY <1>4, <1>5, <1>7 DEF Mag

(* One more sample and its distance are added on either side.              *)
LEMMA AddSample ==
  ASSUME NEW s \in Vector, NEW f \in Vector, NEW r \in Vector, NEW n \in Nat
  PROVE  Mag(Minus(Times(n + 1, s), Plus(f, r)))
           <= Mag(Minus(Times(n, s), f)) + Mag(Minus(s, r))
<1>1. \A a \in Axes : s[a] \in Int /\ f[a] \in Int /\ r[a] \in Int
  BY DEF Vector
<1>2. "x" \in Axes /\ "y" \in Axes /\ "z" \in Axes
  BY DEF Axes
<1>3. \A k \in Int : n * k \in Int /\ (n + 1) * k = n * k + k
  OBVIOUS
<1>4. \A a \in Axes : /\ Times(n, s)[a] = n * s[a]
                      /\ Times(n + 1, s)[a] = n * s[a] + s[a]
                      /\ Plus(f, r)[a] = f[a] + r[a]
  BY <1>1, <1>3 DEF Times, Plus
<1>5. Times(n, s) \in Vector /\ Times(n + 1, s) \in Vector
  <2>1. \A a \in Axes : n * s[a] \in Int /\ (n + 1) * s[a] \in Int
    BY <1>1, <1>3
  <2>2. QED
    BY <2>1 DEF Times, Vector
<1>6. Plus(f, r) \in Vector
  BY <1>1 DEF Plus, Vector
<1>7. ASSUME NEW a \in Axes
      PROVE  Abs(Times(n + 1, s)[a] - Plus(f, r)[a])
               <= Abs(Times(n, s)[a] - f[a]) + Abs(s[a] - r[a])
  <2> DEFINE p == n * s[a]
  <2>1. p \in Int
    BY <1>1, <1>3
  <2>2. (p + s[a]) - (f[a] + r[a]) = (p - f[a]) + (s[a] - r[a])
    BY <1>1, <2>1
  <2>3. p - f[a] \in Int /\ s[a] - r[a] \in Int
    BY <1>1, <2>1
  <2>4. Abs((p + s[a]) - (f[a] + r[a])) <= Abs(p - f[a]) + Abs(s[a] - r[a])
    BY <2>2, <2>3, Triangle
  <2>5. QED
    BY <1>4, <2>4
<1>8. \A a \in Axes : /\ Abs(Times(n, s)[a] - f[a]) \in Nat
                      /\ Abs(s[a] - r[a]) \in Nat
                      /\ Abs(Times(n + 1, s)[a] - Plus(f, r)[a]) \in Nat
  <2>1. \A a \in Axes : /\ Times(n, s)[a] - f[a] \in Int
                        /\ s[a] - r[a] \in Int
                        /\ Times(n + 1, s)[a] - Plus(f, r)[a] \in Int
    BY <1>1, <1>5, <1>6 DEF Vector
  <2>2. QED
    BY <2>1, Triangle
<1>9. QED
  <2>1. /\ Mag(Minus(s, r)) = Abs(s["x"] - r["x"]) + Abs(s["y"] - r["y"])
                              + Abs(s["z"] - r["z"])
        /\ Mag(Minus(Times(n, s), f)) =
             Abs(Times(n, s)["x"] - f["x"]) + Abs(Times(n, s)["y"] - f["y"])
             + Abs(Times(n, s)["z"] - f["z"])
        /\ Mag(Minus(Times(n + 1, s), Plus(f, r))) =
             Abs(Times(n + 1, s)["x"] - Plus(f, r)["x"])
             + Abs(Times(n + 1, s)["y"] - Plus(f, r)["y"])
             + Abs(Times(n + 1, s)["z"] - Plus(f, r)["z"])
    BY <1>5, <1>6, MagIsSum
  <2>2. QED
    BY <1>2, <1>7, <1>8, <2>1

(* What the division of C loses of n is less than the divisor.             *)
LEMMA QuotientTruncates ==
  ASSUME NEW n \in Int, NEW d \in Nat, d # 0
  PROVE  d * Quotient(n, d) \in Int /\ Abs(n - d * Quotient(n, d)) <= d - 1
<1>1. \A m \in Int : /\ m \div d \in Int /\ d * (m \div d) \in Int
                     /\ d * (m \div d) <= m /\ m <= d * (m \div d) + (d - 1)
  OBVIOUS
<1>2. CASE n >= 0
  <2>1. Quotient(n, d) = n \div d
    BY <1>2 DEF Quotient
  <2>2. QED
    BY <1>1, <1>2, <2>1 DEF Abs
<1>3. CASE n < 0
  <2> DEFINE k == (-n) \div d
  <2>1. /\ k \in Int /\ d * k \in Int
        /\ d * k <= -n /\ -n <= d * k + (d - 1)
    BY <1>1, <1>3
  <2>2. Quotient(n, d) = -k
    BY <1>3 DEF Quotient
  <2>3. d * (-k) = -(d * k)
    BY <2>1
  <2>4. QED
    BY <1>3, <2>1, <2>2, <2>3 DEF Abs
<1>4. QED
  BY <1>2, <1>3

(* n times the distance from the average is at most the distance of n      *)
(* times the sample from the sum, but for the rounding on the three axes.  *)
LEMMA AverageIsNear ==
  ASSUME NEW s \in Vector, NEW f \in Vector, NEW n \in Nat, n # 0
  PROVE  n * Mag(Minus(s, Average(f, n)))
           <= Mag(Minus(Times(n, s), f)) + 3 * (n - 1)
<1> DEFINE q == Average(f, n)
<1>1. \A a \in Axes : s[a] \in Int /\ f[a] \in Int
  BY DEF Vector
<1>2. "x" \in Axes /\ "y" \in Axes /\ "z" \in Axes
  BY DEF Axes
<1>3. q \in Vector
  BY AverageIsIntegral DEF Vector
<1>4. Times(n, s) \in Vector /\ \A a \in Axes : Times(n, s)[a] = n * s[a]
  <2>1. \A a \in Axes : n * s[a] \in Int
    BY <1>1
  <2>2. QED
    BY <2>1 DEF Times, Vector
<1>5. ASSUME NEW a \in Axes
      PROVE  /\ Abs(s[a] - q[a]) \in Nat /\ Abs(Times(n, s)[a] - f[a]) \in Nat
             /\ n * Abs(s[a] - q[a]) \in Nat
             /\ n * Abs(s[a] - q[a]) <= Abs(Times(n, s)[a] - f[a]) + (n - 1)
  <2>1. q[a] = Quotient(f[a], n) /\ q[a] \in Int
    BY <1>3 DEF Average, Vector
  <2>2. n * q[a] \in Int /\ Abs(f[a] - n * q[a]) <= n - 1
    BY <1>1, <2>1, QuotientTruncates
  <2>3. /\ s[a] \in Int /\ f[a] \in Int
        /\ n * s[a] \in Int /\ n * (s[a] - q[a]) = n * s[a] - n * q[a]
    BY <1>1, <2>1
  <2>4. Abs(n * s[a] - n * q[a]) <= Abs(n * s[a] - f[a]) + Abs(f[a] - n * q[a])
    <3>1. n * s[a] - n * q[a] = (n * s[a] - f[a]) + (f[a] - n * q[a])
      BY <2>2, <2>3
    <3>2. n * s[a] - f[a] \in Int /\ f[a] - n * q[a] \in Int
      BY <2>2, <2>3
    <3>3. QED
      BY <3>1, <3>2, Triangle
  <2>5. n * Abs(s[a] - q[a]) = Abs(n * (s[a] - q[a]))
    <3>1. s[a] - q[a] \in Int
      BY <2>1, <2>3
    <3>2. \A k \in Int : n * Abs(k) = Abs(n * k)
      BY DEF Abs
    <3>3. QED
      BY <3>1, <3>2
  <2>6. Abs(s[a] - q[a]) \in Nat /\ Abs(n * s[a] - f[a]) \in Nat
    <3>1. s[a] - q[a] \in Int /\ n * s[a] - f[a] \in Int
      BY <2>1, <2>3
    <3>2. QED
      BY <3>1, Triangle
  <2>7. n * Abs(s[a] - q[a]) \in Nat
    BY <2>6
  <2>8. Abs(f[a] - n * q[a]) \in Nat
    <3>1. f[a] - n * q[a] \in Int
      BY <2>2, <2>3
    <3>2. QED
      BY <3>1, Triangle
  <2>9. n * Abs(s[a] - q[a]) = Abs(n * s[a] - n * q[a])
    BY <2>3, <2>5
  <2>10. n * Abs(s[a] - q[a]) <= Abs(n * s[a] - f[a]) + (n - 1)
    <3> HIDE DEF q
    <3> DEFINE u == n * Abs(s[a] - q[a])
               v == Abs(n * s[a] - f[a])
               w == Abs(f[a] - n * q[a])
    <3>1. u <= v + w /\ w <= n - 1 /\ u \in Nat /\ v \in Nat /\ w \in Nat
      BY <2>2, <2>4, <2>6, <2>7, <2>8, <2>9
    <3> HIDE DEF u, v, w
    <3>2. u <= v + (n - 1)
      BY <3>1
    <3>3. QED
      BY <3>2 DEF u, v
  <2>11. QED
    BY <1>4, <2>6, <2>7, <2>10
<1>6. /\ Mag(Minus(s, q)) = Abs(s["x"] - q["x"]) + Abs(s["y"] - q["y"])
                            + Abs(s["z"] - q["z"])
      /\ Mag(Minus(Times(n, s), f)) =
           Abs(Times(n, s)["x"] - f["x"]) + Abs(Times(n, s)["y"] - f["y"])
           + Abs(Times(n, s)["z"] - f["z"])
  BY <1>3, <1>4, MagIsSum
<1>7. \A j, k, l \in Nat : n * (j + k + l) = n * j + n * k + n * l
  OBVIOUS
<1>8. n * Mag(Minus(s, q)) = n * Abs(s["x"] - q["x"])
                             + n * Abs(s["y"] - q["y"])
                             + n * Abs(s["z"] - q["z"])
  BY <1>2, <1>5, <1>6, <1>7
<1>9. QED
  BY <1>2, <1>5, <1>6, <1>8

LEMMA ThreeAxes == Cardinality(Axes) = 3
<1>1. IsFiniteSet({"x"}) /\ Cardinality({"x"}) = 1
  BY FS_Singleton
<1>2. /\ IsFiniteSet({"x"} \cup {"y"})
      /\ Cardinality({"x"} \cup {"y"}) = 2
  BY <1>1, FS_AddElement
<1>3. Cardinality(({"x"} \cup {"y"}) \cup {"z"}) = 3
  BY <1>2, FS_AddElement
<1>4. Axes = ({"x"} \cup {"y"}) \cup {"z"}
  BY DEF Axes
<1>5. QED
  BY <1>3, <1>4

(* CalibrateBaseline: one more sample.                                     *)
LEMMA SumStep ==
  TypeOK /\ SumFollowsSamples /\ [Next]_vars => SumFollowsSamples'
<1> SUFFICES ASSUME TypeOK, SumFollowsSamples, [Next]_vars
             PROVE  SumFollowsSamples'
  OBVIOUS
<1>1. CASE UNCHANGED <<sum, good_samples, seen>>
  BY <1>1 DEF SumFollowsSamples
<1>2. ASSUME NEW r \in Readings \cup {Zero},
             sum' = Plus(sum, r), good_samples' = good_samples + 1,
             seen' = seen \cup {r}
      PROVE  SumFollowsSamples'
  <2>a. good_samples \in Nat /\ sum \in Vector /\ r \in Vector
    BY VectorsAreIntegral, ThresholdEventAssumption DEF TypeOK, Vector
  <2>1. ASSUME NEW s \in Vector, NEW b \in Int,
               \A p \in seen' : Mag(Minus(s, p)) <= b
        PROVE  Mag(Minus(Times(good_samples', s), sum'))
                 <= good_samples' * b
    <3>1. /\ Mag(Minus(s, r)) <= b
          /\ \A p \in seen : Mag(Minus(s, p)) <= b
      BY <1>2, <2>1
    <3>2. Mag(Minus(Times(good_samples, s), sum)) <= good_samples * b
      BY <3>1 DEF SumFollowsSamples
    <3>3. Mag(Minus(Times(good_samples', s), sum'))
            <= Mag(Minus(Times(good_samples, s), sum)) + Mag(Minus(s, r))
      BY <1>2, <2>a, AddSample
    <3>4. good_samples' * b = good_samples * b + b /\ good_samples * b \in Int
      BY <1>2, <2>a
    <3>5. /\ Mag(Minus(Times(good_samples', s), sum')) \in Nat
          /\ Mag(Minus(Times(good_samples, s), sum)) \in Nat
          /\ Mag(Minus(s, r)) \in Nat
      <4>1. \A n \in Nat : Times(n, s) \in Vector
        <5>1. \A n \in Nat : \A a \in Axes : n * s[a] \in Int
          BY DEF Vector
        <5>2. QED
          BY <5>1 DEF Times, Vector
      <4>2. good_samples' \in Nat /\ sum' \in Vector
        BY <1>2, <2>a DEF Vector, Plus
      <4>3. /\ Minus(Times(good_samples', s), sum') \in Vector
            /\ Minus(Times(good_samples, s), sum) \in Vector
            /\ Minus(s, r) \in Vector
        BY <2>a, <4>1, <4>2, MagIsSum
      <4>4. QED
        BY <4>3, MagIsSum
    <3>6. QED
      BY <3>1, <3>2, <3>3, <3>4, <3>5
  <2>2. QED
    BY <2>1 DEF SumFollowsSamples
<1>3. QED
  BY <1>1, <1>2
     DEF Next, vars, calibVars, HostMain, HostMainFails, SendThreshold,
         HostRxCb, LoseEvent, ClientMain, ClientMainFails, StartTask, LoseCmd,
         ClientRxCb, CalibrateBaseline, EndNap, FinishCalibration, GetCmd,
         PollTimeout, SampleFails, SampleIsQuiet, SampleIsEvent, SendEvent,
         DebounceElapses, Rest

LEMMA BaseStep == TypeOK /\ BaseIsAverage /\ [Next]_vars => BaseIsAverage'
<1> SUFFICES ASSUME TypeOK, BaseIsAverage, [Next]_vars PROVE BaseIsAverage'
  OBVIOUS
<1>a. good_samples \in Nat
  BY ThresholdEventAssumption DEF TypeOK
<1>1. CASE CalibrateBaseline
  <2>1. tpc' = "nap"
    BY <1>1 DEF CalibrateBaseline
  <2>2. \/ UNCHANGED <<good_samples, seen>>
        \/ good_samples' = good_samples + 1 /\ seen' # {}
    BY <1>1 DEF CalibrateBaseline
  <2>3. QED
    BY <1>a, <2>1, <2>2 DEF BaseIsAverage
<1>2. CASE FinishCalibration
  BY <1>2 DEF FinishCalibration, BaseIsAverage
<1>3. CASE StartTask \/ EndNap
  BY <1>3 DEF StartTask, EndNap, BaseIsAverage, calibVars
<1>4. CASE /\ UNCHANGED <<sum, good_samples, seen, base>>
           /\ tpc' \in {"get", "sample", "send"}
                => tpc \in {"get", "sample", "send"}
  BY <1>4 DEF BaseIsAverage
<1>5. QED
  BY <1>1, <1>2, <1>3, <1>4
     DEF Next, vars, calibVars, HostMain, HostMainFails, SendThreshold,
         HostRxCb, LoseEvent, ClientMain, ClientMainFails, LoseCmd,
         ClientRxCb, GetCmd, PollTimeout, SampleFails, SampleIsQuiet,
         SampleIsEvent, SendEvent, DebounceElapses, Rest

LEMMA CalibrationAlways ==
  Spec => [](TypeOK /\ SumFollowsSamples /\ BaseIsAverage)
<1>1. Init => BaseIsAverage
  BY DEF Init, BaseIsAverage
<1>2. Init => SumFollowsSamples
  <2> SUFFICES ASSUME Init, NEW s \in Vector, NEW b \in Int
               PROVE  Mag(Minus(Times(good_samples, s), sum))
                        <= good_samples * b
    BY DEF SumFollowsSamples
  <2>1. good_samples = 0 /\ sum = Zero
    BY DEF Init
  <2>2. 0 * b = 0 /\ \A a \in Axes : 0 * s[a] = 0
    BY DEF Vector
  <2>3. Times(0, s) = Zero
    BY <2>2 DEF Times, Zero
  <2>4. Zero \in Vector /\ \A a \in Axes : Zero[a] - Zero[a] = 0
    BY DEF Zero, Vector
  <2>5. Mag(Minus(Zero, Zero)) = 0
    <3>1. Mag(Minus(Zero, Zero)) = Abs(0) + Abs(0) + Abs(0)
      BY <2>4, MagIsSum DEF Axes
    <3>2. QED
      BY <3>1 DEF Abs
  <2>6. QED
    BY <2>1, <2>2, <2>3, <2>5
<1>3. QED
  BY <1>1, <1>2, SumStep, BaseStep, TypeInit, TypeStep, PTL DEF Spec

(* Every event means motion, whatever reads failed during calibration and  *)
(* however the baseline was rounded: were its sample nearer than that to   *)
(* all samples of the calibration, it would be near to the baseline, too.  *)
THEOREM EventsMeanMotion == Spec => EventMeansMotion
<1> DEFINE Moved == \E r \in seen :
                      Mag(Minus(evt'.accel, r))
                        > threshold_milli_g - Cardinality(Axes)
<1>1. ASSUME TypeOK, SumFollowsSamples, BaseIsAverage, [Next]_vars,
             seq' # seq, seen # {}
      PROVE  Moved
  <2> DEFINE t == threshold_milli_g
             n == good_samples
             s == evt'.accel
             d == Mag(Minus(s, base))
  <2>1. SampleIsEvent
    BY <1>1 DEF Next, vars, judgeVars, HostMain, HostMainFails, SendThreshold,
       HostRxCb, LoseEvent, ClientMain, ClientMainFails, StartTask, LoseCmd,
       ClientRxCb, CalibrateBaseline, EndNap, FinishCalibration, GetCmd,
       PollTimeout, SampleFails, SampleIsQuiet, SendEvent, DebounceElapses,
       Rest
  <2>2. s \in Readings \cup {Zero} /\ d > t /\ tpc = "sample"
    BY <2>1 DEF SampleIsEvent, Exceeds
  <2>3. /\ n \in Nat /\ n # 0 /\ t \in Int /\ sum \in Vector
        /\ base = Average(sum, n)
    BY <1>1, <2>2, ThresholdEventAssumption
       DEF TypeOK, Thresholds, BaseIsAverage, Vector
  <2>4. s \in Vector /\ base \in Vector
    BY <1>1, <2>2, VectorsAreIntegral DEF Vector, TypeOK
  <2>5. \A r \in seen : r \in Vector
    BY <1>1, VectorsAreIntegral DEF Vector, TypeOK
  <2> SUFFICES ASSUME ~Moved PROVE FALSE
    OBVIOUS
  <2>6. \A r \in seen : Mag(Minus(s, r)) <= t - 3
    BY <2>3, <2>4, <2>5, MagIsSum, ThreeAxes
  <2>7. Mag(Minus(Times(n, s), sum)) <= n * (t - 3)
    BY <1>1, <2>3, <2>4, <2>6 DEF SumFollowsSamples
  <2>8. n * d <= Mag(Minus(Times(n, s), sum)) + 3 * (n - 1)
    BY <2>3, <2>4, AverageIsNear
  <2>9. d \in Nat /\ Mag(Minus(Times(n, s), sum)) \in Nat
    <3>1. \A a \in Axes : n * s[a] \in Int
      BY <2>3, <2>4 DEF Vector
    <3>2. Times(n, s) \in Vector
      BY <3>1 DEF Times, Vector
    <3>3. Minus(s, base) \in Vector /\ Minus(Times(n, s), sum) \in Vector
      BY <2>3, <2>4, <3>2, MagIsSum
    <3>4. QED
      BY <3>3, MagIsSum
  <2>10. n * (t + 1) <= n * d
    BY <2>2, <2>3, <2>9
  <2>11. /\ n * (t - 3) = n * t - 3 * n /\ n * (t + 1) = n * t + n
         /\ n * t \in Int /\ n * d \in Int
    BY <2>3, <2>9
  <2>12. QED
    BY <2>3, <2>7, <2>8, <2>9, <2>10, <2>11
<1>2. TypeOK /\ SumFollowsSamples /\ BaseIsAverage /\ [Next]_vars
        => [seq' # seq /\ seen # {} => Moved]_vars
  BY <1>1
<1>3. QED
  BY <1>2, CalibrationAlways, PTL DEF Spec, EventMeansMotion
-----------------------------------------------------------------------------
(* The events under way are ordered along their path, and are all younger  *)
(* than the one on the console.                                            *)
Num == [e \in Event |-> e.seq]
Boxed == Numbers(Num, eventBox)
InHand == IF tpc = "send" THEN {seq} ELSE {}

PathOrdered ==
  /\ tpc = "send" => evt.seq = seq
  /\ Rising(Num, eventBox)
  /\ Before({lastEvent}, Boxed \cup InHand) /\ Before(Boxed, InHand)
  /\ \A n \in Boxed \cup InHand \cup {lastEvent} : n <= seq

LEMMA PathNumbers ==
  ASSUME TypeOK
  PROVE  /\ Num \in [Event -> Nat] /\ \A e \in Event : Num[e] = e.seq
         /\ eventBox \in Seq(Event) /\ evt \in Event
         /\ Boxed \subseteq Nat /\ InHand \subseteq Nat
         /\ seq \in Nat /\ lastEvent \in Nat
         /\ InFlight = Boxed \cup InHand
<1>1. \A e \in Event : e.seq \in Nat
  BY EventFields, ThresholdEventAssumption
<1>2. Num \in [Event -> Nat] /\ \A e \in Event : Num[e] = e.seq
  BY <1>1 DEF Num
<1>3. /\ eventBox \in Seq(Event) /\ evt \in Event
      /\ seq \in Nat /\ lastEvent \in Nat
  BY ThresholdEventAssumption DEF TypeOK
<1>4. \A e \in Range(eventBox) : e \in Event
  <2>1. \A k \in 1..Len(eventBox) : eventBox[k] \in Event
    BY <1>3, ElementOfSeq
  <2>2. DOMAIN eventBox = 1..Len(eventBox)
    BY <1>3, LenProperties
  <2>3. QED
    BY <2>1, <2>2 DEF Range
<1>5. Boxed \subseteq Nat
  BY <1>2, <1>4 DEF Boxed, Numbers
<1>6. Boxed = {e.seq : e \in Range(eventBox)}
  BY <1>2, <1>4 DEF Boxed, Numbers
<1>7. QED
  BY <1>2, <1>3, <1>5, <1>6 DEF InHand, InFlight

LEMMA InFlightParts == TypeOK => InFlight = Boxed \cup InHand
BY PathNumbers

(* SampleIsEvent: a new event, younger than all others, is in the thread's *)
(* hands.                                                                  *)
LEMMA SampleIsEventMoves ==
  ASSUME TypeOK, SampleIsEvent
  PROVE  /\ InHand = {} /\ InHand' = {seq + 1} /\ seq' = seq + 1
         /\ evt'.seq = seq + 1 /\ tpc' = "send"
         /\ UNCHANGED <<eventBox, lastEvent>>
BY DEF SampleIsEvent, InHand, eventVars, hostVars

(* SendEvent: out of the thread's hands, into the mailbox or nowhere.      *)
LEMMA SendEventMoves ==
  ASSUME TypeOK, PathOrdered, SendEvent
  PROVE  /\ InHand = {seq} /\ InHand' = {} /\ tpc' = "get"
         /\ UNCHANGED <<seq, lastEvent>>
         /\ \/ Boxed' = Boxed \cup {seq} /\ Rising(Num, eventBox')
            \/ UNCHANGED eventBox
<1>1. /\ InHand = {seq} /\ InHand' = {} /\ tpc = "send" /\ tpc' = "get"
      /\ UNCHANGED <<seq, lastEvent>>
  BY DEF SendEvent, InHand, judgeVars, hostVars
<1>2. CASE EventChannel!Post(evt, EventSize)
  <2>1. eventBox' = Append(eventBox, evt)
    BY <1>2 DEF EventChannel!Post
  <2>2. Num[evt] = seq
    BY <1>1, PathNumbers DEF PathOrdered
  <2>3. Before(Numbers(Num, eventBox), {Num[evt]})
    BY <1>1, <2>2 DEF PathOrdered, Boxed
  <2>4. /\ Numbers(Num, Append(eventBox, evt))
             = Numbers(Num, eventBox) \cup {Num[evt]}
        /\ Rising(Num, Append(eventBox, evt))
    BY <2>3, PathNumbers, NewestEnters DEF PathOrdered
  <2>5. Boxed' = Numbers(Num, eventBox')
    BY DEF Boxed, Num, Event
  <2>6. QED
    BY <1>1, <2>1, <2>2, <2>4, <2>5 DEF Boxed
<1>3. CASE UNCHANGED eventVars
  BY <1>1, <1>3 DEF eventVars
<1>4. QED
  BY <1>2, <1>3 DEF SendEvent

(* HostRxCb and LoseEvent: the oldest leaves the mailbox.                  *)
LEMMA HostRxCbMoves ==
  ASSUME TypeOK, PathOrdered, HostRxCb
  PROVE  /\ lastEvent' \in Boxed /\ Boxed = {lastEvent'} \cup Boxed'
         /\ Before({lastEvent'}, Boxed') /\ Rising(Num, eventBox')
         /\ UNCHANGED <<seq, evt, tpc>>
<1>1. PICK e \in Range(eventBox) :
        EventChannel!Interrupt(e) /\ lastEvent' = e.seq
  BY DEF HostRxCb
<1>2. /\ eventBox # <<>> /\ e = Head(eventBox) /\ eventBox' = Tail(eventBox)
      /\ e \in Event
  BY <1>1, HeadTailProperties DEF EventChannel!Interrupt, TypeOK
<1>3. lastEvent' = Num[Head(eventBox)]
  BY <1>1, <1>2, PathNumbers
<1>4. Boxed' = Numbers(Num, Tail(eventBox))
  BY <1>2 DEF Boxed, Num, Event
<1>5. \E n \in Nat : /\ n = Num[Head(eventBox)] /\ Boxed = {n} \cup Boxed'
                     /\ Before({n}, Boxed') /\ Rising(Num, eventBox')
  BY <1>2, <1>4, PathNumbers, OldestLeaves DEF PathOrdered, Boxed
<1>6. /\ Boxed = {lastEvent'} \cup Boxed' /\ Before({lastEvent'}, Boxed')
      /\ Rising(Num, eventBox')
  BY <1>3, <1>5
<1>7. QED
  BY <1>6 DEF HostRxCb, judgeVars

LEMMA LoseEventMoves ==
  ASSUME TypeOK, PathOrdered, LoseEvent
  PROVE  /\ \E n \in Nat : /\ n \in Boxed /\ Boxed = {n} \cup Boxed'
                           /\ Before({n}, Boxed')
         /\ Rising(Num, eventBox') /\ UNCHANGED <<seq, evt, tpc, lastEvent>>
<1>1. eventBox # <<>> /\ eventBox' = Tail(eventBox)
  BY DEF LoseEvent, EventChannel!Discard
<1>2. Boxed' = Numbers(Num, Tail(eventBox))
  BY <1>1 DEF Boxed, Num, Event
<1>3. \E n \in Nat : /\ n = Num[Head(eventBox)] /\ Boxed = {n} \cup Boxed'
                     /\ Before({n}, Boxed') /\ Rising(Num, eventBox')
  BY <1>1, <1>2, PathNumbers, OldestLeaves DEF PathOrdered, Boxed
<1>4. QED
  BY <1>3 DEF LoseEvent, judgeVars, hostVars

(* All other steps leave every event where it is.                          *)
Elsewhere ==
  \/ HostMain \/ HostMainFails \/ SendThreshold \/ ClientMain
  \/ ClientMainFails \/ StartTask \/ LoseCmd \/ ClientRxCb
  \/ CalibrateBaseline \/ EndNap \/ FinishCalibration \/ GetCmd
  \/ PollTimeout \/ SampleFails \/ SampleIsQuiet \/ DebounceElapses
  \/ Rest \/ UNCHANGED vars

LEMMA ElsewhereStays ==
  ASSUME TypeOK, Elsewhere
  PROVE  /\ UNCHANGED <<eventBox, evt, seq, lastEvent>>
         /\ tpc = "send" <=> tpc' = "send"
<1>1. UNCHANGED <<eventBox, evt, seq, lastEvent>>
  BY DEF Elsewhere, vars, hostVars, eventVars, judgeVars, HostMain,
     EventChannel!Enable, HostMainFails, SendThreshold, ClientMain,
     ClientMainFails, StartTask, LoseCmd, ClientRxCb, CalibrateBaseline,
     EndNap, FinishCalibration, GetCmd, PollTimeout, SampleFails,
     SampleIsQuiet, DebounceElapses, Rest
<1>2. tpc = "send" <=> tpc' = "send"
  BY DEF Elsewhere, TypeOK, vars, HostMain, HostMainFails, SendThreshold,
     ClientMain, ClientMainFails, StartTask, LoseCmd, ClientRxCb,
     CalibrateBaseline, EndNap, FinishCalibration, GetCmd, PollTimeout,
     SampleFails, SampleIsQuiet, DebounceElapses, Rest
<1>3. QED
  BY <1>1, <1>2

LEMMA PathOrderedStep ==
  TypeOK /\ TypeOK' /\ PathOrdered /\ [Next]_vars => PathOrdered'
<1> SUFFICES ASSUME TypeOK, TypeOK', PathOrdered, [Next]_vars
             PROVE  PathOrdered'
  OBVIOUS
<1>a. /\ Boxed \subseteq Nat /\ InHand \subseteq Nat
      /\ seq \in Nat /\ lastEvent \in Nat
  BY PathNumbers
<1>b. Num' = Num
  BY DEF Num, Event
<1>c. UNCHANGED eventBox => UNCHANGED Boxed
  BY <1>b DEF Boxed
<1> USE <1>a, <1>b DEF PathOrdered, Before
<1>1. CASE SampleIsEvent
  <2>1. /\ InHand = {} /\ InHand' = {seq + 1} /\ seq' = seq + 1
        /\ evt'.seq = seq + 1 /\ tpc' = "send" /\ Boxed' = Boxed
        /\ UNCHANGED <<eventBox, lastEvent>>
    BY <1>1, <1>c, SampleIsEventMoves
  <2>2. \A n \in Nat : n <= seq => n < seq + 1
    OBVIOUS
  <2>3. lastEvent < seq + 1 /\ \A n \in Boxed : n < seq + 1
    BY <2>2
  <2>4. QED
    BY <2>1, <2>3
<1>2. CASE SendEvent
  <2>1. /\ InHand = {seq} /\ InHand' = {} /\ tpc' = "get"
        /\ UNCHANGED <<seq, lastEvent>>
        /\ \/ Boxed' = Boxed \cup {seq} /\ Rising(Num, eventBox')
           \/ UNCHANGED eventBox
    BY <1>2, SendEventMoves
  <2>2. CASE Boxed' = Boxed \cup {seq} /\ Rising(Num, eventBox')
    BY <2>1, <2>2
  <2>3. CASE UNCHANGED eventBox
    BY <2>1, <2>3, <1>c
  <2>4. QED
    BY <2>1, <2>2, <2>3
<1>3. CASE HostRxCb
  <2>1. /\ lastEvent' \in Boxed /\ Boxed = {lastEvent'} \cup Boxed'
        /\ Before({lastEvent'}, Boxed') /\ Rising(Num, eventBox')
        /\ UNCHANGED <<seq, evt, tpc>>
    BY <1>3, HostRxCbMoves
  <2>2. InHand' = InHand
    BY <2>1 DEF InHand
  <2>3. QED
    BY <2>1, <2>2
<1>4. CASE LoseEvent
  <2>1. /\ \A n \in Boxed' : n \in Boxed
        /\ Rising(Num, eventBox') /\ UNCHANGED <<seq, evt, tpc, lastEvent>>
    BY <1>4, LoseEventMoves
  <2>2. InHand' = InHand
    BY <2>1 DEF InHand
  <2>3. QED
    BY <2>1, <2>2
<1>5. CASE Elsewhere
  <2>1. /\ UNCHANGED <<eventBox, evt, seq, lastEvent>>
        /\ tpc = "send" <=> tpc' = "send"
    BY <1>5, ElsewhereStays
  <2>2. InHand' = InHand /\ Boxed' = Boxed
    BY <2>1, <1>c DEF InHand
  <2>3. QED
    BY <2>1, <2>2
<1>6. QED
  BY <1>1, <1>2, <1>3, <1>4, <1>5 DEF Next, Elsewhere

(* Each step of the two cores is a step of InOrderDelivery or leaves its   *)
(* state alone.                                                            *)
LEMMA ServiceStep ==
  TypeOK /\ TypeOK' /\ PathOrdered /\ [Next]_vars
    => [Service!Next]_<<seq, InFlight, lastEvent>>
<1> SUFFICES ASSUME TypeOK, TypeOK', PathOrdered, [Next]_vars
             PROVE  \/ Service!Next
                    \/ UNCHANGED <<seq, InFlight, lastEvent>>
  OBVIOUS
<1>a. /\ Boxed \subseteq Nat /\ InHand \subseteq Nat
      /\ seq \in Nat /\ lastEvent \in Nat
      /\ InFlight = Boxed \cup InHand
  BY PathNumbers
<1>b. InFlight' = Boxed' \cup InHand'
  <2>1. (TypeOK => InFlight = Boxed \cup InHand)'
    BY InFlightParts, PTL
  <2>2. QED
    BY <2>1
<1>c. UNCHANGED eventBox => UNCHANGED Boxed
  BY DEF Boxed, Num, Event
<1>1. CASE SampleIsEvent
  <2>1. /\ InHand = {} /\ InHand' = {seq + 1} /\ seq' = seq + 1
        /\ Boxed' = Boxed /\ UNCHANGED lastEvent
    BY <1>1, <1>c, SampleIsEventMoves
  <2>2. Service!Offer
    BY <1>a, <1>b, <2>1 DEF Service!Offer
  <2>3. QED
    BY <2>2 DEF Service!Next
<1>2. CASE SendEvent
  <2>1. /\ InHand = {seq} /\ InHand' = {} /\ UNCHANGED <<seq, lastEvent>>
        /\ \/ Boxed' = Boxed \cup {seq}
           \/ Boxed' = Boxed
    BY <1>2, <1>c, SendEventMoves
  <2>2. CASE Boxed' = Boxed \cup {seq}
    BY <1>a, <1>b, <2>1, <2>2
  <2>3. CASE Boxed' = Boxed
    <3>1. seq \notin Boxed
      BY <1>a, <2>1 DEF PathOrdered, Before
    <3>2. seq \in InFlight /\ Service!Lose(seq)
      BY <1>a, <1>b, <2>1, <2>3, <3>1 DEF Service!Lose
    <3>3. QED
      BY <3>2 DEF Service!Next
  <2>4. QED
    BY <2>1, <2>2, <2>3
<1>3. CASE HostRxCb
  <2>1. /\ lastEvent' \in Boxed /\ Boxed = {lastEvent'} \cup Boxed'
        /\ Before({lastEvent'}, Boxed') /\ UNCHANGED <<seq, tpc>>
    BY <1>3, HostRxCbMoves
  <2>2. InHand' = InHand
    BY <2>1 DEF InHand
  <2>3. /\ lastEvent < lastEvent'
        /\ \A n \in Boxed' \cup InHand : lastEvent' < n
    BY <1>a, <2>1 DEF PathOrdered, Before
  <2>4. Service!Answer(lastEvent')
    BY <1>a, <1>b, <2>1, <2>2, <2>3 DEF Service!Answer
  <2>5. lastEvent' \in InFlight
    BY <1>a, <2>1
  <2>6. QED
    BY <2>4, <2>5 DEF Service!Next
<1>4. CASE LoseEvent
  <2>1. PICK n \in Nat : /\ n \in Boxed /\ Boxed = {n} \cup Boxed'
                         /\ Before({n}, Boxed')
    BY <1>4, LoseEventMoves
  <2>2. UNCHANGED <<seq, tpc, lastEvent>> /\ InHand' = InHand
    BY <1>4, LoseEventMoves DEF InHand
  <2>3. \A m \in Boxed' \cup InHand : n < m
    BY <1>a, <2>1 DEF PathOrdered, Before
  <2>4. n \in InFlight /\ Service!Lose(n)
    BY <1>a, <1>b, <2>1, <2>2, <2>3 DEF Service!Lose
  <2>5. QED
    BY <2>4 DEF Service!Next
<1>5. CASE Elsewhere
  <2>1. /\ UNCHANGED <<eventBox, seq, lastEvent>>
        /\ tpc = "send" <=> tpc' = "send"
    BY <1>5, ElsewhereStays
  <2>2. InHand' = InHand /\ Boxed' = Boxed
    BY <2>1, <1>c DEF InHand
  <2>3. QED
    BY <1>a, <1>b, <2>1, <2>2
<1>6. QED
  BY <1>1, <1>2, <1>3, <1>4, <1>5 DEF Next, Elsewhere

(* Events come in the order of their samples, each at most once and none   *)
(* that was not taken, for every size of the mailbox.                      *)
THEOREM EventsComeInOrder == Spec => EventsInOrder
<1>1. Init => PathOrdered /\ Service!Init
  <2> SUFFICES ASSUME Init PROVE PathOrdered /\ Service!Init
    OBVIOUS
  <2>1. /\ eventBox = <<>> /\ seq = 0 /\ lastEvent = 0 /\ tpc = "off"
    BY DEF Init, EventChannel!Init
  <2>2. Range(eventBox) = {} /\ DOMAIN eventBox = {}
    BY <2>1 DEF Range
  <2>3. Boxed = {} /\ InHand = {} /\ InFlight = {}
    BY <2>1, <2>2 DEF Boxed, Numbers, InHand, InFlight
  <2>4. PathOrdered
    BY <2>1, <2>2, <2>3 DEF PathOrdered, Rising, Before
  <2>5. QED
    BY <2>1, <2>3, <2>4 DEF Service!Init
<1>2. QED
  BY <1>1, PathOrderedStep, ServiceStep, TypeAlways, PTL
     DEF Spec, EventsInOrder, Service!Spec
-----------------------------------------------------------------------------
(* Lab 09.  What it shares with lab 10 has the same names; the mailbox to  *)
(* the host is msgBox.  Its sensor may measure all that a sensor_value can *)
(* say: what holds for that holds for every sensor.                        *)
VARIABLES hmain, msgBox, msgOn, cmain, awake, scaled, msg, measured, lost,
          rows, row

SensorReadings ==
  {v \in [val1 : Int, val2 : Int] :
     /\ -(1000 * 1000) < v.val2 /\ v.val2 < 1000 * 1000
     /\ (v.val1 >= 0 /\ v.val2 >= 0) \/ (v.val1 <= 0 /\ v.val2 <= 0)}

Accel == INSTANCE AccelTelemetry WITH Readings <- SensorReadings

LEMMA SensorFacts ==
  /\ Slots \in Nat \ {0} /\ MaxSeq \in Nat
  /\ \A v \in SensorReadings : v.val1 \in Int /\ v.val2 \in Int
  /\ \A v \in SensorReadings :
       (v.val1 >= 0 /\ v.val2 >= 0) \/ (v.val1 <= 0 /\ v.val2 <= 0)
<1>1. \A v \in SensorReadings : v.val1 \in Int /\ v.val2 \in Int
  BY DEF SensorReadings
<1>2. \A v \in SensorReadings :
        (v.val1 >= 0 /\ v.val2 >= 0) \/ (v.val1 <= 0 /\ v.val2 <= 0)
  BY DEF SensorReadings
<1>3. QED
  BY <1>1, <1>2, ThresholdEventAssumption

LEMMA SameCardinality == \A S : Accel!Cardinality(S) = Cardinality(S)
BY DEF Accel!Cardinality, Cardinality

(* Samples are numbered as they are measured, and numbers are positive.    *)
Numbered ==
  /\ Len(measured) = msg.seq
  /\ cmain = "boot" => msg.seq = 0
  /\ cmain = "send" => msg.seq > 0
  /\ \A m \in Range(msgBox) : 0 < m.seq

LEMMA SampleFields ==
  ASSUME NEW m \in Accel!Sample
  PROVE  m.xyz \in Int /\ m.seq \in Nat /\ m.seq <= MaxSeq
BY SensorFacts DEF Accel!Sample

LEMMA MilliIsInt ==
  ASSUME NEW v \in SensorReadings
  PROVE  /\ Accel!SensorValToMilli(v) \in Int
         /\ Accel!SensorValToMilli(Accel!Zero) = 0
<1>1. v.val1 \in Int /\ v.val2 \in Int
  BY SensorFacts
<1>2. \A n \in Int : n \div 1000 \in Int
  OBVIOUS
<1>3. QED
  BY <1>1, <1>2 DEF Accel!SensorValToMilli, Accel!Thousandth, Accel!Zero

(* What a fetch reads when the sensor measures v.                          *)
Read(v) == IF awake /\ scaled THEN v ELSE Accel!Zero

LEMMA AccelTypeInit == Accel!Init => Accel!TypeOK /\ Numbered
<1> SUFFICES ASSUME Accel!Init PROVE Accel!TypeOK /\ Numbered
  OBVIOUS
<1>1. msgBox = <<>> /\ msgOn = FALSE
  BY DEF Accel!Init, Accel!MsgChannel!Init
<1>2. /\ <<>> \in Seq(Accel!Sample) /\ <<>> \in Seq(SensorReadings)
      /\ Len(<<>>) = 0
  BY EmptySeq
<1>3. 0 \in 0..MaxSeq /\ 0 <= Slots /\ Range(<<>>) = {}
  BY SensorFacts DEF Range
<1>4. awake \in BOOLEAN /\ scaled \in BOOLEAN /\ msgOn \in BOOLEAN
  BY <1>1 DEF Accel!Init
<1>5. /\ hmain = "boot" /\ cmain = "boot" /\ msg = [xyz |-> 0, seq |-> 0]
      /\ measured = <<>> /\ lost = {} /\ rows = 0
      /\ row = [xyz |-> 0, seq |-> 0]
  BY DEF Accel!Init
<1>6. msg \in Accel!Sample /\ row \in Accel!Sample /\ msg.seq = 0
  BY <1>3, <1>5 DEF Accel!Sample
<1>7. Accel!TypeOK
  BY <1>1, <1>2, <1>3, <1>4, <1>5, <1>6 DEF Accel!TypeOK
<1>8. Numbered
  BY <1>1, <1>2, <1>3, <1>5, <1>6 DEF Numbered
<1>9. QED
  BY <1>7, <1>8

(* What becomes of the mailbox when a sample leaves it, heard or not ...    *)
LEMMA BoxTail ==
  ASSUME Accel!TypeOK, msgBox # <<>>, NEW t, t = Tail(msgBox)
  PROVE  /\ t \in Seq(Accel!Sample) /\ Len(t) <= Slots
         /\ Head(msgBox) \in Accel!Sample /\ Head(msgBox) \in Range(msgBox)
         /\ Range(msgBox) = {Head(msgBox)} \cup Range(t)
         /\ \A x \in Range(t) : x \in Range(msgBox)
<1>1. msgBox \in Seq(Accel!Sample) /\ Len(msgBox) <= Slots
  BY DEF Accel!TypeOK
<1>2. /\ t \in Seq(Accel!Sample) /\ Len(t) \in Nat /\ Len(msgBox) = Len(t) + 1
      /\ Head(msgBox) \in Accel!Sample
      /\ Range(msgBox) = {Head(msgBox)} \cup Range(t)
      /\ \A x \in Range(t) : x \in Range(msgBox)
  BY <1>1, AfterTail
<1>3. Len(t) <= Slots
  BY <1>1, <1>2, SensorFacts
<1>4. QED
  BY <1>2, <1>3

(* ... and when one is put into it.                                        *)
LEMMA BoxAppend ==
  ASSUME Accel!TypeOK, Len(msgBox) < Slots, NEW t, t = Append(msgBox, msg)
  PROVE  /\ t \in Seq(Accel!Sample) /\ Len(t) <= Slots
         /\ Range(t) = Range(msgBox) \cup {msg}
<1>1. msgBox \in Seq(Accel!Sample) /\ msg \in Accel!Sample
  BY DEF Accel!TypeOK
<1>2. t \in Seq(Accel!Sample) /\ Len(msgBox) \in Nat /\ Len(t) = Len(msgBox) + 1
  BY <1>1, AppendProperties, LenProperties
<1>3. Range(t) = Range(msgBox) \cup {msg}
  BY <1>1, RangeAppend
<1>4. Len(t) <= Slots
  BY <1>2, SensorFacts
<1>5. QED
  BY <1>2, <1>3, <1>4

LEMMA AccelTypeStep ==
  Accel!TypeOK /\ Numbered /\ [Accel!Next]_(Accel!vars)
    => Accel!TypeOK' /\ Numbered'
<1> SUFFICES ASSUME Accel!TypeOK, Numbered, [Accel!Next]_(Accel!vars)
             PROVE  Accel!TypeOK' /\ Numbered'
  OBVIOUS
<1>a. /\ msgBox \in Seq(Accel!Sample) /\ Len(msgBox) \in Nat
      /\ measured \in Seq(SensorReadings) /\ Len(measured) \in Nat
      /\ msg \in Accel!Sample /\ msg.seq \in Nat /\ msg.seq <= MaxSeq
  BY LenProperties, SampleFields DEF Accel!TypeOK
<1> USE <1>a, SensorFacts DEF Accel!TypeOK, Numbered, Accel!consoleVars,
      Accel!hostVars, Accel!msgVars, Accel!sensorVars
<1>1. CASE Accel!HostMain
  BY <1>1 DEF Accel!HostMain, Accel!MsgChannel!Enable
<1>2. CASE Accel!RxCb
  <2>1. PICK m \in Accel!Range(msgBox) :
          Accel!MsgChannel!Interrupt(m) /\ row' = m /\ rows' = rows + 1
    BY <1>2 DEF Accel!RxCb
  <2>2. /\ msgBox' \in Seq(Accel!Sample) /\ Len(msgBox') <= Slots
        /\ msgOn' = msgOn /\ m \in Accel!Sample
        /\ \A x \in Range(msgBox') : x \in Range(msgBox)
    <3>1. msgBox # <<>> /\ m = Head(msgBox) /\ msgBox' = Tail(msgBox)
          /\ msgOn' = msgOn
      BY <2>1 DEF Accel!MsgChannel!Interrupt
    <3>2. QED
      BY <3>1, BoxTail
  <2>3. QED
    BY <1>2, <2>1, <2>2 DEF Accel!RxCb
<1>3. CASE Accel!ClientMain
  BY <1>3 DEF Accel!ClientMain
<1>4. CASE Accel!ClientMainFails
  BY <1>4 DEF Accel!ClientMainFails
<1>5. CASE Accel!FetchSample
  <2>1. PICK v \in SensorReadings :
          /\ msg' = [xyz |-> Accel!SensorValToMilli(Read(v)),
                     seq |-> msg.seq + 1]
          /\ measured' = Append(measured, v)
    BY <1>5 DEF Accel!FetchSample, Read
  <2>2. Accel!SensorValToMilli(Read(v)) \in Int
    BY MilliIsInt DEF Read
  <2>3. msg' \in Accel!Sample /\ msg'.seq = msg.seq + 1
    BY <1>5, <2>1, <2>2 DEF Accel!FetchSample, Accel!Sample
  <2>4. measured' \in Seq(SensorReadings) /\ Len(measured') = Len(measured) + 1
    BY <2>1, AppendProperties
  <2>5. QED
    BY <1>5, <2>3, <2>4 DEF Accel!FetchSample
<1>6. CASE Accel!FetchFails
  BY <1>6 DEF Accel!FetchFails
<1>7. CASE Accel!SendSample
  <2>1. CASE Accel!MsgChannel!Post(msg, Accel!MsgSize) /\ UNCHANGED lost
    <3>1. /\ msgBox' \in Seq(Accel!Sample) /\ Len(msgBox') <= Slots
          /\ msgOn' = msgOn
          /\ \A x \in Range(msgBox') : x \in Range(msgBox) \/ x = msg
      BY <2>1, BoxAppend DEF Accel!MsgChannel!Post
    <3>2. QED
      BY <1>7, <2>1, <3>1 DEF Accel!SendSample
  <2>2. CASE lost' = lost \cup {msg.seq} /\ UNCHANGED Accel!msgVars
    <3>1. msg.seq \in 1..MaxSeq
      BY <1>7 DEF Accel!SendSample
    <3>2. QED
      BY <1>7, <2>2, <3>1 DEF Accel!SendSample
  <2>3. QED
    BY <1>7, <2>1, <2>2 DEF Accel!SendSample
<1>8. CASE Accel!Wake
  BY <1>8 DEF Accel!Wake
<1>9. CASE Accel!LoseSample
  <2>1. /\ msgBox # <<>> /\ msgBox' = Tail(msgBox) /\ msgOn' = msgOn
        /\ lost' = lost \cup {Head(msgBox).seq}
    BY <1>9 DEF Accel!LoseSample, Accel!MsgChannel!Discard
  <2>2. /\ msgBox' \in Seq(Accel!Sample) /\ Len(msgBox') <= Slots
        /\ Head(msgBox) \in Accel!Sample /\ Head(msgBox) \in Range(msgBox)
        /\ \A x \in Range(msgBox') : x \in Range(msgBox)
    BY <2>1, BoxTail
  <2>3. Head(msgBox).seq \in 1..MaxSeq
    BY <2>2, SampleFields
  <2>4. QED
    BY <1>9, <2>1, <2>2, <2>3 DEF Accel!LoseSample
<1>10. CASE Accel!Rest \/ UNCHANGED Accel!vars
  BY <1>10 DEF Accel!Rest, Accel!vars
<1>11. QED
  BY <1>1, <1>2, <1>3, <1>4, <1>5, <1>6, <1>7, <1>8, <1>9, <1>10 DEF Accel!Next

LEMMA AccelTypeAlways == Accel!Spec => [](Accel!TypeOK /\ Numbered)
BY AccelTypeInit, AccelTypeStep, PTL DEF Accel!Spec

(* Type correctness; in particular, only spent numbers are ever lost.      *)
THEOREM AccelTypeCorrect == Accel!Spec => []Accel!TypeOK
BY AccelTypeAlways, PTL
-----------------------------------------------------------------------------
(* Numbers rise from the console through the mailbox to main(), and none of*)
(* them is lost at the same time; that is why a row never makes good for a *)
(* loss ...                                                                *)
InOrder ==
  /\ row.seq <= msg.seq /\ row.seq \notin lost
  /\ \A n \in lost : n <= msg.seq
  /\ Increasing(Seqs(msgBox))
  /\ \A m \in Range(msgBox) :
       row.seq < m.seq /\ m.seq <= msg.seq /\ m.seq \notin lost
  /\ cmain = "send" =>
       /\ row.seq < msg.seq /\ msg.seq \notin lost
       /\ \A m \in Range(msgBox) : m.seq < msg.seq

(* ... and between the latest row and the latest sample no number is       *)
(* missing: that is why nothing but a loss leaves a gap.                   *)
AtHand(n) == cmain = "send" /\ n = msg.seq
Spent ==
  \A n \in Nat : row.seq < n /\ n <= msg.seq =>
    n \in lost \/ AtHand(n) \/ \E m \in Range(msgBox) : n = m.seq

LEMMA SampleSeqs == \A r \in Accel!Sample : r.seq \in Nat
BY SampleFields

LEMMA HeadIsOldest ==
  ASSUME Accel!TypeOK, InOrder, msgBox # <<>>
  PROVE  /\ Increasing(Seqs(Tail(msgBox)))
         /\ \A m \in Range(Tail(msgBox)) : Head(msgBox).seq < m.seq
<1>1. msgBox \in Seq(Accel!Sample)
  BY DEF Accel!TypeOK
<1>2. /\ Seqs(msgBox) \in Seq(Nat) /\ Seqs(msgBox) # <<>>
      /\ Seqs(Tail(msgBox)) = Tail(Seqs(msgBox))
      /\ Head(Seqs(msgBox)) = Head(msgBox).seq
  BY <1>1, SampleSeqs, SeqsTail
<1>3. /\ Increasing(Tail(Seqs(msgBox)))
      /\ \A n \in Range(Tail(Seqs(msgBox))) : Head(Seqs(msgBox)) < n
  BY <1>2, IncreasingTail DEF InOrder
<1>4. \A m \in Range(Tail(msgBox)) : m.seq \in Range(Seqs(Tail(msgBox)))
  BY DEF Range, Seqs
<1>5. QED
  BY <1>2, <1>3, <1>4

LEMMA PostIncreases ==
  ASSUME Accel!TypeOK, Increasing(Seqs(msgBox)),
         \A m \in Range(msgBox) : m.seq < msg.seq
  PROVE  Increasing(Seqs(Append(msgBox, msg)))
<1>1. msgBox \in Seq(Accel!Sample) /\ msg \in Accel!Sample /\ msg.seq \in Nat
  BY SampleSeqs DEF Accel!TypeOK
<1>2. /\ Seqs(msgBox) \in Seq(Nat)
      /\ Seqs(Append(msgBox, msg)) = Append(Seqs(msgBox), msg.seq)
  BY <1>1, SampleSeqs, SeqsAppend
<1>3. \A n \in Range(Seqs(msgBox)) : n < msg.seq
  BY DEF Range, Seqs
<1>4. QED
  BY <1>1, <1>2, <1>3, IncreasingAppend

(* The steps that touch neither a sample nor its way to the console.       *)
LEMMA QuietStep ==
  ASSUME \/ Accel!HostMain \/ Accel!ClientMain \/ Accel!ClientMainFails
         \/ Accel!FetchFails \/ Accel!Wake \/ Accel!Rest
         \/ UNCHANGED Accel!vars
  PROVE  /\ UNCHANGED <<msgBox, msg, measured, lost, rows, row>>
         /\ cmain' = "send" <=> cmain = "send"
<1> USE DEF Accel!consoleVars, Accel!hostVars, Accel!msgVars, Accel!sensorVars
<1>1. CASE Accel!HostMain
  BY <1>1 DEF Accel!HostMain, Accel!MsgChannel!Enable
<1>2. CASE Accel!ClientMain
  BY <1>2 DEF Accel!ClientMain
<1>3. CASE Accel!ClientMainFails \/ Accel!FetchFails \/ Accel!Wake
  BY <1>3 DEF Accel!ClientMainFails, Accel!FetchFails, Accel!Wake
<1>4. CASE Accel!Rest \/ UNCHANGED Accel!vars
  BY <1>4 DEF Accel!Rest, Accel!vars
<1>5. QED
  BY <1>1, <1>2, <1>3, <1>4

(* The steps that do, each with what it does to them.                      *)
LEMMA RxCbMoves ==
  ASSUME Accel!TypeOK, Accel!RxCb
  PROVE  /\ msgBox # <<>> /\ msgBox' = Tail(msgBox) /\ row' = Head(msgBox)
         /\ rows' = rows + 1 /\ UNCHANGED <<cmain, msg, measured, lost>>
         /\ Head(msgBox) \in Accel!Sample
         /\ Range(msgBox) = {Head(msgBox)} \cup Range(msgBox')
<1>1. PICK m \in Accel!Range(msgBox) :
        /\ Accel!MsgChannel!Interrupt(m) /\ row' = m /\ rows' = rows + 1
        /\ UNCHANGED <<cmain, msg, measured, lost>>
  BY DEF Accel!RxCb
<1>2. msgBox # <<>> /\ m = Head(msgBox) /\ msgBox' = Tail(msgBox)
  BY <1>1 DEF Accel!MsgChannel!Interrupt
<1>3. QED
  BY <1>1, <1>2, BoxTail

LEMMA LoseSampleMoves ==
  ASSUME Accel!TypeOK, Accel!LoseSample
  PROVE  /\ msgBox # <<>> /\ msgBox' = Tail(msgBox)
         /\ lost' = lost \cup {Head(msgBox).seq}
         /\ UNCHANGED <<cmain, msg, measured, rows, row>>
         /\ Head(msgBox) \in Accel!Sample
         /\ Range(msgBox) = {Head(msgBox)} \cup Range(msgBox')
<1>1. /\ msgBox # <<>> /\ msgBox' = Tail(msgBox)
      /\ lost' = lost \cup {Head(msgBox).seq}
      /\ UNCHANGED <<cmain, msg, measured, rows, row>>
  BY DEF Accel!LoseSample, Accel!MsgChannel!Discard, Accel!hostVars,
     Accel!consoleVars
<1>2. QED
  BY <1>1, BoxTail

LEMMA SendSampleMoves ==
  ASSUME Accel!TypeOK, Accel!SendSample
  PROVE  /\ cmain = "send" /\ cmain' = "sleep"
         /\ UNCHANGED <<msg, measured, rows, row>>
         /\ \/ /\ msgBox' = Append(msgBox, msg) /\ UNCHANGED lost
               /\ Range(msgBox') = Range(msgBox) \cup {msg}
            \/ lost' = lost \cup {msg.seq} /\ UNCHANGED msgBox
<1>1. CASE Accel!MsgChannel!Post(msg, Accel!MsgSize) /\ UNCHANGED lost
  <2>1. /\ msgBox' = Append(msgBox, msg)
        /\ Range(msgBox') = Range(msgBox) \cup {msg}
    BY <1>1, BoxAppend DEF Accel!MsgChannel!Post
  <2>2. QED
    BY <1>1, <2>1 DEF Accel!SendSample, Accel!hostVars, Accel!consoleVars
<1>2. CASE lost' = lost \cup {msg.seq} /\ UNCHANGED Accel!msgVars
  BY <1>2 DEF Accel!SendSample, Accel!hostVars, Accel!consoleVars, Accel!msgVars
<1>3. QED
  BY <1>1, <1>2 DEF Accel!SendSample

LEMMA FetchSampleMoves ==
  ASSUME Accel!FetchSample
  PROVE  /\ cmain # "send" /\ cmain' = "send" /\ msg'.seq = msg.seq + 1
         /\ UNCHANGED <<msgBox, lost, rows, row>>
BY DEF Accel!FetchSample, Accel!hostVars, Accel!consoleVars, Accel!msgVars

(* Numbers that a proof compares.                                          *)
LEMMA NumbersAreNat ==
  ASSUME Accel!TypeOK
  PROVE  /\ msg.seq \in Nat /\ row.seq \in Nat /\ rows \in Nat
         /\ \A n \in lost : n \in Nat
         /\ \A m \in Range(msgBox) : m.seq \in Nat
<1>1. /\ msg \in Accel!Sample /\ row \in Accel!Sample
      /\ msgBox \in Seq(Accel!Sample)
  BY DEF Accel!TypeOK
<1>2. \A m \in Range(msgBox) : m \in Accel!Sample
  BY <1>1, ElementOfSeq, LenProperties DEF Range
<1>3. lost \subseteq Nat /\ rows \in Nat
  BY SensorFacts DEF Accel!TypeOK
<1>4. QED
  BY <1>1, <1>2, <1>3, SampleSeqs

LEMMA InOrderStep ==
  Accel!TypeOK /\ InOrder /\ [Accel!Next]_(Accel!vars) => InOrder'
<1> SUFFICES ASSUME Accel!TypeOK, InOrder, [Accel!Next]_(Accel!vars)
             PROVE  InOrder'
  OBVIOUS
<1> USE NumbersAreNat
<1>1. CASE Accel!RxCb
  <2> USE <1>1, RxCbMoves
  <2>1. /\ Increasing(Seqs(msgBox'))
        /\ \A m \in Range(msgBox') : Head(msgBox).seq < m.seq
    BY HeadIsOldest
  <2>2. /\ row.seq < Head(msgBox).seq /\ Head(msgBox).seq <= msg.seq
        /\ Head(msgBox).seq \notin lost
        /\ cmain = "send" => Head(msgBox).seq < msg.seq
    BY DEF InOrder
  <2>3. \A m \in Range(msgBox') : m \in Range(msgBox)
    OBVIOUS
  <2>4. QED
    BY <2>1, <2>2, <2>3 DEF InOrder
<1>2. CASE Accel!LoseSample
  <2> USE <1>2, LoseSampleMoves
  <2>1. /\ Increasing(Seqs(msgBox'))
        /\ \A m \in Range(msgBox') : Head(msgBox).seq < m.seq
    BY HeadIsOldest
  <2>2. /\ row.seq < Head(msgBox).seq /\ Head(msgBox).seq <= msg.seq
        /\ cmain = "send" => Head(msgBox).seq < msg.seq
    BY DEF InOrder
  <2>3. /\ \A m \in Range(msgBox') : m \in Range(msgBox)
        /\ Head(msgBox).seq \in Nat
    OBVIOUS
  <2>4. QED
    BY <2>1, <2>2, <2>3 DEF InOrder
<1>3. CASE Accel!SendSample
  <2> USE <1>3, SendSampleMoves
  <2>1. CASE /\ msgBox' = Append(msgBox, msg) /\ UNCHANGED lost
             /\ Range(msgBox') = Range(msgBox) \cup {msg}
    <3>1. Increasing(Seqs(msgBox'))
      BY <2>1, PostIncreases DEF InOrder
    <3>2. QED
      BY <2>1, <3>1 DEF InOrder
  <2>2. CASE lost' = lost \cup {msg.seq} /\ UNCHANGED msgBox
    BY <2>2 DEF InOrder
  <2>3. QED
    BY <2>1, <2>2
<1>4. CASE Accel!FetchSample
  <2>1. /\ cmain' = "send" /\ msg'.seq = msg.seq + 1
        /\ UNCHANGED <<msgBox, lost, rows, row>>
    BY <1>4, FetchSampleMoves
  <2>2. QED
    BY <2>1 DEF InOrder
<1>5. CASE \/ Accel!HostMain \/ Accel!ClientMain \/ Accel!ClientMainFails
           \/ Accel!FetchFails \/ Accel!Wake \/ Accel!Rest
           \/ UNCHANGED Accel!vars
  BY <1>5, QuietStep DEF InOrder
<1>6. QED
  BY <1>1, <1>2, <1>3, <1>4, <1>5 DEF Accel!Next

LEMMA SpentStep ==
  Accel!TypeOK /\ InOrder /\ Spent /\ [Accel!Next]_(Accel!vars) => Spent'
<1> SUFFICES ASSUME Accel!TypeOK, InOrder, Spent, [Accel!Next]_(Accel!vars)
             PROVE  Spent'
  OBVIOUS
<1> SUFFICES ASSUME NEW n \in Nat, row'.seq < n, n <= msg'.seq
             PROVE  \/ n \in lost' \/ AtHand(n)'
                    \/ \E m \in Range(msgBox') : n = m.seq
  BY DEF Spent
<1> USE NumbersAreNat DEF AtHand
<1>1. CASE Accel!RxCb
  <2> USE <1>1, RxCbMoves
  <2>1. row.seq < Head(msgBox).seq /\ Head(msgBox).seq \in Nat
    BY DEF InOrder
  <2>2. row.seq < n /\ n <= msg.seq /\ n # Head(msgBox).seq
    BY <2>1
  <2>3. n \in lost \/ AtHand(n) \/ \E m \in Range(msgBox) : n = m.seq
    BY <2>2 DEF Spent
  <2>4. QED
    BY <2>2, <2>3
<1>2. CASE Accel!LoseSample
  <2>1. n \in lost \/ AtHand(n) \/ \E m \in Range(msgBox) : n = m.seq
    BY <1>2, LoseSampleMoves DEF Spent
  <2>2. QED
    BY <1>2, <2>1, LoseSampleMoves
<1>3. CASE Accel!SendSample
  <2>1. n \in lost \/ AtHand(n) \/ \E m \in Range(msgBox) : n = m.seq
    BY <1>3, SendSampleMoves DEF Spent
  <2>2. QED
    BY <1>3, <2>1, SendSampleMoves
<1>4. CASE Accel!FetchSample
  <2>1. /\ cmain # "send" /\ cmain' = "send" /\ msg'.seq = msg.seq + 1
        /\ UNCHANGED <<msgBox, lost, rows, row>>
    BY <1>4, FetchSampleMoves
  <2>2. CASE n = msg'.seq
    BY <2>1, <2>2
  <2>3. CASE n <= msg.seq
    BY <2>1, <2>3 DEF Spent
  <2>4. QED
    BY <2>1, <2>2, <2>3
<1>5. CASE \/ Accel!HostMain \/ Accel!ClientMain \/ Accel!ClientMainFails
           \/ Accel!FetchFails \/ Accel!Wake \/ Accel!Rest
           \/ UNCHANGED Accel!vars
  BY <1>5, QuietStep DEF Spent
<1>6. QED
  BY <1>1, <1>2, <1>3, <1>4, <1>5 DEF Accel!Next
-----------------------------------------------------------------------------
(* A row counts itself and the losses since the row before it.             *)
Missing(n) == {k \in lost : k < n}

LEMMA MissingIsFinite ==
  ASSUME Accel!TypeOK, NEW n \in Nat
  PROVE  IsFiniteSet(Missing(n)) /\ Cardinality(Missing(n)) \in Nat
<1>1. IsFiniteSet(1..MaxSeq)
  BY SensorFacts, FS_Interval
<1>2. Missing(n) \subseteq 1..MaxSeq
  BY DEF Missing, Accel!TypeOK
<1>3. QED
  BY <1>1, <1>2, FS_Subset, FS_CardinalityType

LEMMA GapsAtRow ==
  ASSUME Accel!TypeOK, InOrder, Spent, Accel!GapsTellLosses, Accel!RxCb
  PROVE  Accel!GapsTellLosses'
<1> DEFINE s == Head(msgBox).seq
           new == (row.seq + 1)..(s - 1)
<1>1. /\ msgBox # <<>> /\ msgBox' = Tail(msgBox) /\ row'.seq = s
      /\ rows' = rows + 1 /\ lost' = lost /\ Head(msgBox) \in Range(msgBox)
  BY RxCbMoves
<1>2. /\ s \in Nat /\ row.seq \in Nat /\ msg.seq \in Nat /\ rows \in Nat
      /\ row.seq < s /\ s <= msg.seq /\ row.seq \notin lost
      /\ \A n \in lost : n \in Nat
      /\ cmain = "send" => s < msg.seq
  BY <1>1, NumbersAreNat DEF InOrder
<1>3. ASSUME NEW n \in new PROVE n \in lost
  <2>1. n \in Nat /\ row.seq < n /\ n < s
    BY <1>2
  <2>2. ~AtHand(n)
    BY <1>2, <2>1 DEF AtHand
  <2>3. \A m \in Range(msgBox) : n # m.seq
    BY <1>1, <2>1, <1>2, HeadIsOldest, RxCbMoves, NumbersAreNat
  <2>4. QED
    BY <1>2, <2>1, <2>2, <2>3 DEF Spent
<1>4. Missing(s) = Missing(row.seq) \cup new /\ Missing(row.seq) \cap new = {}
  BY <1>2, <1>3 DEF Missing
<1>5. IsFiniteSet(new) /\ Cardinality(new) = s - 1 - row.seq
  <2>1. /\ row.seq + 1 \in Int /\ s - 1 \in Int
    BY <1>2
  <2>2. IsFiniteSet(new) /\ Cardinality(new) =
          IF row.seq + 1 > s - 1 THEN 0 ELSE (s - 1) - (row.seq + 1) + 1
    BY <2>1, FS_Interval
  <2>3. QED
    BY <1>2, <2>2
<1>6. /\ IsFiniteSet(Missing(row.seq)) /\ Cardinality(Missing(row.seq)) \in Nat
  BY <1>2, MissingIsFinite
<1>7. Cardinality(Missing(s)) =
        Cardinality(Missing(row.seq)) + Cardinality(new)
  <2>1. Cardinality(Missing(row.seq) \cap new) = 0
    BY <1>4, FS_EmptySet
  <2>2. Cardinality(Missing(row.seq) \cup new) =
          Cardinality(Missing(row.seq)) + Cardinality(new)
            - Cardinality(Missing(row.seq) \cap new)
    BY <1>5, <1>6, FS_Union
  <2>3. Cardinality(new) \in Int
    BY <1>2, <1>5
  <2>4. Cardinality(Missing(row.seq)) + Cardinality(new) - 0 =
          Cardinality(Missing(row.seq)) + Cardinality(new)
    BY <1>6, <2>3
  <2>5. QED
    BY <1>4, <2>1, <2>2, <2>4
<1>8. row.seq - rows = Cardinality(Missing(row.seq))
  BY SameCardinality DEF Accel!GapsTellLosses, Missing
<1>9. s - (rows + 1) = Cardinality(Missing(s))
  BY <1>2, <1>5, <1>6, <1>7, <1>8
<1>10. QED
  BY <1>1, <1>9, SameCardinality DEF Accel!GapsTellLosses, Missing

LEMMA GapsStep ==
  Accel!TypeOK /\ InOrder /\ Spent /\ Accel!GapsTellLosses
    /\ [Accel!Next]_(Accel!vars)
    => Accel!GapsTellLosses'
<1> SUFFICES ASSUME Accel!TypeOK, InOrder, Spent, Accel!GapsTellLosses,
                    [Accel!Next]_(Accel!vars)
             PROVE  Accel!GapsTellLosses'
  OBVIOUS
<1>1. CASE Accel!RxCb
  BY <1>1, GapsAtRow
<1>2. CASE Accel!LoseSample \/ Accel!SendSample
  <2>1. /\ UNCHANGED <<rows, row>>
        /\ \/ UNCHANGED lost
           \/ \E n \in Nat : lost' = lost \cup {n} /\ row.seq < n
    BY <1>2, LoseSampleMoves, SendSampleMoves, NumbersAreNat DEF InOrder
  <2>2. {n \in lost' : n < row.seq} = {n \in lost : n < row.seq}
    BY <2>1, NumbersAreNat
  <2>3. QED
    BY <2>1, <2>2 DEF Accel!GapsTellLosses
<1>3. CASE Accel!FetchSample
  BY <1>3, FetchSampleMoves DEF Accel!GapsTellLosses
<1>4. CASE \/ Accel!HostMain \/ Accel!ClientMain \/ Accel!ClientMainFails
           \/ Accel!FetchFails \/ Accel!Wake \/ Accel!Rest
           \/ UNCHANGED Accel!vars
  BY <1>4, QuietStep DEF Accel!GapsTellLosses
<1>5. QED
  BY <1>1, <1>2, <1>3, <1>4 DEF Accel!Next

LEMMA GapsInit == Accel!Init => InOrder /\ Spent /\ Accel!GapsTellLosses
<1> SUFFICES ASSUME Accel!Init PROVE InOrder /\ Spent /\ Accel!GapsTellLosses
  OBVIOUS
<1>1. /\ msgBox = <<>> /\ lost = {} /\ cmain = "boot" /\ rows = 0
      /\ row.seq = 0 /\ msg.seq = 0
  BY DEF Accel!Init, Accel!MsgChannel!Init
<1>2. Range(msgBox) = {} /\ Increasing(Seqs(msgBox))
  BY <1>1 DEF Range, Seqs, Increasing
<1>3. {n \in lost : n < row.seq} = {}
  BY <1>1
<1>4. InOrder /\ Spent
  BY <1>1, <1>2 DEF InOrder, Spent
<1>5. Accel!GapsTellLosses
  BY <1>1, <1>3, FS_EmptySet, SameCardinality DEF Accel!GapsTellLosses
<1>6. QED
  BY <1>4, <1>5

LEMMA GapsAlways == Accel!Spec => [](InOrder /\ Spent /\ Accel!GapsTellLosses)
BY GapsInit, InOrderStep, SpentStep, GapsStep, AccelTypeAlways, PTL
   DEF Accel!Spec

(* The console's gaps are the lost messages, for every mailbox and every   *)
(* number of samples.                                                      *)
THEOREM GapsAreLosses == Accel!Spec => []Accel!GapsTellLosses
BY GapsAlways, PTL
-----------------------------------------------------------------------------
(* The conversion rounds to a thousandth towards zero, for either sign.    *)
LEMMA MilliTruncates ==
  ASSUME NEW v \in SensorReadings
  PROVE  Accel!Truncates(Accel!SensorValToMilli(v), Accel!Micro(v))
<1>a. v.val1 \in Int /\ v.val2 \in Int
  BY SensorFacts
<1>b. (v.val1 >= 0 /\ v.val2 >= 0) \/ (v.val1 <= 0 /\ v.val2 <= 0)
  BY SensorFacts
<1>1. /\ v.val1 \in Int /\ v.val2 \in Int
      /\ (v.val1 >= 0 /\ v.val2 >= 0) \/ (v.val1 <= 0 /\ v.val2 <= 0)
  BY <1>a, <1>b
<1>2. \A n \in Nat : /\ 1000 * (n \div 1000) <= n
                    /\ n - 999 <= 1000 * (n \div 1000)
  OBVIOUS
<1>3. CASE v.val1 >= 0 /\ v.val2 >= 0
  <2>1. /\ Accel!SensorValToMilli(v) * 1000 =
             v.val1 * (1000 * 1000) + 1000 * (v.val2 \div 1000)
        /\ Accel!Micro(v) = v.val1 * (1000 * 1000) + v.val2
        /\ Accel!Micro(v) >= 0
    BY <1>1, <1>3 DEF Accel!SensorValToMilli, Accel!Thousandth,
       Accel!Micro, Accel!MICRO
  <2>2. /\ 1000 * (v.val2 \div 1000) <= v.val2
        /\ v.val2 - 999 <= 1000 * (v.val2 \div 1000)
    BY <1>1, <1>2, <1>3
  <2>3. QED
    BY <1>1, <2>1, <2>2 DEF Accel!Truncates
<1>4. CASE v.val1 <= 0 /\ v.val2 <= 0
  <2> DEFINE k == (-v.val2) \div 1000
  <2>1. k \in Int /\ 1000 * k <= -v.val2 /\ -v.val2 - 999 <= 1000 * k
    BY <1>1, <1>2, <1>4
  <2>2. Accel!Thousandth(v.val2) = -k
    BY <1>1, <1>4 DEF Accel!Thousandth
  <2>3. /\ Accel!SensorValToMilli(v) * 1000 = v.val1 * (1000 * 1000) - 1000 * k
        /\ Accel!Micro(v) = v.val1 * (1000 * 1000) + v.val2
        /\ Accel!Micro(v) <= 0
    BY <1>1, <1>4, <2>1, <2>2
       DEF Accel!SensorValToMilli, Accel!Micro, Accel!MICRO
  <2>4. QED
    BY <1>1, <1>4, <2>1, <2>3 DEF Accel!Truncates
<1>5. QED
  BY <1>1, <1>3, <1>4

(* What the sample numbered n must say, and that it does: in main()'s hand,*)
(* in the mailbox and on the console.                                      *)
Value(n) == IF awake /\ scaled THEN Accel!SensorValToMilli(measured[n]) ELSE 0
Faithful ==
  /\ \A m \in Range(msgBox) : m.xyz = Value(m.seq)
  /\ cmain = "send" => msg.xyz = Value(msg.seq)
  /\ row.seq > 0 => row.xyz = Value(row.seq)

(* Nothing has been measured yet when the sensor is set up.                *)
LEMMA FaithfulAtClientMain ==
  ASSUME Accel!TypeOK, Numbered, InOrder, Accel!ClientMain
  PROVE  Faithful'
<1>1. msg.seq = 0 /\ cmain' # "send" /\ UNCHANGED <<msgBox, msg, row>>
  BY DEF Numbered, Accel!ClientMain, Accel!hostVars, Accel!consoleVars,
     Accel!msgVars
<1>2. row.seq = 0 /\ \A m \in Range(msgBox) : FALSE
  BY <1>1, NumbersAreNat DEF Numbered, InOrder
<1>3. QED
  BY <1>1, <1>2 DEF Faithful

LEMMA SetUpOnce ==
  ASSUME [Accel!Next]_(Accel!vars), ~Accel!ClientMain
  PROVE  UNCHANGED <<awake, scaled>>
BY DEF Accel!Next, Accel!vars, Accel!sensorVars, Accel!HostMain, Accel!RxCb,
   Accel!ClientMainFails, Accel!FetchSample, Accel!FetchFails,
   Accel!SendSample, Accel!Wake, Accel!LoseSample, Accel!Rest

LEMMA FaithfulAtFetchSample ==
  ASSUME Accel!TypeOK, Numbered, InOrder, Faithful, Accel!FetchSample
  PROVE  Faithful'
<1>1. PICK v \in SensorReadings :
        /\ msg' = [xyz |-> Accel!SensorValToMilli(Read(v)), seq |-> msg.seq + 1]
        /\ measured' = Append(measured, v)
        /\ UNCHANGED <<awake, scaled, msgBox, row>>
  BY DEF Accel!FetchSample, Read, Accel!hostVars, Accel!consoleVars,
     Accel!msgVars, Accel!sensorVars
<1>2. /\ measured \in Seq(SensorReadings) /\ Len(measured) = msg.seq
      /\ msg.seq \in Nat
  BY NumbersAreNat DEF Accel!TypeOK, Numbered
<1>3. /\ \A n \in 1..msg.seq : measured'[n] = measured[n]
      /\ measured'[msg.seq + 1] = v
  BY <1>1, <1>2, AppendProperties
<1>4. \A n \in 1..msg.seq : Value(n)' = Value(n)
  BY <1>1, <1>3 DEF Value
<1>5. ASSUME NEW n \in Nat, n = msg.seq + 1
      PROVE  msg'.xyz = Value(n)'
  <2>1. CASE awake /\ scaled
    BY <1>1, <1>3, <1>5, <2>1 DEF Value, Read
  <2>2. CASE ~(awake /\ scaled)
    BY <1>1, <2>2, MilliIsInt DEF Value, Read
  <2>3. QED
    BY <2>1, <2>2
<1>6. \A m \in Range(msgBox) : m.seq \in 1..msg.seq
  BY <1>2, NumbersAreNat DEF Numbered, InOrder
<1>7. row.seq > 0 => row.seq \in 1..msg.seq
  BY <1>2, NumbersAreNat DEF InOrder
<1>8. msg'.seq = msg.seq + 1 /\ msg'.seq \in Nat
  BY <1>1, <1>2
<1>9. msg'.xyz = Value(msg.seq)'
  BY <1>5, <1>8
<1>10. QED
  BY <1>1, <1>4, <1>6, <1>7, <1>9 DEF Faithful

LEMMA FaithfulStep ==
  Accel!TypeOK /\ Numbered /\ InOrder /\ Faithful
    /\ [Accel!Next]_(Accel!vars)
    => Faithful'
<1> SUFFICES ASSUME Accel!TypeOK, Numbered, InOrder, Faithful,
                    [Accel!Next]_(Accel!vars)
             PROVE  Faithful'
  OBVIOUS
<1>1. CASE Accel!ClientMain
  BY <1>1, FaithfulAtClientMain
<1>2. CASE Accel!FetchSample
  BY <1>2, FaithfulAtFetchSample
<1>3. CASE ~Accel!ClientMain /\ UNCHANGED measured
  <2>1. \A n : Value(n)' = Value(n)
    BY <1>3, SetUpOnce DEF Value
  <2>2. CASE Accel!RxCb
    BY <2>1, <2>2, RxCbMoves DEF Faithful
  <2>3. CASE Accel!LoseSample
    BY <2>1, <2>3, LoseSampleMoves DEF Faithful
  <2>4. CASE Accel!SendSample
    BY <2>1, <2>4, SendSampleMoves DEF Faithful
  <2>5. CASE \/ Accel!HostMain \/ Accel!ClientMainFails \/ Accel!FetchFails
             \/ Accel!Wake \/ Accel!Rest \/ UNCHANGED Accel!vars
    BY <2>1, <2>5, QuietStep DEF Faithful
  <2>6. CASE Accel!FetchSample
    BY <2>6, <1>2
  <2>7. QED
    BY <1>3, <2>2, <2>3, <2>4, <2>5, <2>6 DEF Accel!Next
<1>4. CASE ~Accel!ClientMain /\ ~Accel!FetchSample
  BY <1>3, <1>4, RxCbMoves, LoseSampleMoves, SendSampleMoves, QuietStep
     DEF Accel!Next
<1>5. QED
  BY <1>1, <1>2, <1>4

LEMMA FaithfulInit == Accel!Init => Faithful
<1> SUFFICES ASSUME Accel!Init PROVE Faithful
  OBVIOUS
<1>1. msgBox = <<>> /\ cmain = "boot" /\ row.seq = 0
  BY DEF Accel!Init, Accel!MsgChannel!Init
<1>2. Range(msgBox) = {}
  BY <1>1 DEF Range
<1>3. QED
  BY <1>1, <1>2 DEF Faithful

(* Every row is the sample of its number, rounded towards zero, or nought  *)
(* if the sensor was not set up.                                           *)
THEOREM RowsAreSamples == Accel!Spec => []Accel!RowsAreTrue
<1>1. Accel!TypeOK /\ Numbered /\ InOrder /\ Faithful => Accel!RowsAreTrue
  <2> SUFFICES ASSUME Accel!TypeOK, Numbered, InOrder, Faithful, row.seq > 0
               PROVE  IF awake /\ scaled
                        THEN Accel!Truncates(row.xyz,
                                             Accel!Micro(measured[row.seq]))
                        ELSE row.xyz = 0
    BY DEF Accel!RowsAreTrue
  <2>1. row.seq \in 1..Len(measured) /\ measured \in Seq(SensorReadings)
    BY NumbersAreNat DEF Accel!TypeOK, Numbered, InOrder
  <2>2. measured[row.seq] \in SensorReadings
    BY <2>1, ElementOfSeq
  <2>3. Accel!Truncates(Accel!SensorValToMilli(measured[row.seq]),
                        Accel!Micro(measured[row.seq]))
    BY <2>2, MilliTruncates
  <2>4. QED
    BY <2>3 DEF Faithful, Value
<1>2. QED
  BY <1>1, FaithfulInit, FaithfulStep, AccelTypeAlways, GapsAlways, PTL
     DEF Accel!Spec
=============================================================================
