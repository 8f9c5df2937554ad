------------------------ MODULE SharedCounterProofs ------------------------
(***************************************************************************)
(* Theorems about SharedCounter.  What the lab shows is right whatever the *)
(* time and the sizes; that its display keeps up is a matter of time, and  *)
(* proved for any Modulus from the code's periods.                         *)
(* The second half is about lab 08, which keeps time the same way, as the  *)
(* instance Bursts of MessageQueue.                                        *)
(***************************************************************************)
EXTENDS SharedCounter, QueueLemmas

(* Only LedOn and NextBlink count, and they take turns.                    *)
FlashesCounted ==
  /\ tpc = "loop" => flashes = i /\ i <= BlinkCount(msg)
  /\ tpc \in {"lit", "dark"} => flashes = i + 1 /\ i < BlinkCount(msg)

LEMMA BlinkCounts == ASSUME NEW c \in Nat PROVE BlinkCount(c) \in 1..5
BY DEF BlinkCount

LEMMA NextCount ==
  ASSUME NEW c \in Counter
  PROVE  /\ (c + 1) % Modulus \in Counter
         /\ (c + 1) % Modulus = IF c + 1 = Modulus THEN 0 ELSE c + 1
<1>1. Modulus \in Nat \ {0} /\ c \in 0..(Modulus - 1)
  BY SharedCounterAssumption DEF Counter
<1>2. CASE c + 1 < Modulus
  <2>1. (c + 1) % Modulus = c + 1
    BY <1>1, <1>2
  <2>2. QED
    BY <1>1, <1>2, <2>1 DEF Counter
<1>3. CASE c + 1 = Modulus
  <2>1. (c + 1) % Modulus = 0
    BY <1>1, <1>3
  <2>2. QED
    BY <1>1, <1>3, <2>1 DEF Counter
<1>4. QED
  BY <1>1, <1>2, <1>3

(* Of at most two sleeps one ends first.                                   *)
LEMMA LeastOfTwo ==
  ASSUME NEW a \in Nat, NEW b \in Nat, NEW S,
         S = {a} \/ S = {b} \/ S = {a, b}
  PROVE  \E x \in S : \A y \in S : x <= y
<1>1. CASE S = {a} \/ S = {b}
  BY <1>1
<1>2. CASE S = {a, b} /\ a <= b
  BY <1>2
<1>3. CASE S = {a, b} /\ b <= a
  BY <1>3
<1>4. QED
  BY <1>1, <1>2, <1>3

(* How far time jumps: at most to the end of the next sleep.               *)
LEMMA TickTakes ==
  ASSUME TypeOK, Tick
  PROVE  \E d \in Nat \ {0} :
           /\ IF hpc = "sleep" THEN d <= hostLeft /\ hostLeft' = hostLeft - d
                               ELSE hostLeft' = 0
           /\ IF TaskSleeps THEN d <= taskLeft /\ taskLeft' = taskLeft - d
                            ELSE taskLeft' = 0
<1> DEFINE d == IF cmain = "boot" THEN 1 ELSE Min(Sleeps)
<1>1. /\ ~Urgent /\ Sleeps # {}
      /\ hostLeft' = IF hpc = "sleep" THEN hostLeft - d ELSE 0
      /\ taskLeft' = IF TaskSleeps THEN taskLeft - d ELSE 0
  BY DEF Tick
<1>2. hpc \in {"sleep", "send"} /\ hostLeft \in Nat /\ taskLeft \in Nat
  BY SharedCounterAssumption DEF TypeOK
<1>3. hpc = "sleep" => hostLeft # 0
  BY <1>1 DEF Urgent, HostCanRun
<1>4. TaskSleeps => taskLeft # 0
  BY <1>1 DEF Urgent, TaskCanRun
<1>5. \A s \in Sleeps : s \in Nat \ {0}
  BY <1>2, <1>3, <1>4 DEF Sleeps
<1>6. CASE cmain = "boot"
  <2>1. d = 1 /\ ~TaskSleeps
    BY <1>6 DEF TypeOK, TaskSleeps
  <2>2. QED
    BY <1>1, <1>2, <1>3, <2>1
<1>7. CASE cmain # "boot"
  <2>1. d = Min(Sleeps)
    BY <1>7
  <2>2. \E x \in Sleeps : \A y \in Sleeps : x <= y
    <3>1. \/ Sleeps = {hostLeft} \/ Sleeps = {taskLeft}
          \/ Sleeps = {hostLeft, taskLeft}
      BY <1>1 DEF Sleeps
    <3>2. QED
      BY <1>2, <3>1, LeastOfTwo
  <2>3. Min(Sleeps) \in Sleeps /\ \A y \in Sleeps : Min(Sleeps) <= y
    BY <2>2 DEF Min
  <2>4. d \in Nat \ {0} /\ \A y \in Sleeps : d <= y
    BY <1>5, <2>1, <2>3
  <2>5. (hpc = "sleep" => d <= hostLeft) /\ (TaskSleeps => d <= taskLeft)
    BY <2>4 DEF Sleeps
  <2>6. QED
    BY <1>1, <1>2, <2>4, <2>5
<1>8. QED
  BY <1>6, <1>7
-----------------------------------------------------------------------------
LEMMA TypeInit == Init => TypeOK /\ FlashesCounted
<1> SUFFICES ASSUME Init PROVE TypeOK /\ FlashesCounted
  OBVIOUS
<1>1. box = <<>> /\ on = FALSE /\ rx_msgq = <<>>
  BY DEF Init, Channel!Init, RxMsgQ!Init
<1>2. <<>> \in Seq(Counter) /\ Len(<<>>) = 0 /\ 0 \in Counter
  BY EmptySeq, SharedCounterAssumption DEF Counter
<1>3. /\ hpc = "sleep" /\ hostLeft = 0 /\ counter = 0 /\ cmain = "boot"
      /\ tpc = "off" /\ taskLeft = 0 /\ msg = 0 /\ i = 0
      /\ led0 = FALSE /\ flashes = 0 /\ spoiled = FALSE
  BY DEF Init
<1>4. /\ 0 \in 0..(TICK_PERIOD + Slack) /\ 0 \in 0..(BLINK_ON + Slack)
      /\ 0 <= Slots /\ 0 <= Depth
  BY SharedCounterAssumption DEF TICK_PERIOD, BLINK_ON
<1>5. on \in BOOLEAN /\ led0 \in BOOLEAN /\ spoiled \in BOOLEAN
  BY <1>1, <1>3
<1>6. QED
  BY <1>1, <1>2, <1>3, <1>4, <1>5 DEF TypeOK, FlashesCounted

LEMMA SleepBounds ==
  ASSUME NEW d \in Nat
  PROVE  \A n \in Sleep(d) : n \in Nat /\ d <= n /\ n <= d + Slack
BY SharedCounterAssumption DEF Sleep

LEMMA TypeStep ==
  TypeOK /\ FlashesCounted /\ [Next]_vars => TypeOK' /\ FlashesCounted'
<1> SUFFICES ASSUME TypeOK, FlashesCounted, [Next]_vars
             PROVE  TypeOK' /\ FlashesCounted'
  OBVIOUS
<1>a. /\ box \in Seq(Counter) /\ Len(box) \in Nat
      /\ rx_msgq \in Seq(Counter) /\ Len(rx_msgq) \in Nat
      /\ msg \in Nat /\ i \in Nat /\ flashes \in Nat
      /\ \A c \in Counter : BlinkCount(c) \in 1..5
  BY LenProperties, BlinkCounts, SharedCounterAssumption DEF TypeOK, Counter
<1> USE <1>a, SharedCounterAssumption DEF TypeOK, FlashesCounted, hostVars,
      boxVars, queueVars, ledVars, taskVars
<1>1. CASE Count
  BY <1>1, NextCount DEF Count
<1>2. CASE SendCounter
  <2>1. hpc' = "sleep" /\ hostLeft' \in 0..(TICK_PERIOD + Slack)
    BY <1>2, SleepBounds DEF SendCounter, TICK_PERIOD
  <2>2. box' \in Seq(Counter) /\ Len(box') <= Slots /\ on' = on
    <3>1. CASE Channel!Post(counter, MsgSize)
      <4>1. Len(box) < Slots /\ box' = Append(box, counter) /\ on' = on
        BY <3>1 DEF Channel!Post
      <4>2. QED
        BY <4>1, Puts
    <3>2. CASE UNCHANGED boxVars
      BY <3>2
    <3>3. QED
      BY <1>2, <3>1, <3>2 DEF SendCounter
  <2>3. UNCHANGED <<counter, cmain, queueVars, taskVars>>
    BY <1>2 DEF SendCounter
  <2>4. QED
    BY <2>1, <2>2, <2>3
<1>3. CASE ClientMain
  BY <1>3 DEF ClientMain, Channel!Enable
<1>4. CASE ClientMainFails
  BY <1>4 DEF ClientMainFails
<1>5. CASE StartBlinkTask
  BY <1>5 DEF StartBlinkTask
<1>6. CASE LoseCounter
  <2>1. box' \in Seq(Counter) /\ Len(box') <= Slots /\ on' = on
    BY <1>6, Takes DEF LoseCounter, Channel!Discard
  <2>2. QED
    BY <1>6, <2>1 DEF LoseCounter
<1>7. CASE MboxRxCallback
  <2>1. PICK c \in Range(box) :
          Channel!Interrupt(c) /\ (RxMsgQ!Put(c) \/ RxMsgQ!PutFails)
    BY <1>7 DEF MboxRxCallback
  <2>2. /\ box' \in Seq(Counter) /\ Len(box') <= Slots /\ on' = on
        /\ c \in Counter
    BY <2>1, Takes DEF Channel!Interrupt
  <2>3. rx_msgq' \in Seq(Counter) /\ Len(rx_msgq') <= Depth
    <3>1. CASE RxMsgQ!Put(c)
      <4>1. Len(rx_msgq) < Depth /\ rx_msgq' = Append(rx_msgq, c)
        BY <3>1 DEF RxMsgQ!Put, RxMsgQ!Full
      <4>2. QED
        BY <2>2, <4>1, Puts
    <3>2. CASE RxMsgQ!PutFails
      BY <3>2 DEF RxMsgQ!PutFails
    <3>3. QED
      BY <2>1, <3>1, <3>2
  <2>4. QED
    BY <1>7, <2>2, <2>3 DEF MboxRxCallback
<1>8. CASE GetCounter
  <2>1. PICK c \in Range(rx_msgq) : RxMsgQ!Get(c) /\ msg' = c
    BY <1>8 DEF GetCounter
  <2>2. /\ rx_msgq' \in Seq(Counter) /\ Len(rx_msgq') <= Depth
        /\ msg' \in Counter
    BY <2>1, Takes DEF RxMsgQ!Get
  <2>3. BlinkCount(msg') \in 1..5
    BY <2>2
  <2>4. /\ tpc' = "loop" /\ i' = 0 /\ flashes' = 0 /\ spoiled' = FALSE
        /\ tpc = "get"
        /\ UNCHANGED <<hostVars, boxVars, cmain, held, taskLeft, led0>>
    BY <1>8 DEF GetCounter
  <2>5. spoiled' \in BOOLEAN
    BY <2>4
  <2>6. TypeOK'
    BY <2>2, <2>4, <2>5
  <2>7. QED
    BY <2>3, <2>4, <2>6
<1>9. CASE LedOn
  <2>1. led0' \in BOOLEAN /\ spoiled' \in BOOLEAN
    BY <1>9 DEF LedOn, SetLed0
  <2>2. taskLeft' \in 0..(BLINK_ON + Slack)
    BY <1>9, SleepBounds DEF LedOn, BLINK_ON
  <2>3. QED
    BY <1>9, <2>1, <2>2 DEF LedOn
<1>10. CASE LedOff
  <2>1. led0' \in BOOLEAN /\ spoiled' \in BOOLEAN
    BY <1>10 DEF LedOff, SetLed0
  <2>2. taskLeft' \in 0..(BLINK_ON + Slack)
    BY <1>10, SleepBounds DEF LedOff, BLINK_OFF, BLINK_ON
  <2>3. QED
    BY <1>10, <2>1, <2>2 DEF LedOff
<1>11. CASE NextBlink
  BY <1>11 DEF NextBlink
<1>12. CASE EndBlinking
  BY <1>12 DEF EndBlinking
<1>13. CASE Tick
  <2>1. /\ hostLeft' \in 0..(TICK_PERIOD + Slack)
        /\ taskLeft' \in 0..(BLINK_ON + Slack)
    <3>1. PICK d \in Nat \ {0} :
           /\ IF hpc = "sleep" THEN d <= hostLeft /\ hostLeft' = hostLeft - d
                               ELSE hostLeft' = 0
           /\ IF TaskSleeps THEN d <= taskLeft /\ taskLeft' = taskLeft - d
                            ELSE taskLeft' = 0
      BY <1>13, TickTakes
    <3>2. QED
      BY <3>1 DEF TICK_PERIOD, BLINK_ON
  <2>2. QED
    BY <1>13, <2>1 DEF Tick
<1>14. CASE Rest \/ UNCHANGED vars
  BY <1>14 DEF Rest, vars
<1>15. QED
  BY <1>1, <1>2, <1>3, <1>4, <1>5, <1>6, <1>7, <1>8, <1>9, <1>10, <1>11,
     <1>12, <1>13, <1>14 DEF Next

LEMMA TypeAlways == Spec => [](TypeOK /\ FlashesCounted)
BY TypeInit, TypeStep, PTL DEF Spec

(* Type correctness of lab 04, for every capacity and every modulus: both  *)
(* queues stay within their sizes, and no pattern has a sixth flash.       *)
THEOREM TypeCorrect == Spec => []TypeOK
BY TypeAlways, PTL
-----------------------------------------------------------------------------
(* Between two flashes LED0 is dark, unless a pin could not be set.        *)
DarkBetween ==
  tpc = "dark" \/ (tpc = "loop" /\ flashes > 0) => spoiled \/ ~led0

LEMMA DarkStep ==
  TypeOK /\ FlashesCounted /\ DarkBetween /\ [Next]_vars => DarkBetween'
<1> SUFFICES ASSUME TypeOK, FlashesCounted, DarkBetween, [Next]_vars
             PROVE  DarkBetween'
  OBVIOUS
<1> USE DEF DarkBetween
<1>1. CASE GetCounter
  BY <1>1 DEF GetCounter
<1>2. CASE LedOff
  BY <1>2 DEF LedOff, SetLed0
<1>3. CASE NextBlink
  BY <1>3 DEF NextBlink, ledVars
<1>4. CASE LedOn \/ StartBlinkTask \/ EndBlinking
  BY <1>4 DEF LedOn, StartBlinkTask, EndBlinking
<1>5. CASE \/ Count \/ SendCounter \/ ClientMain \/ ClientMainFails
           \/ LoseCounter \/ MboxRxCallback \/ Tick \/ Rest
           \/ UNCHANGED vars
  <2>1. UNCHANGED <<tpc, ledVars>>
    BY <1>5 DEF Count, SendCounter, ClientMain, ClientMainFails, LoseCounter,
       MboxRxCallback, Tick, Rest, vars, taskVars
  <2>2. QED
    BY <2>1 DEF ledVars
<1>6. QED
  BY <1>1, <1>2, <1>3, <1>4, <1>5 DEF Next

LEMMA DarkAlways == Spec => []DarkBetween
<1>1. Init => DarkBetween
  BY DEF Init, DarkBetween
<1>2. QED
  BY <1>1, DarkStep, TypeAlways, PTL DEF Spec

(* LED0 tells the counter: as many flashes as its remainder asks for, and  *)
(* dark afterwards, unless a pin could not be set.                         *)
THEOREM FlashesTellCounter == Spec => LedTellsCounter
<1>1. TypeOK /\ FlashesCounted /\ DarkBetween /\ [Next]_vars
        => [tpc = "loop" /\ tpc' = "get" /\ ~spoiled
              => ~led0 /\ flashes = (msg % 5) + 1]_vars
  <2> SUFFICES ASSUME TypeOK, FlashesCounted, DarkBetween, [Next]_vars,
                      tpc = "loop", tpc' = "get", ~spoiled
               PROVE  ~led0 /\ flashes = (msg % 5) + 1
    OBVIOUS
  <2>1. msg \in Nat /\ i \in Nat /\ BlinkCount(msg) \in 1..5
    BY BlinkCounts, SharedCounterAssumption DEF TypeOK, Counter
  <2>2. EndBlinking
    BY DEF Next, Count, SendCounter, ClientMain, ClientMainFails,
       StartBlinkTask, LoseCounter, MboxRxCallback, GetCounter, LedOn,
       LedOff, NextBlink, Tick, Rest, vars, taskVars, TypeOK
  <2>3. i >= BlinkCount(msg)
    BY <2>2 DEF EndBlinking
  <2>4. flashes = BlinkCount(msg)
    BY <2>1, <2>3 DEF FlashesCounted
  <2>5. flashes > 0
    BY <2>1, <2>4
  <2>6. QED
    BY <2>4, <2>5 DEF DarkBetween, BlinkCount
<1>2. QED
  BY <1>1, TypeAlways, DarkAlways, PTL DEF Spec, LedTellsCounter
-----------------------------------------------------------------------------
(* The display keeps up.  Time is measured by the host's counting: a       *)
(* counter is Lag counts old, and Left units remain until the next one.    *)
(* With a single slot only one counter can wait for M4's boot, and with at *)
(* most one unit too much per sleep a flash takes at most 32 units.        *)
Timely == Slots = 1 /\ Slack <= 1 /\ Depth >= 3 /\ Modulus >= 5

Lag(c) == (counter - c) % Modulus
Left == IF hpc = "send" THEN TICK_PERIOD ELSE hostLeft

(* The most that the rest of the current display takes.                    *)
ToGo == 32 * (BlinkCount(msg) - i)
Remaining ==
  IF tpc = "lit" THEN taskLeft + ToGo - 16
  ELSE IF tpc = "dark" THEN taskLeft + ToGo - 32 ELSE ToGo

(* How late the display of counter c may begin: the long displays fall     *)
(* behind by up to 148 units, which the short ones make up for.            *)
Delay(c) ==
  LET r == c % 5 IN IF r = 0 THEN 148 ELSE IF r = 1 THEN 80
                    ELSE IF r = 4 THEN 88 ELSE 60

LEMMA LagIs ==
  ASSUME counter \in Counter, NEW c \in Counter
  PROVE  /\ Lag(c) = IF c <= counter THEN counter - c
                                     ELSE counter - c + Modulus
         /\ Lag(c) \in 0..(Modulus - 1)
<1>1. /\ Modulus \in Nat \ {0} /\ counter \in 0..(Modulus - 1)
      /\ c \in 0..(Modulus - 1)
  BY SharedCounterAssumption DEF Counter
<1>2. CASE c <= counter
  <2>1. counter - c \in 0..(Modulus - 1)
    BY <1>1, <1>2
  <2>2. (counter - c) % Modulus = counter - c
    BY <1>1, <2>1
  <2>3. QED
    BY <1>2, <2>1, <2>2 DEF Lag
<1>3. CASE counter < c
  <2>1. counter - c + Modulus \in 0..(Modulus - 1)
    BY <1>1, <1>3
  <2>2. (counter - c) % Modulus = counter - c + Modulus
    BY <1>1, <1>3, <2>1
  <2>3. QED
    BY <1>1, <1>3, <2>1, <2>2 DEF Lag
<1>4. QED
  BY <1>1, <1>2, <1>3

(* Each count makes every counter one count older.                         *)
LEMMA LagGrows ==
  ASSUME counter \in Counter, counter' = (counter + 1) % Modulus,
         NEW c \in Counter, Lag(c) < Modulus - 1
  PROVE  Lag(c)' = Lag(c) + 1
<1>1. /\ Modulus \in Nat \ {0} /\ counter \in 0..(Modulus - 1)
      /\ c \in 0..(Modulus - 1)
  BY SharedCounterAssumption DEF Counter
<1>2. /\ counter' \in Counter
      /\ counter' = IF counter + 1 = Modulus THEN 0 ELSE counter + 1
  BY NextCount
<1>3. Lag(c) = IF c <= counter THEN counter - c ELSE counter - c + Modulus
  BY LagIs
<1>4. counter' - c \in Int /\ Lag(c)' = (counter' - c) % Modulus
  BY <1>1, <1>2 DEF Lag
<1>5. CASE c <= counter'
  <2>1. counter' - c \in 0..(Modulus - 1)
    BY <1>1, <1>2, <1>5
  <2>2. (counter' - c) % Modulus = counter' - c
    BY <1>1, <2>1
  <2>3. QED
    BY <1>1, <1>2, <1>3, <1>4, <1>5, <2>2
<1>6. CASE counter' < c
  <2>1. counter' - c + Modulus \in 0..(Modulus - 1)
    BY <1>1, <1>2, <1>6
  <2>2. (counter' - c) % Modulus = counter' - c + Modulus
    BY <1>1, <1>4, <1>6, <2>1
  <2>3. QED
    BY <1>1, <1>2, <1>3, <1>4, <1>6, <2>2
<1>7. QED
  BY <1>1, <1>2, <1>5, <1>6

LEMMA DelayBounds ==
  ASSUME NEW c \in Nat
  PROVE  /\ Delay(c) \in 60..148 /\ 32 * BlinkCount(c) \in 32..160
         /\ Delay(c) + 32 * BlinkCount(c) <= 248
         /\ Delay(c) + 32 * BlinkCount(c) <= 100 + Delay(c + 1)
         /\ Delay(c) + 32 * BlinkCount(c) <= 100 + Delay(0)
<1>1. /\ c % 5 \in 0..4 /\ 0 % 5 = 0
      /\ (c + 1) % 5 = IF c % 5 = 4 THEN 0 ELSE (c % 5) + 1
  OBVIOUS
<1>2. QED
  BY <1>1 DEF Delay, BlinkCount

(* A counter that is displayed in time lets the next one begin in time.    *)
LEMMA NextInTime ==
  ASSUME counter \in Counter, NEW m \in Counter, NEW c \in Counter,
         Lag(c) < Lag(m), NEW t \in Nat,
         100 * Lag(m) <= t + Delay(m) + 32 * BlinkCount(m)
  PROVE  100 * Lag(c) <= t + Delay(c)
<1>1. /\ Modulus \in Nat \ {0} /\ counter \in 0..(Modulus - 1)
      /\ c \in 0..(Modulus - 1) /\ m \in 0..(Modulus - 1)
  BY SharedCounterAssumption DEF Counter
<1>2. /\ Lag(c) = IF c <= counter THEN counter - c ELSE counter - c + Modulus
      /\ Lag(m) = IF m <= counter THEN counter - m ELSE counter - m + Modulus
  BY LagIs
<1>3. Delay(c) \in 60..148 /\ Delay(m) + 32 * BlinkCount(m) <= 248
      /\ Delay(m) \in Nat /\ 32 * BlinkCount(m) \in Nat
  BY <1>1, DelayBounds
<1>4. CASE Lag(c) + 2 <= Lag(m)
  BY <1>1, <1>2, <1>3, <1>4
<1>5. CASE Lag(c) + 1 = Lag(m)
  <2>1. c = m + 1 \/ c = 0
    BY <1>1, <1>2, <1>5
  <2>2. Delay(m) + 32 * BlinkCount(m) <= 100 + Delay(c)
    <3>1. /\ Delay(m) + 32 * BlinkCount(m) <= 100 + Delay(m + 1)
          /\ Delay(m) + 32 * BlinkCount(m) <= 100 + Delay(0)
      BY <1>1, DelayBounds
    <3>2. QED
      BY <2>1, <3>1
  <2>3. QED
    BY <1>1, <1>2, <1>3, <1>5, <2>2
<1>6. QED
  BY <1>1, <1>2, <1>4, <1>5
-----------------------------------------------------------------------------
(* The counters between the host and the display, oldest first, and those  *)
(* among them that did not have to wait for M4's boot.                     *)
Waiting == IF on THEN rx_msgq \o box ELSE <<>>
HeldFirst == held = 1 /\ ~Displaying
Fresh == IF HeldFirst THEN Tail(Waiting) ELSE Waiting

Booted ==
  /\ held \in {0, 1}
  /\ on <=> cmain \in {"enabled", "ready"}
  /\ ~on => rx_msgq = <<>> /\ held = 0
  /\ HeldFirst => Waiting # <<>>

OldestFirst == \A a, b \in DOMAIN Fresh : a < b => Lag(Fresh[b]) < Lag(Fresh[a])

(* The counter that the host is about to send is younger than all others.  *)
Unsent ==
  hpc = "send" =>
    /\ \A c \in Range(Fresh) : Lag(c) > 0
    /\ held = 0 /\ Displaying => Lag(msg) > 0

(* A counter begins in time.  One that is behind the counter held back at  *)
(* the boot is less old, for this display takes at most 160 units.         *)
InTime(c) ==
  IF held = 1
    THEN 100 * Lag(c) + (IF Displaying THEN Remaining ELSE 160) <= Left + 60
    ELSE IF Displaying THEN Lag(c) < Lag(msg)
                       ELSE 100 * Lag(c) <= Left + Delay(c)

EndsInTime ==
  held = 0 /\ Displaying =>
    100 * Lag(msg) + Remaining <= Left + Delay(msg) + 32 * BlinkCount(msg)

Pace ==
  /\ Booted /\ OldestFirst /\ Unsent
  /\ \A c \in Range(Fresh) : InTime(c)
  /\ EndsInTime

(* The numbers that are compared, and their ranges.                        *)
LEMMA WaitingIsSeq ==
  ASSUME TypeOK
  PROVE  Waiting \in Seq(Counter)
<1>1. box \in Seq(Counter) /\ rx_msgq \in Seq(Counter)
  BY DEF TypeOK
<1>2. rx_msgq \o box \in Seq(Counter) /\ <<>> \in Seq(Counter)
  BY <1>1, ConcatProperties, EmptySeq
<1>3. QED
  BY <1>2 DEF Waiting

LEMMA FreshIsSeq ==
  ASSUME TypeOK, Booted
  PROVE  /\ Fresh \in Seq(Counter) /\ Len(Fresh) \in Nat
         /\ DOMAIN Fresh = 1..Len(Fresh)
         /\ \A c \in Range(Fresh) : c \in Counter
<1>1. Waiting \in Seq(Counter)
  BY WaitingIsSeq
<1>2. HeldFirst => Tail(Waiting) \in Seq(Counter)
  BY <1>1, HeadTailProperties DEF Booted
<1>3. Fresh \in Seq(Counter)
  BY <1>1, <1>2 DEF Fresh
<1>4. Len(Fresh) \in Nat /\ DOMAIN Fresh = 1..Len(Fresh)
  BY <1>3, LenProperties
<1>5. \A c \in Range(Fresh) : c \in Counter
  BY <1>3, <1>4, ElementOfSeq DEF Range
<1>6. QED
  BY <1>3, <1>4, <1>5

LEMMA PaceNumbers ==
  ASSUME TypeOK, FlashesCounted, Timely
  PROVE  /\ Left \in 0..101 /\ Remaining \in Int /\ counter \in Counter
         /\ Displaying => Remaining \in 0..160
         /\ msg \in Counter /\ msg \in Nat
         /\ Lag(msg) \in Nat /\ \A c \in Counter : Lag(c) \in Nat
         /\ Delay(msg) \in 60..148 /\ 32 * BlinkCount(msg) \in 32..160
         /\ \A c \in Counter : Delay(c) \in 60..148
<1>1. /\ counter \in Counter /\ msg \in Counter /\ i \in Nat
      /\ taskLeft \in 0..16 /\ hostLeft \in 0..101 /\ Modulus \in Nat \ {0}
  BY SharedCounterAssumption DEF TypeOK, Timely, TICK_PERIOD, BLINK_ON
<1>2. \A c \in Counter : c \in Nat /\ Lag(c) \in Nat
  BY <1>1, LagIs DEF Counter
<1>3. \A c \in Counter :
        Delay(c) \in 60..148 /\ 32 * BlinkCount(c) \in 32..160
  BY <1>2, DelayBounds
<1>4. Left \in 0..101
  BY <1>1 DEF Left, TICK_PERIOD
<1>5. BlinkCount(msg) \in 1..5
  BY <1>1, <1>2, BlinkCounts
<1>6. Remaining \in Int
  BY <1>1, <1>5 DEF Remaining, ToGo
<1>7. Displaying => Remaining \in 0..160
  BY <1>1, <1>5 DEF Displaying, FlashesCounted, Remaining, ToGo
<1>8. QED
  BY <1>1, <1>2, <1>3, <1>4, <1>6, <1>7

(* Nothing on the way is more than three counts old.                       *)
LEMMA LagsAreSmall ==
  ASSUME TypeOK, FlashesCounted, Timely, Pace
  PROVE  /\ held = 0 /\ Displaying => Lag(msg) <= 3
         /\ \A c \in Range(Fresh) : Lag(c) <= 2
         /\ held = 1 => \A c \in Range(Fresh) : Lag(c) <= 1
         /\ HeldFirst => \A c \in Range(Fresh) : Lag(c) <= 0
<1>1. held = 0 /\ Displaying => Lag(msg) <= 3
  <2>1. Delay(msg) + 32 * BlinkCount(msg) <= 248
    BY PaceNumbers, DelayBounds
  <2>2. /\ Left \in 0..101 /\ Lag(msg) \in Nat /\ Delay(msg) \in 60..148
        /\ 32 * BlinkCount(msg) \in 32..160
        /\ Displaying => Remaining \in 0..160
    BY PaceNumbers
  <2>3. held = 0 /\ Displaying =>
          100 * Lag(msg) + Remaining
            <= Left + Delay(msg) + 32 * BlinkCount(msg)
    BY DEF Pace, EndsInTime
  <2> DEFINE l == Lag(msg)
             e == Delay(msg) + 32 * BlinkCount(msg)
  <2>4. /\ l \in Nat /\ e \in Int /\ Left \in Int /\ Left <= 101 /\ e <= 248
        /\ Displaying => Remaining \in Nat
    BY <2>1, <2>2
  <2>5. held = 0 /\ Displaying => 100 * l + Remaining <= Left + e
    BY <2>2, <2>3
  <2> HIDE DEF l, e
  <2>6. held = 0 /\ Displaying => l <= 3
    BY <2>4, <2>5
  <2>7. QED
    BY <2>6 DEF l
<1>2. ASSUME NEW c \in Range(Fresh)
      PROVE  /\ c \in Counter /\ Lag(c) <= 2
             /\ held = 1 => Lag(c) <= 1
             /\ HeldFirst => Lag(c) <= 0
  <2>1. c \in Counter /\ InTime(c) /\ held \in {0, 1}
    BY <1>2, FreshIsSeq DEF Pace, Booted
  <2>2. /\ Lag(c) \in Nat /\ Delay(c) \in 60..148 /\ Left \in 0..101
        /\ Lag(msg) \in Nat
        /\ Displaying => Remaining \in 0..160
    BY <2>1, PaceNumbers
  <2>3. CASE held = 1
    BY <2>1, <2>2, <2>3 DEF InTime, HeldFirst
  <2>4. CASE held = 0
    BY <1>1, <2>1, <2>2, <2>4 DEF InTime, HeldFirst
  <2>5. QED
    BY <2>1, <2>3, <2>4
<1>3. QED
  BY <1>1, <1>2

(* So few are on the way: each is at least one count older than the next.  *)
LEMMA FewAreFresh ==
  ASSUME TypeOK, FlashesCounted, Timely, Pace,
         NEW k \in Nat, \A c \in Range(Fresh) : Lag(c) <= k, k <= 2
  PROVE  Len(Fresh) <= k + 1
<1> SUFFICES ASSUME Len(Fresh) > k + 1 PROVE FALSE
  BY FreshIsSeq DEF Pace
<1>1. /\ Fresh \in Seq(Counter) /\ Len(Fresh) \in Nat
      /\ DOMAIN Fresh = 1..Len(Fresh)
      /\ \A a \in 1..Len(Fresh) : Fresh[a] \in Range(Fresh)
  BY FreshIsSeq DEF Pace, Range
<1>2. \A a \in 1..Len(Fresh) : Lag(Fresh[a]) \in Nat /\ Lag(Fresh[a]) <= k
  BY <1>1, FreshIsSeq, PaceNumbers DEF Pace
<1>3. \A a, b \in 1..Len(Fresh) : a < b => Lag(Fresh[b]) < Lag(Fresh[a])
  BY <1>1 DEF Pace, OldestFirst
<1>4. CASE k = 0
  BY <1>1, <1>2, <1>3, <1>4
<1>5. CASE k = 1
  BY <1>1, <1>2, <1>3, <1>5
<1>6. CASE k = 2
  BY <1>1, <1>2, <1>3, <1>6
<1>7. QED
  BY <1>4, <1>5, <1>6

(* The property says no more than that.                                    *)
LEMMA PaceKeepsUp ==
  ASSUME TypeOK, FlashesCounted, Timely, Pace
  PROVE  DisplayKeepsUp
<1>1. Displaying /\ held = 0 => (counter - msg) % Modulus <= 3
  BY LagsAreSmall DEF Lag
<1>2. ASSUME on, box # <<>>, RxMsgQ!Full
      PROVE  FALSE
  <2>1. /\ Waiting = rx_msgq \o box /\ Waiting \in Seq(Counter)
        /\ Len(Waiting) = Len(rx_msgq) + Len(box)
        /\ Len(rx_msgq) \in Nat /\ Len(box) \in Nat \ {0}
    BY <1>2, WaitingIsSeq, ConcatProperties, LenProperties, EmptySeq
       DEF Waiting, TypeOK
  <2>2. Len(Waiting) >= 4
    BY <1>2, <2>1, SharedCounterAssumption DEF Timely, RxMsgQ!Full
  <2>3. CASE HeldFirst
    <3>1. Len(Fresh) <= 1
      BY <2>3, LagsAreSmall, FewAreFresh
    <3>2. Len(Fresh) = Len(Waiting) - 1
      BY <2>1, <2>3, HeadTailProperties DEF Fresh, Pace, Booted
    <3>3. QED
      BY <2>1, <2>2, <3>1, <3>2
  <2>4. CASE ~HeldFirst
    <3>1. Len(Fresh) <= 3
      BY LagsAreSmall, FewAreFresh
    <3>2. Fresh = Waiting
      BY <2>4 DEF Fresh
    <3>3. QED
      BY <2>1, <2>2, <3>1, <3>2
  <2>5. QED
    BY <2>3, <2>4
<1>3. QED
  BY <1>1, <1>2 DEF DisplayKeepsUp

(* Whatever leaves the counters where they are, and neither takes the      *)
(* host's time nor adds to the display's, keeps the pace.                  *)
LEMMA PaceStays ==
  ASSUME TypeOK, FlashesCounted, Timely, Pace, TypeOK', FlashesCounted',
         Booted', Fresh' = Fresh, UNCHANGED <<counter, held, msg>>,
         Displaying' = Displaying, Left <= Left', Remaining' <= Remaining,
         hpc' = "send" => hpc = "send"
  PROVE  Pace'
<1>a. /\ Left \in Int /\ Left' \in Int /\ Remaining \in Int
      /\ Remaining' \in Int
      /\ \A c \in Counter : Lag(c) \in Nat /\ Delay(c) \in Nat
      /\ msg \in Counter /\ 32 * BlinkCount(msg) \in Nat
  <2>1. /\ Left \in Int /\ Remaining \in Int /\ msg \in Counter
        /\ \A c \in Counter : Lag(c) \in Nat /\ Delay(c) \in Nat
        /\ 32 * BlinkCount(msg) \in Nat
    BY PaceNumbers
  <2>2. Left' \in Int
    BY SharedCounterAssumption DEF Left, TICK_PERIOD, TypeOK
  <2>3. Remaining' \in Int
    <3>1. BlinkCount(msg') \in 1..5 /\ i' \in Nat /\ taskLeft' \in Nat
      BY BlinkCounts, SharedCounterAssumption DEF TypeOK, Counter
    <3>2. 32 * (BlinkCount(msg') - i') \in Int
      BY <3>1
    <3>3. ToGo' \in Int
      BY <3>2 DEF ToGo
    <3>4. QED
      BY <3>1, <3>3 DEF Remaining
  <2>4. QED
    BY <2>1, <2>2, <2>3
<1>b. /\ \A c : Lag(c)' = Lag(c)
      /\ \A c : Delay(c)' = Delay(c)
  BY DEF Lag, Delay
<1>c. \A c \in Range(Fresh) : c \in Counter
  BY FreshIsSeq DEF Pace
<1>1. OldestFirst'
  BY <1>b DEF Pace, OldestFirst
<1>2. Unsent'
  BY <1>b DEF Pace, Unsent
<1>3. ASSUME NEW c \in Range(Fresh)
      PROVE  InTime(c)'
  <2>1. InTime(c) /\ c \in Counter
    BY <1>c DEF Pace
  <2>2. Lag(c) \in Nat /\ Delay(c) \in Nat
    BY <1>a, <2>1
  <2>3. Lag(c)' = Lag(c) /\ Lag(msg)' = Lag(msg) /\ Delay(c)' = Delay(c)
    BY <1>b DEF Lag
  <2>4. CASE held = 1
    BY <1>a, <2>1, <2>2, <2>3, <2>4 DEF InTime
  <2>5. CASE held # 1
    BY <1>a, <2>1, <2>2, <2>3, <2>5 DEF InTime
  <2>6. QED
    BY <2>4, <2>5
<1>4. EndsInTime'
  <2>1. Lag(msg)' = Lag(msg) /\ Delay(msg)' = Delay(msg)
        /\ BlinkCount(msg') = BlinkCount(msg)
    BY DEF Lag, Delay
  <2>2. Lag(msg) \in Nat /\ Delay(msg) \in Nat
    BY <1>a
  <2>3. QED
    BY <1>a, <2>1, <2>2 DEF Pace, EndsInTime
<1>5. QED
  BY <1>1, <1>2, <1>3, <1>4 DEF Pace
-----------------------------------------------------------------------------
(* The pace, action by action.                                             *)
LEMMA CountKeepsPace ==
  ASSUME TypeOK, FlashesCounted, Timely, Pace, Count
  PROVE  Pace'
<1>1. /\ hpc = "sleep" /\ hostLeft = 0 /\ hpc' = "send"
      /\ counter' = (counter + 1) % Modulus
      /\ UNCHANGED <<hostLeft, box, on, cmain, rx_msgq, held, tpc, taskLeft,
                     msg, i>>
  BY DEF Count, boxVars, queueVars, taskVars
<1>2. /\ Waiting' = Waiting /\ Displaying' = Displaying
      /\ HeldFirst' = HeldFirst /\ Remaining' = Remaining
  BY <1>1 DEF Waiting, Displaying, HeldFirst, Remaining, ToGo
<1>3. Fresh' = Fresh /\ Left = 0 /\ Left' = 100
  BY <1>1, <1>2 DEF Fresh, Left, TICK_PERIOD
<1>4. /\ counter \in Counter /\ msg \in Counter /\ Remaining \in Int
      /\ \A c \in Counter : Lag(c) \in Nat /\ Delay(c) \in Nat
      /\ \A c \in Range(Fresh) : c \in Counter
      /\ 32 * BlinkCount(msg) \in Nat /\ Modulus \in Nat /\ Modulus >= 5
  <2>1. \A c \in Range(Fresh) : c \in Counter
    BY FreshIsSeq DEF Pace
  <2>2. Modulus \in Nat /\ Modulus >= 5
    BY SharedCounterAssumption DEF Timely
  <2>3. QED
    BY <2>1, <2>2, PaceNumbers
<1>5. \A c \in Counter : Lag(c) <= 3 => Lag(c)' = Lag(c) + 1
  <2> SUFFICES ASSUME NEW c \in Counter, Lag(c) <= 3
               PROVE  Lag(c)' = Lag(c) + 1
    OBVIOUS
  <2>1. Lag(c) < Modulus - 1
    BY <1>4
  <2>2. QED
    BY <1>1, <1>4, <2>1, LagGrows
<1>6. \A c \in Range(Fresh) : Lag(c) \in Nat /\ Lag(c)' = Lag(c) + 1
  <2> SUFFICES ASSUME NEW c \in Range(Fresh)
               PROVE  Lag(c) \in Nat /\ Lag(c)' = Lag(c) + 1
    OBVIOUS
  <2>1. c \in Counter /\ Lag(c) <= 2 /\ Lag(c) \in Nat
    BY <1>4, LagsAreSmall
  <2>2. QED
    BY <1>5, <2>1
<1>7. /\ Lag(msg) \in Nat
      /\ held = 0 /\ Displaying => Lag(msg)' = Lag(msg) + 1
  <2>1. Lag(msg) \in Nat
    BY <1>4
  <2>2. ASSUME held = 0, Displaying PROVE Lag(msg)' = Lag(msg) + 1
    <3>1. Lag(msg) <= 3
      BY <2>2, LagsAreSmall
    <3>2. \A c \in Counter : c = msg => Lag(c)' = Lag(c) + 1
      BY <1>5, <3>1
    <3>3. Lag(msg)' = (counter' - msg) % Modulus
      BY <1>1 DEF Lag
    <3>4. QED
      BY <1>4, <3>2, <3>3 DEF Lag
  <2>3. QED
    BY <2>1, <2>2
<1>8. Booted'
  BY <1>1, <1>2 DEF Pace, Booted
<1>9. OldestFirst'
  <2>1. \A a \in DOMAIN Fresh : Fresh[a] \in Range(Fresh)
    BY DEF Range
  <2>2. \A a \in DOMAIN Fresh : /\ Lag(Fresh[a]) \in Nat
                                /\ (counter' - Fresh[a]) % Modulus
                                     = Lag(Fresh[a]) + 1
    BY <1>6, <2>1 DEF Lag
  <2>3. QED
    BY <1>3, <2>2 DEF Pace, OldestFirst, Lag
<1>10. Unsent'
  BY <1>1, <1>2, <1>3, <1>6, <1>7 DEF Unsent
<1>11. ASSUME NEW c \in Range(Fresh) PROVE InTime(c)'
  <2>1. /\ InTime(c) /\ Lag(c) \in Nat /\ Lag(c)' = Lag(c) + 1
        /\ Delay(c) \in Nat /\ Delay(c)' = Delay(c)
    BY <1>4, <1>6 DEF Pace, Delay
  <2>2. CASE held = 1
    BY <1>1, <1>2, <1>3, <1>4, <2>1, <2>2 DEF InTime
  <2>3. CASE held # 1 /\ Displaying
    <3>1. held = 0
      BY <2>3 DEF Pace, Booted
    <3>2. QED
      BY <1>1, <1>2, <1>3, <1>4, <1>7, <2>1, <2>3, <3>1 DEF InTime
  <2>4. CASE held # 1 /\ ~Displaying
    BY <1>1, <1>2, <1>3, <1>4, <2>1, <2>4 DEF InTime
  <2>5. QED
    BY <2>2, <2>3, <2>4
<1>12. EndsInTime'
  <2>1. Delay(msg)' = Delay(msg) /\ BlinkCount(msg') = BlinkCount(msg)
        /\ Delay(msg) \in Nat
    BY <1>1, <1>4 DEF Delay
  <2>2. QED
    BY <1>1, <1>2, <1>3, <1>4, <1>7, <2>1 DEF Pace, EndsInTime
<1>13. QED
  BY <1>3, <1>8, <1>9, <1>10, <1>11, <1>12 DEF Pace

(* What the host sends is the youngest counter of all, and 0 counts old.   *)
LEMMA SendKeepsPace ==
  ASSUME TypeOK, FlashesCounted, Timely, Pace, TypeOK', FlashesCounted',
         SendCounter
  PROVE  Pace'
<1>1. /\ hpc = "send" /\ hpc' = "sleep" /\ hostLeft' \in 100..101
      /\ UNCHANGED <<counter, on, cmain, rx_msgq, held, tpc, taskLeft, msg, i>>
  BY SharedCounterAssumption
     DEF SendCounter, Channel!Post, boxVars, queueVars, taskVars, Sleep,
         TICK_PERIOD, Timely
<1>2. /\ Displaying' = Displaying /\ HeldFirst' = HeldFirst
      /\ Remaining' = Remaining /\ Left = 100 /\ Left' \in 100..101
  BY <1>1 DEF Displaying, HeldFirst, Remaining, ToGo, Left, TICK_PERIOD
<1>3. Remaining \in Int
  BY PaceNumbers
<1>4. CASE Waiting' = Waiting
  <2>1. Booted' /\ Fresh' = Fresh
    BY <1>1, <1>2, <1>4 DEF Pace, Booted, Fresh
  <2>2. Left <= Left' /\ Remaining' <= Remaining
    BY <1>2, <1>3
  <2>3. QED
    BY <1>1, <1>2, <2>1, <2>2, PaceStays
<1>5. CASE on /\ box' = Append(box, counter)
  <2>a. /\ box \in Seq(Counter) /\ rx_msgq \in Seq(Counter)
        /\ counter \in Counter /\ Waiting \in Seq(Counter)
    BY WaitingIsSeq DEF TypeOK
  <2>1. Waiting' = Append(Waiting, counter)
    BY <1>1, <1>5, <2>a, PutBehind DEF Waiting
  <2>2. Fresh' = Append(Fresh, counter)
    BY <1>2, <2>1, <2>a, HeadTailAppend DEF Fresh, Pace, Booted
  <2>3. Booted'
    <3>1. Waiting' # <<>>
      BY <2>1, <2>a, AppendProperties
    <3>2. QED
      BY <1>1, <1>2, <1>5, <3>1 DEF Pace, Booted
  <2>4. /\ Fresh \in Seq(Counter) /\ Len(Fresh) \in Nat
        /\ Range(Fresh') = Range(Fresh) \cup {counter}
        /\ Len(Fresh') = Len(Fresh) + 1 /\ DOMAIN Fresh' = 1..Len(Fresh')
        /\ DOMAIN Fresh = 1..Len(Fresh)
        /\ \A a \in 1..Len(Fresh) : Fresh'[a] = Fresh[a]
        /\ Fresh'[Len(Fresh) + 1] = counter
    BY <2>2, <2>a, FreshIsSeq, RangeAppend, AppendProperties, LenProperties
       DEF Pace
  <2>5. Lag(counter) = 0 /\ \A c : Lag(c)' = Lag(c)
    BY <1>1, <2>a, LagIs DEF Lag, Counter
  <2>6. \A c \in Range(Fresh) : Lag(c) > 0
    BY <1>1 DEF Pace, Unsent
  <2>7. OldestFirst'
    <3> SUFFICES ASSUME NEW a \in DOMAIN Fresh', NEW b \in DOMAIN Fresh',
                        a < b
                 PROVE  Lag(Fresh'[b]) < Lag(Fresh'[a])
      BY <2>5 DEF OldestFirst, Lag
    <3>1. a \in 1..Len(Fresh) /\ Fresh'[a] = Fresh[a]
      BY <2>4
    <3>2. CASE b \in 1..Len(Fresh)
      BY <2>4, <3>1, <3>2 DEF Pace, OldestFirst
    <3>3. CASE b = Len(Fresh) + 1
      <4>1. Fresh[a] \in Range(Fresh) /\ Fresh'[b] = counter
        BY <2>4, <3>1, <3>3 DEF Range
      <4>2. QED
        BY <2>5, <2>6, <3>1, <4>1
    <3>4. QED
      BY <2>4, <3>2, <3>3
  <2>8. Unsent'
    BY <1>1 DEF Unsent
  <2>9. ASSUME NEW c \in Range(Fresh) PROVE InTime(c)'
    <3>1. /\ InTime(c) /\ c \in Counter /\ Lag(c)' = Lag(c)
          /\ Lag(msg)' = Lag(msg) /\ Delay(c)' = Delay(c)
      BY <1>1, <2>5, FreshIsSeq DEF Pace, Lag, Delay
    <3>2. Lag(c) \in Nat /\ Delay(c) \in Nat
      BY <3>1, PaceNumbers
    <3>3. CASE held = 1
      BY <1>1, <1>2, <1>3, <3>1, <3>2, <3>3 DEF InTime
    <3>4. CASE held # 1
      BY <1>1, <1>2, <1>3, <3>1, <3>2, <3>4 DEF InTime
    <3>5. QED
      BY <3>3, <3>4
  <2>10. ASSUME NEW c, c = counter PROVE InTime(c)'
    <3>1. /\ Lag(c)' = 0 /\ Lag(msg)' = Lag(msg) /\ Delay(c)' \in Nat
      BY <1>1, <2>5, <2>a, <2>10, PaceNumbers DEF Lag, Delay
    <3>2. Displaying => Remaining \in 0..160
      BY PaceNumbers
    <3>3. held # 1 /\ Displaying => Lag(msg) > 0
      BY <1>1 DEF Pace, Unsent, Booted
    <3>4. CASE held = 1
      BY <1>1, <1>2, <3>1, <3>2, <3>4 DEF InTime
    <3>5. CASE held # 1
      BY <1>1, <1>2, <3>1, <3>3, <3>5 DEF InTime
    <3>6. QED
      BY <3>4, <3>5
  <2>11. EndsInTime'
    <3>1. /\ Lag(msg)' = Lag(msg) /\ Delay(msg)' = Delay(msg)
          /\ BlinkCount(msg') = BlinkCount(msg)
          /\ Lag(msg) \in Nat /\ Delay(msg) \in Nat
          /\ 32 * BlinkCount(msg) \in Nat
      BY <1>1, PaceNumbers DEF Lag, Delay
    <3>2. QED
      BY <1>1, <1>2, <1>3, <3>1 DEF Pace, EndsInTime
  <2>12. \A c \in Range(Fresh') : InTime(c)'
    BY <2>4, <2>9, <2>10
  <2>13. QED
    BY <2>3, <2>7, <2>8, <2>11, <2>12 DEF Pace
<1>6. QED
  <2>1. box' = Append(box, counter) \/ box' = box
    BY DEF SendCounter, Channel!Post, boxVars
  <2>2. QED
    BY <1>1, <1>4, <1>5, <2>1 DEF Waiting

(* When M4 has booted, the mailbox holds at most the one counter that had  *)
(* to wait for it.                                                         *)
LEMMA BootKeepsPace ==
  ASSUME TypeOK, FlashesCounted, Timely, Pace, ClientMain
  PROVE  Pace'
<1>1. /\ cmain = "boot" /\ cmain' = "enabled" /\ on' = TRUE
      /\ held' = Len(box) /\ UNCHANGED <<box, rx_msgq, tpc>>
  BY DEF ClientMain, Channel!Enable, taskVars
<1>2. tpc = "off" /\ rx_msgq = <<>>
  BY <1>1 DEF TypeOK, Pace, Booted
<1>3. /\ box \in Seq(Counter) /\ Len(box) \in {0, 1}
      /\ Len(box) = 0 => box = <<>>
  <2>1. box \in Seq(Counter) /\ Len(box) \in Nat /\ Len(box) <= 1
    BY LenProperties DEF TypeOK, Timely
  <2>2. Len(box) = 0 => box = <<>>
    BY <2>1, EmptySeq
  <2>3. \A n \in Nat : n <= 1 => n \in {0, 1}
    OBVIOUS
  <2>4. Len(box) \in {0, 1}
    BY <2>1, <2>3
  <2>5. QED
    BY <2>1, <2>2, <2>4
<1>4. ~Displaying' /\ Waiting' = box
  <2>1. <<>> \o box = box
    BY <1>3, ConcatEmptySeq
  <2>2. QED
    BY <1>1, <1>2, <2>1 DEF Waiting, Displaying
<1>5. Fresh' = <<>>
  <2>1. CASE Len(box) = 0
    BY <1>1, <1>3, <1>4, <2>1 DEF Fresh, HeldFirst
  <2>2. CASE Len(box) = 1
    <3>1. box # <<>>
      BY <2>2, EmptySeq
    <3>2. Tail(box) \in Seq(Counter) /\ Len(Tail(box)) = 0
      BY <1>3, <2>2, <3>1, HeadTailProperties
    <3>3. Tail(box) = <<>>
      BY <3>2, EmptySeq
    <3>4. QED
      BY <1>1, <1>4, <2>2, <3>3 DEF Fresh, HeldFirst
  <2>3. QED
    BY <1>3, <2>1, <2>2
<1>6. Range(Fresh') = {} /\ DOMAIN Fresh' = {}
  BY <1>5 DEF Range
<1>7. Booted'
  <2>1. Len(box) = 1 => box # <<>>
    BY EmptySeq
  <2>2. QED
    BY <1>1, <1>3, <1>4, <2>1 DEF Booted, HeldFirst
<1>8. QED
  BY <1>4, <1>6, <1>7 DEF Pace, OldestFirst, Unsent, EndsInTime

LEMMA CallbackKeepsPace ==
  ASSUME TypeOK, FlashesCounted, Timely, Pace, TypeOK', FlashesCounted',
         MboxRxCallback
  PROVE  Pace'
<1>1. /\ on /\ box # <<>> /\ box' = Tail(box) /\ on' = on
      /\ \/ rx_msgq' = Append(rx_msgq, Head(box))
         \/ RxMsgQ!Full
      /\ UNCHANGED <<hostVars, cmain, held, taskVars>>
  BY DEF MboxRxCallback, Channel!Interrupt, RxMsgQ!Put, RxMsgQ!PutFails
<1>2. rx_msgq' = Append(rx_msgq, Head(box))
  BY <1>1, PaceKeepsUp DEF DisplayKeepsUp
<1>3. Waiting' = Waiting
  <2>1. box \in Seq(Counter) /\ rx_msgq \in Seq(Counter)
    BY DEF TypeOK
  <2>2. QED
    BY <1>1, <1>2, <2>1, HandOver DEF Waiting
<1>4. /\ UNCHANGED <<hpc, hostLeft, counter, cmain, held, tpc, taskLeft, msg,
                     i>>
      /\ Displaying' = Displaying /\ HeldFirst' = HeldFirst
      /\ Remaining' = Remaining /\ Left' = Left
  BY <1>1 DEF hostVars, taskVars, Displaying, HeldFirst, Remaining, ToGo, Left
<1>5. Booted' /\ Fresh' = Fresh
  BY <1>1, <1>3, <1>4 DEF Pace, Booted, Fresh
<1>6. Left <= Left' /\ Remaining' <= Remaining
  BY <1>4, PaceNumbers
<1>7. QED
  BY <1>4, <1>5, <1>6, PaceStays

(* The display takes the oldest of the counters that wait.                 *)
LEMMA GetKeepsPace ==
  ASSUME TypeOK, FlashesCounted, Timely, Pace, GetCounter
  PROVE  Pace'
<1>1. /\ tpc = "get" /\ tpc' = "loop" /\ i' = 0
      /\ rx_msgq # <<>> /\ rx_msgq' = Tail(rx_msgq) /\ msg' = Head(rx_msgq)
      /\ UNCHANGED <<hpc, hostLeft, counter, box, on, cmain, held>>
  BY DEF GetCounter, RxMsgQ!Get, hostVars, boxVars
<1>2. on
  BY <1>1 DEF Pace, Booted
<1>3. box \in Seq(Counter) /\ rx_msgq \in Seq(Counter)
  BY DEF TypeOK
<1>4. /\ Waiting # <<>> /\ msg' = Head(Waiting) /\ Waiting' = Tail(Waiting)
      /\ Waiting \in Seq(Counter)
  BY <1>1, <1>2, <1>3, GetInFront, WaitingIsSeq DEF Waiting
<1>5. msg' \in Counter /\ Tail(Waiting) \in Seq(Counter)
  BY <1>4, HeadTailProperties
<1>6. ~Displaying /\ Displaying' /\ Left' = Left /\ Fresh' = Tail(Waiting)
  BY <1>1, <1>4 DEF Displaying, Left, Fresh, HeldFirst
<1>7. Remaining' = 32 * BlinkCount(msg') /\ Remaining' \in 32..160
  <2>1. msg' \in Nat
    BY <1>5, SharedCounterAssumption DEF Counter
  <2>2. BlinkCount(msg') \in 1..5
    BY <2>1, BlinkCounts
  <2>3. Remaining' = 32 * (BlinkCount(msg') - 0)
    BY <1>1 DEF Remaining, ToGo, BlinkCount
  <2>4. QED
    BY <2>2, <2>3
<1>8. \A c : Lag(c)' = Lag(c) /\ Delay(c)' = Delay(c)
  BY <1>1 DEF Lag, Delay
<1>9. Booted'
  BY <1>1, <1>2, <1>6 DEF Pace, Booted, HeldFirst
<1>10. Left \in Int /\ \A c \in Counter : Lag(c) \in Nat /\ Delay(c) \in Nat
  BY PaceNumbers
<1>11. CASE held = 1
  <2>1. Fresh = Tail(Waiting) /\ HeldFirst
    BY <1>6, <1>11 DEF Fresh, HeldFirst
  <2>2. Fresh' = Fresh
    BY <1>6, <2>1
  <2>3. OldestFirst'
    BY <1>8, <2>2 DEF Pace, OldestFirst
  <2>4. Unsent' /\ EndsInTime'
    BY <1>1, <1>8, <1>11, <2>2 DEF Pace, Unsent, EndsInTime
  <2>5. ASSUME NEW c \in Range(Fresh) PROVE InTime(c)'
    <3>1. c \in Counter /\ InTime(c)
      BY FreshIsSeq DEF Pace
    <3>2. 100 * Lag(c) + 160 <= Left + 60
      BY <1>6, <1>11, <3>1 DEF InTime
    <3>3. 100 * Lag(c)' + Remaining' <= Left' + 60
      <4>1. Lag(c)' = Lag(c) /\ Left' = Left /\ Lag(c) \in Nat
            /\ Left \in Int /\ Remaining' \in 32..160
        BY <1>6, <1>7, <1>8, <1>10, <3>1
      <4>2. QED
        BY <3>2, <4>1
    <3>4. held' = 1 /\ Displaying'
      BY <1>1, <1>6, <1>11
    <3>5. QED
      BY <3>3, <3>4 DEF InTime
  <2>6. QED
    BY <1>9, <2>2, <2>3, <2>4, <2>5 DEF Pace
<1>12. CASE held # 1
  <2>1. Fresh = Waiting /\ Fresh' = Tail(Fresh) /\ msg' = Head(Fresh)
    BY <1>4, <1>6, <1>12 DEF Fresh, HeldFirst
  <2>2. /\ Fresh \in Seq(Counter) /\ Fresh # <<>> /\ Len(Fresh) \in Nat \ {0}
        /\ Len(Fresh') = Len(Fresh) - 1 /\ Head(Fresh) = Fresh[1]
        /\ DOMAIN Fresh = 1..Len(Fresh) /\ DOMAIN Fresh' = 1..Len(Fresh')
        /\ \A a \in 1..Len(Fresh') : Fresh'[a] = Fresh[a + 1]
    BY <1>4, <1>5, <2>1, HeadTailProperties, LenProperties, EmptySeq
  <2>3. OldestFirst'
    <3> SUFFICES ASSUME NEW a \in DOMAIN Fresh', NEW b \in DOMAIN Fresh',
                        a < b
                 PROVE  Lag(Fresh'[b]) < Lag(Fresh'[a])
      BY <1>8 DEF OldestFirst, Lag
    <3>1. /\ Fresh'[a] = Fresh[a + 1] /\ Fresh'[b] = Fresh[b + 1]
          /\ a + 1 \in DOMAIN Fresh /\ b + 1 \in DOMAIN Fresh /\ a + 1 < b + 1
      BY <2>2
    <3>2. QED
      BY <3>1 DEF Pace, OldestFirst
  <2>4. msg' \in Range(Fresh) /\ InTime(msg')
    BY <2>1, <2>2 DEF Range, Pace
  <2>5. ASSUME NEW c \in Range(Fresh')
        PROVE  c \in Range(Fresh) /\ Lag(c) < Lag(msg')
    <3>1. PICK a \in 1..Len(Fresh') : c = Fresh'[a]
      BY <2>2 DEF Range
    <3>2. c = Fresh[a + 1] /\ a + 1 \in DOMAIN Fresh /\ 1 \in DOMAIN Fresh
          /\ 1 < a + 1
      BY <2>2, <3>1
    <3>3. QED
      BY <2>1, <2>2, <3>2 DEF Range, Pace, OldestFirst
  <2>6. Unsent'
    BY <1>1, <1>8, <2>4, <2>5 DEF Pace, Unsent, Lag
  <2>7. \A c \in Range(Fresh') : InTime(c)'
    BY <1>1, <1>6, <1>8, <1>12, <2>5 DEF InTime, Lag
  <2>8. EndsInTime'
    <3>1. 100 * Lag(msg') <= Left + Delay(msg')
      BY <1>6, <1>12, <2>4 DEF InTime
    <3>2. Lag(msg') \in Nat /\ Delay(msg') \in Nat
      BY <1>5, <1>10
    <3>3. 100 * Lag(msg)' <= Left' + Delay(msg)'
      BY <1>1, <1>6, <3>1 DEF Lag, Delay
    <3>4. Lag(msg)' = Lag(msg') /\ Delay(msg)' = Delay(msg')
      BY <1>1 DEF Lag, Delay
    <3>5. QED
      BY <1>6, <1>7, <1>10, <3>2, <3>3, <3>4 DEF EndsInTime
  <2>9. QED
    BY <1>9, <2>3, <2>6, <2>7, <2>8 DEF Pace
<1>13. QED
  BY <1>11, <1>12

(* A flash takes no longer than Remaining says.                            *)
LEMMA FlashKeepsPace ==
  ASSUME TypeOK, FlashesCounted, Timely, Pace, TypeOK', FlashesCounted',
         LedOn \/ LedOff \/ NextBlink
  PROVE  Pace'
<1>1. /\ Displaying /\ Displaying'
      /\ UNCHANGED <<hpc, hostLeft, counter, box, on, cmain, rx_msgq, held,
                     msg>>
  BY DEF LedOn, LedOff, NextBlink, hostVars, boxVars, queueVars, Displaying
<1>2. Waiting' = Waiting /\ HeldFirst' = HeldFirst /\ Left' = Left
  BY <1>1 DEF Waiting, HeldFirst, Left
<1>3. Booted' /\ Fresh' = Fresh
  BY <1>1, <1>2 DEF Pace, Booted, Fresh
<1>4. BlinkCount(msg) \in 1..5 /\ BlinkCount(msg') = BlinkCount(msg)
      /\ i \in Nat /\ Slack \in Nat /\ Slack <= 1
  BY <1>1, BlinkCounts, PaceNumbers, SharedCounterAssumption
     DEF TypeOK, Timely
<1>5. Remaining' <= Remaining
  <2>1. CASE LedOn
    <3>1. tpc = "loop" /\ tpc' = "lit" /\ i' = i /\ taskLeft' \in 15..16
      BY <1>4, <2>1 DEF LedOn, Sleep, BLINK_ON
    <3>2. QED
      BY <1>4, <3>1 DEF Remaining, ToGo
  <2>2. CASE LedOff
    <3>1. /\ tpc = "lit" /\ taskLeft = 0 /\ tpc' = "dark" /\ i' = i
          /\ taskLeft' \in 15..16
      BY <1>4, <2>2 DEF LedOff, Sleep, BLINK_OFF
    <3>2. QED
      BY <1>4, <3>1 DEF Remaining, ToGo
  <2>3. CASE NextBlink
    <3>1. tpc = "dark" /\ taskLeft = 0 /\ tpc' = "loop" /\ i' = i + 1
      BY <2>3 DEF NextBlink
    <3>2. QED
      BY <1>4, <3>1 DEF Remaining, ToGo
  <2>4. QED
    BY <2>1, <2>2, <2>3
<1>6. Left <= Left' /\ (hpc' = "send" => hpc = "send")
  BY <1>1, <1>2, PaceNumbers
<1>7. QED
  BY <1>1, <1>3, <1>5, <1>6, PaceStays

(* When a display ends, whatever waits can begin in time.                  *)
LEMMA EndKeepsPace ==
  ASSUME TypeOK, FlashesCounted, Timely, Pace, EndBlinking
  PROVE  Pace'
<1>1. /\ tpc = "loop" /\ tpc' = "get" /\ i >= BlinkCount(msg)
      /\ held' = Max({held - 1, 0})
      /\ UNCHANGED <<hpc, hostLeft, counter, box, on, cmain, rx_msgq>>
  BY DEF EndBlinking, hostVars, boxVars
<1>2. held \in {0, 1} /\ held' = 0
  <2>1. held \in {0, 1}
    BY DEF Pace, Booted
  <2>2. {held - 1, 0} = {0} \/ {held - 1, 0} = {-1, 0}
    BY <2>1
  <2>3. \A x \in {{0}, {-1, 0}} : Max(x) = 0
    <3>1. \A m \in {0} : (\A y \in {0} : m >= y) => m = 0
      OBVIOUS
    <3>2. Max({0}) = 0
      BY DEF Max
    <3>3. 0 \in {-1, 0} /\ \A y \in {-1, 0} : 0 >= y
      OBVIOUS
    <3>4. Max({-1, 0}) \in {-1, 0} /\ \A y \in {-1, 0} : Max({-1, 0}) >= y
      BY <3>3 DEF Max
    <3>5. Max({-1, 0}) = 0
      BY <3>4
    <3>6. QED
      BY <3>2, <3>5
  <2>4. QED
    BY <1>1, <2>1, <2>2, <2>3
<1>3. Displaying /\ ~Displaying' /\ Fresh = Waiting /\ Fresh' = Waiting
  BY <1>1, <1>2 DEF Displaying, Fresh, HeldFirst, Waiting
<1>4. Remaining = 0
  <2>1. BlinkCount(msg) \in 1..5 /\ i \in Nat /\ i <= BlinkCount(msg)
    BY <1>1, BlinkCounts, PaceNumbers DEF TypeOK, FlashesCounted
  <2>2. QED
    BY <1>1, <2>1 DEF Remaining, ToGo
<1>5. \A c : Lag(c)' = Lag(c) /\ Delay(c)' = Delay(c)
  BY <1>1 DEF Lag, Delay
<1>6. Left' = Left /\ Left \in Nat
  BY <1>1, PaceNumbers DEF Left
<1>7. Booted'
  BY <1>1, <1>2 DEF Pace, Booted, HeldFirst
<1>8. OldestFirst' /\ Unsent' /\ EndsInTime'
  BY <1>1, <1>3, <1>5 DEF Pace, OldestFirst, Unsent, EndsInTime
<1>9. ASSUME NEW c \in Range(Waiting) PROVE InTime(c)'
  <2>1. c \in Counter /\ InTime(c) /\ msg \in Counter /\ counter \in Counter
    BY <1>3, FreshIsSeq, PaceNumbers DEF Pace
  <2>2. Lag(c) \in Nat /\ Delay(c) \in 60..148
    BY <2>1, PaceNumbers
  <2>3. CASE held = 1
    <3>1. 100 * Lag(c) <= Left + 60
      BY <1>3, <1>4, <1>6, <2>1, <2>2, <2>3 DEF InTime
    <3>2. QED
      BY <1>2, <1>3, <1>5, <1>6, <2>2, <3>1 DEF InTime
  <2>4. CASE held = 0
    <3>1. Lag(c) < Lag(msg)
      BY <1>3, <2>1, <2>4 DEF InTime
    <3>2. 100 * Lag(msg) <= Left + Delay(msg) + 32 * BlinkCount(msg)
      <4>1. Lag(msg) \in Nat
        BY PaceNumbers
      <4>2. QED
        BY <1>3, <1>4, <2>4, <4>1 DEF Pace, EndsInTime
    <3>3. 100 * Lag(c) <= Left + Delay(c)
      BY <1>6, <2>1, <3>1, <3>2, NextInTime
    <3>4. QED
      BY <1>2, <1>3, <1>5, <1>6, <3>3 DEF InTime
  <2>5. QED
    BY <1>2, <2>3, <2>4
<1>10. QED
  BY <1>3, <1>7, <1>8, <1>9 DEF Pace

(* Time passes only when nothing can run, for host and display alike.      *)
LEMMA TickKeepsPace ==
  ASSUME TypeOK, FlashesCounted, Timely, Pace, Tick
  PROVE  Pace'
<1>1. /\ ~Urgent
      /\ UNCHANGED <<hpc, counter, box, on, cmain, rx_msgq, held, tpc, msg, i>>
  BY DEF Tick, boxVars, queueVars
<1>2. /\ Waiting' = Waiting /\ HeldFirst' = HeldFirst /\ Fresh' = Fresh
      /\ Displaying' = Displaying
  BY <1>1 DEF Waiting, HeldFirst, Fresh, Displaying
<1>3. \A c : Lag(c)' = Lag(c) /\ Delay(c)' = Delay(c)
  BY <1>1 DEF Lag, Delay
<1>4. Booted'
  BY <1>1, <1>2 DEF Pace, Booted
<1>5. OldestFirst' /\ Unsent'
  BY <1>1, <1>2, <1>3 DEF Pace, OldestFirst, Unsent
<1>6. CASE ~Displaying
  <2>1. Waiting = <<>>
    <3>1. ASSUME on PROVE rx_msgq = <<>> /\ box = <<>>
      BY <1>1, <1>6, <3>1
         DEF Urgent, TaskCanRun, TypeOK, Pace, Booted, Displaying
    <3>2. <<>> \o <<>> = <<>>
      BY ConcatEmptySeq, EmptySeq
    <3>3. QED
      BY <3>1, <3>2 DEF Waiting
  <2>2. Fresh = <<>>
    BY <2>1 DEF Fresh, Pace, Booted
  <2>3. Range(Fresh) = {}
    BY <2>2 DEF Range
  <2>4. QED
    BY <1>2, <1>4, <1>5, <1>6, <2>3 DEF Pace, EndsInTime
<1>7. CASE Displaying
  <2>1. on /\ box = <<>> /\ TaskSleeps
    BY <1>1, <1>7
       DEF Urgent, TaskCanRun, TaskSleeps, TypeOK, Pace, Booted, Displaying
  <2>2. hpc = "sleep"
    <3>1. Len(box) = 0
      BY <2>1
    <3>2. QED
      BY <1>1, <3>1 DEF Urgent, HostCanRun, TypeOK, Timely
  <2>3. PICK d \in Nat \ {0} :
          hostLeft' = hostLeft - d /\ taskLeft' = taskLeft - d
    BY <2>1, <2>2, TickTakes
  <2>4. /\ hostLeft \in Nat /\ taskLeft \in Nat /\ i \in Nat
        /\ BlinkCount(msg) \in 1..5
    BY PaceNumbers, BlinkCounts, SharedCounterAssumption DEF TypeOK
  <2>5. Left' = Left - d
    BY <1>1, <2>2, <2>3 DEF Left
  <2>6. Remaining' = Remaining - d
    <3>1. ToGo' = ToGo /\ ToGo \in Int
      BY <1>1, <2>4 DEF ToGo, BlinkCount
    <3>2. tpc \in {"lit", "dark"}
      BY <2>1 DEF TaskSleeps
    <3>3. QED
      BY <1>1, <2>3, <2>4, <3>1, <3>2 DEF Remaining
  <2>7. Left \in Int /\ Remaining \in Int
    BY PaceNumbers
  <2>8. ASSUME NEW c \in Range(Fresh) PROVE InTime(c)'
    <3>1. /\ InTime(c) /\ Lag(c) \in Nat /\ Lag(c)' = Lag(c)
          /\ Lag(msg)' = Lag(msg)
      BY <1>1, <1>3, FreshIsSeq, PaceNumbers DEF Pace, Lag
    <3>2. CASE held = 1
      BY <1>1, <1>2, <1>7, <2>3, <2>5, <2>6, <2>7, <3>1, <3>2 DEF InTime
    <3>3. CASE held # 1
      BY <1>1, <1>2, <1>7, <3>1, <3>3 DEF InTime
    <3>4. QED
      BY <3>2, <3>3
  <2>9. EndsInTime'
    <3>1. /\ Lag(msg)' = Lag(msg) /\ Delay(msg)' = Delay(msg)
          /\ BlinkCount(msg') = BlinkCount(msg)
          /\ Lag(msg) \in Nat /\ Delay(msg) \in Nat
          /\ 32 * BlinkCount(msg) \in Nat
      BY <1>1, PaceNumbers DEF Lag, Delay
    <3>2. QED
      BY <1>1, <1>2, <1>7, <2>3, <2>5, <2>6, <2>7, <3>1 DEF Pace, EndsInTime
  <2>10. QED
    BY <1>2, <1>4, <1>5, <2>8, <2>9 DEF Pace
<1>8. QED
  BY <1>6, <1>7

(* Whatever is left concerns neither counters nor the display.             *)
LEMMA RestKeepsPace ==
  ASSUME TypeOK, FlashesCounted, Timely, Pace, TypeOK', FlashesCounted',
         \/ ClientMainFails \/ StartBlinkTask \/ LoseCounter \/ Rest
         \/ UNCHANGED vars
  PROVE  Pace'
<1>1. /\ UNCHANGED <<hpc, hostLeft, counter, on, rx_msgq, held, taskLeft, msg,
                     i>>
      /\ on => UNCHANGED box
      /\ \/ UNCHANGED <<cmain, tpc>>
         \/ cmain = "boot" /\ cmain' = "halted" /\ UNCHANGED tpc
         \/ cmain = "enabled" /\ cmain' = "ready" /\ tpc' = "get"
  BY DEF ClientMainFails, StartBlinkTask, LoseCounter, Rest, vars, hostVars,
     boxVars, queueVars, taskVars, Channel!Discard
<1>2. Displaying' = Displaying
  BY <1>1 DEF Displaying, TypeOK
<1>3. Waiting' = Waiting /\ HeldFirst' = HeldFirst
  BY <1>1, <1>2 DEF Waiting, HeldFirst
<1>4. Booted' /\ Fresh' = Fresh
  BY <1>1, <1>3 DEF Pace, Booted, Fresh
<1>5. Left' = Left /\ Remaining' <= Remaining
  <2>1. Left' = Left
    BY <1>1 DEF Left
  <2>2. ToGo' = ToGo
    BY <1>1 DEF ToGo, BlinkCount
  <2>3. Remaining' = Remaining
    BY <1>1, <2>2 DEF Remaining, TypeOK
  <2>4. QED
    BY <2>1, <2>3, PaceNumbers
<1>6. Left <= Left'
  BY <1>5, PaceNumbers
<1>7. QED
  BY <1>1, <1>2, <1>4, <1>5, <1>6, PaceStays

LEMMA PaceStep ==
  Timely /\ TypeOK /\ FlashesCounted /\ Pace /\ [Next]_vars => Pace'
<1> SUFFICES ASSUME Timely, TypeOK, FlashesCounted, Pace, [Next]_vars
             PROVE  Pace'
  OBVIOUS
<1>1. TypeOK' /\ FlashesCounted'
  BY TypeStep
<1>2. QED
  BY <1>1, CountKeepsPace, SendKeepsPace, BootKeepsPace, CallbackKeepsPace,
     GetKeepsPace, FlashKeepsPace, EndKeepsPace, TickKeepsPace, RestKeepsPace
     DEF Next

LEMMA PaceInit == Init => Pace
<1> SUFFICES ASSUME Init PROVE Pace
  OBVIOUS
<1>1. /\ on = FALSE /\ box = <<>> /\ rx_msgq = <<>> /\ cmain = "boot"
      /\ held = 0 /\ tpc = "off" /\ hpc = "sleep"
  BY DEF Init, Channel!Init, RxMsgQ!Init
<1>2. Fresh = <<>> /\ ~Displaying /\ ~HeldFirst
  BY <1>1 DEF Fresh, HeldFirst, Waiting, Displaying
<1>3. Range(Fresh) = {} /\ DOMAIN Fresh = {}
  BY <1>2 DEF Range
<1>4. QED
  BY <1>1, <1>2, <1>3 DEF Pace, Booted, OldestFirst, Unsent, EndsInTime

(* The display keeps up: for every width of the counter, a single slot in  *)
(* the mailbox, and sleeps that take at most one unit too much, LED0 is    *)
(* never more than three counts behind and no counter finds rx_msgq full.  *)
THEOREM DisplayIsTimely == Timely => (Spec => []DisplayKeepsUp)
<1>1. Timely /\ TypeOK /\ FlashesCounted /\ Pace => DisplayKeepsUp
  BY PaceKeepsUp
<1>2. Timely => Timely'
  BY DEF Timely
<1>3. Timely /\ Spec => [](Timely /\ TypeOK /\ FlashesCounted /\ Pace)
  BY <1>2, PaceInit, PaceStep, TypeInit, TypeStep, PTL DEF Spec
<1>4. QED
  BY <1>1, <1>3, PTL
-----------------------------------------------------------------------------
(* Lab 08.  It is built like lab 04, and what it shares with it has the    *)
(* same names; the burst, its queue and the LEDs are its own.              *)
CONSTANT MaxFaults
VARIABLES sent, pattern_msgq, leds, unsure, faults

Bursts == INSTANCE MessageQueue

(* A step of a pattern belongs to an iteration that has not ended.         *)
Iterating == tpc \in {"first", "second"} => i < msg.repeat

LEMMA BurstPatterns ==
  /\ Len(Bursts!Burst) = 4
  /\ \A n \in 1..4 : Bursts!Burst[n] \in Bursts!Patterns
  /\ \A p \in Bursts!Patterns : p.repeat \in 1..3
<1>1. /\ Len(Bursts!Burst) = 4 /\ DOMAIN Bursts!Burst = 1..4
      /\ \A n \in 1..4 : Bursts!Burst[n].repeat \in 1..3
  BY DEF Bursts!Burst, Bursts!Pattern
<1>2. Bursts!Patterns = {Bursts!Burst[n] : n \in 1..4}
  BY <1>1 DEF Bursts!Patterns, Bursts!Range
<1>3. QED
  BY <1>1, <1>2

LEMMA PatternLeds ==
  ASSUME NEW id
  PROVE  /\ Bursts!Uses(id) \subseteq Bursts!LEDs
         /\ Bursts!First(id) \subseteq Bursts!Uses(id)
         /\ Bursts!Second(id) \subseteq Bursts!Uses(id)
BY DEF Bursts!Uses, Bursts!First, Bursts!Second, Bursts!LEDs

(* What gpio_pin_set_dt() does: an LED that is not unsure is set as asked  *)
(* for, or as it was.                                                      *)
LEMMA AfterSetLeds ==
  ASSUME NEW some \in SUBSET Bursts!LEDs, NEW lit, Bursts!SetLeds(some, lit),
         unsure \subseteq Bursts!LEDs
  PROVE  /\ leds' \in [Bursts!LEDs -> BOOLEAN] /\ unsure' \subseteq Bursts!LEDs
         /\ \A k \in Bursts!LEDs \ unsure' :
              /\ k \in some => (leds'[k] <=> k \in lit)
              /\ k \notin some => k \notin unsure /\ leds'[k] = leds[k]
<1>1. PICK failed \in SUBSET some :
        /\ unsure' = (unsure \ some) \cup failed
        /\ leds' \in {f \in [Bursts!LEDs -> BOOLEAN] :
                        \A k \in Bursts!LEDs \ failed :
                          f[k] = IF k \in some THEN k \in lit ELSE leds[k]}
  BY DEF Bursts!SetLeds
<1>2. leds' \in [Bursts!LEDs -> BOOLEAN] /\ unsure' \subseteq Bursts!LEDs
  BY <1>1
<1>3. ASSUME NEW k \in Bursts!LEDs \ unsure'
      PROVE  /\ k \in some => (leds'[k] <=> k \in lit)
             /\ k \notin some => k \notin unsure /\ leds'[k] = leds[k]
  <2>1. k \in Bursts!LEDs \ failed /\ (k \notin some => k \notin unsure)
    BY <1>1
  <2>2. leds'[k] = IF k \in some THEN k \in lit ELSE leds[k]
    BY <1>1, <2>1
  <2>3. QED
    BY <2>1, <2>2
<1>4. QED
  BY <1>2, <1>3

(* Time passes as in lab 04.                                               *)
LEMMA BurstsTickTakes ==
  ASSUME Bursts!TypeOK, Bursts!Tick
  PROVE  \E d \in Nat \ {0} :
           /\ IF hpc = "sleep" THEN d <= hostLeft /\ hostLeft' = hostLeft - d
                               ELSE hostLeft' = 0
           /\ IF Bursts!TaskSleeps
              THEN d <= taskLeft /\ taskLeft' = taskLeft - d
              ELSE taskLeft' = 0
<1> DEFINE d == IF cmain = "boot" THEN 1 ELSE Bursts!Min(Bursts!Sleeps)
<1>1. /\ ~Bursts!Urgent /\ Bursts!Sleeps # {}
      /\ hostLeft' = IF hpc = "sleep" THEN hostLeft - d ELSE 0
      /\ taskLeft' = IF Bursts!TaskSleeps THEN taskLeft - d ELSE 0
  BY DEF Bursts!Tick
<1>2. hpc \in {"sleep", "send"} /\ hostLeft \in Nat /\ taskLeft \in Nat
  BY SharedCounterAssumption DEF Bursts!TypeOK
<1>3. hpc = "sleep" => hostLeft # 0
  BY <1>1 DEF Bursts!Urgent, Bursts!HostCanRun
<1>4. Bursts!TaskSleeps => taskLeft # 0
  BY <1>1 DEF Bursts!Urgent, Bursts!TaskCanRun
<1>5. CASE cmain = "boot"
  <2>1. d = 1 /\ ~Bursts!TaskSleeps
    BY <1>5 DEF Bursts!TypeOK, Bursts!TaskSleeps
  <2>2. QED
    BY <1>1, <1>2, <1>3, <2>1
<1>6. CASE cmain # "boot"
  <2>1. d = Bursts!Min(Bursts!Sleeps)
    BY <1>6
  <2>2. \/ Bursts!Sleeps = {hostLeft} \/ Bursts!Sleeps = {taskLeft}
        \/ Bursts!Sleeps = {hostLeft, taskLeft}
    BY <1>1 DEF Bursts!Sleeps
  <2>3. \E x \in Bursts!Sleeps : \A y \in Bursts!Sleeps : x <= y
    BY <1>2, <2>2, LeastOfTwo
  <2>4. d \in Bursts!Sleeps /\ \A y \in Bursts!Sleeps : d <= y
    BY <2>1, <2>3 DEF Bursts!Min
  <2>5. d \in Nat \ {0}
    BY <1>2, <1>3, <1>4, <2>4 DEF Bursts!Sleeps
  <2>6. (hpc = "sleep" => d <= hostLeft) /\ (Bursts!TaskSleeps => d <= taskLeft)
    BY <2>4 DEF Bursts!Sleeps
  <2>7. QED
    BY <1>1, <1>2, <2>5, <2>6
<1>7. QED
  BY <1>5, <1>6
-----------------------------------------------------------------------------
LEMMA BurstsTypeInit == Bursts!Init => Bursts!TypeOK /\ Iterating
<1> SUFFICES ASSUME Bursts!Init PROVE Bursts!TypeOK /\ Iterating
  OBVIOUS
<1>1. box = <<>> /\ on = FALSE /\ pattern_msgq = <<>>
  BY DEF Bursts!Init, Bursts!Channel!Init, Bursts!PatternMsgQ!Init
<1>2. <<>> \in Seq(Bursts!Patterns) /\ Len(<<>>) = 0
  BY EmptySeq
<1>3. /\ hpc = "sleep" /\ hostLeft = 0 /\ sent = 0 /\ cmain = "boot"
      /\ tpc = "off" /\ taskLeft = 0 /\ msg = Bursts!Burst[1] /\ i = 0
      /\ unsure = {}
  BY DEF Bursts!Init
<1>4. /\ 0 \in 0..(Bursts!PAUSE + Slack) /\ 0 \in 0..(Bursts!STEP + Slack)
      /\ 0 <= Slots /\ 0 <= Depth
  BY SharedCounterAssumption DEF Bursts!PAUSE, Bursts!STEP
<1>5. on \in BOOLEAN /\ leds \in [Bursts!LEDs -> BOOLEAN]
  BY <1>1 DEF Bursts!Init
<1>6. msg \in Bursts!Patterns /\ msg.repeat \in 1..3
  BY <1>3, BurstPatterns
<1>7. sent \in 0..Len(Bursts!Burst) /\ i \in 0..msg.repeat
  BY <1>3, <1>6, BurstPatterns
<1>8. QED
  BY <1>1, <1>2, <1>3, <1>4, <1>5, <1>6, <1>7 DEF Bursts!TypeOK, Iterating

LEMMA BurstsTypeStep ==
  Bursts!TypeOK /\ Iterating /\ [Bursts!Next]_(Bursts!vars)
    => Bursts!TypeOK' /\ Iterating'
<1> SUFFICES ASSUME Bursts!TypeOK, Iterating, [Bursts!Next]_(Bursts!vars)
             PROVE  Bursts!TypeOK' /\ Iterating'
  OBVIOUS
<1>a. /\ box \in Seq(Bursts!Patterns) /\ Len(box) \in Nat
      /\ pattern_msgq \in Seq(Bursts!Patterns) /\ Len(pattern_msgq) \in Nat
      /\ msg.repeat \in 1..3 /\ i \in Nat /\ sent \in 0..4
      /\ Len(Bursts!Burst) = 4
  BY LenProperties, BurstPatterns DEF Bursts!TypeOK
<1>b. /\ \A n \in Bursts!Sleep(Bursts!PAUSE) : n \in 0..(Bursts!PAUSE + Slack)
      /\ \A n \in Bursts!Sleep(Bursts!STEP) : n \in 0..(Bursts!STEP + Slack)
  BY SharedCounterAssumption DEF Bursts!Sleep, Bursts!PAUSE, Bursts!STEP
<1>c. /\ Bursts!Uses(msg.pattern_id) \in SUBSET Bursts!LEDs
      /\ Bursts!Second(msg.pattern_id) \in SUBSET Bursts!LEDs
  BY PatternLeds
<1> USE <1>a, SharedCounterAssumption DEF Bursts!TypeOK, Iterating,
      Bursts!hostVars, Bursts!boxVars, Bursts!ledVars, Bursts!taskVars
<1>1. CASE Bursts!BeginBurst
  BY <1>1 DEF Bursts!BeginBurst
<1>2. CASE Bursts!SendPattern
  <2>1. /\ hpc = "send" /\ sent < 4 /\ sent' = sent + 1
        /\ IF sent' < Len(Bursts!Burst) THEN UNCHANGED <<hpc, hostLeft>>
           ELSE hpc' = "sleep" /\ hostLeft' \in Bursts!Sleep(Bursts!PAUSE)
        /\ UNCHANGED <<cmain, pattern_msgq, Bursts!taskVars>>
    BY <1>2 DEF Bursts!SendPattern
  <2>2. box' \in Seq(Bursts!Patterns) /\ Len(box') <= Slots /\ on' = on
    <3>1. CASE Bursts!Channel!Post(Bursts!Burst[sent + 1], Bursts!MsgSize)
      <4>1. /\ Len(box) < Slots /\ box' = Append(box, Bursts!Burst[sent + 1])
            /\ on' = on
        BY <3>1 DEF Bursts!Channel!Post
      <4>2. Bursts!Burst[sent + 1] \in Bursts!Patterns
        BY <2>1, BurstPatterns
      <4>3. QED
        BY <4>1, <4>2, Puts
    <3>2. CASE UNCHANGED Bursts!boxVars
      BY <3>2
    <3>3. QED
      BY <1>2, <3>1, <3>2 DEF Bursts!SendPattern
  <2>3. /\ hpc' \in {"sleep", "send"}
        /\ hostLeft' \in 0..(Bursts!PAUSE + Slack)
        /\ sent' \in 0..4 /\ (hpc' = "send" => sent' < 4)
    BY <1>b, <2>1
  <2>4. QED
    BY <2>1, <2>2, <2>3
<1>3. CASE Bursts!ClientMain
  BY <1>3 DEF Bursts!ClientMain, Bursts!Channel!Enable
<1>4. CASE Bursts!ClientMainFails
  BY <1>4 DEF Bursts!ClientMainFails
<1>5. CASE Bursts!StartPatternTask
  BY <1>5 DEF Bursts!StartPatternTask
<1>6. CASE Bursts!LosePattern
  <2>1. box' \in Seq(Bursts!Patterns) /\ Len(box') <= Slots /\ on' = on
    BY <1>6, Takes DEF Bursts!LosePattern, Bursts!Channel!Discard
  <2>2. QED
    BY <1>6, <2>1 DEF Bursts!LosePattern
<1>7. CASE Bursts!MboxRxCallback
  <2>1. PICK p \in Bursts!Range(box) :
          /\ Bursts!Channel!Interrupt(p)
          /\ Bursts!PatternMsgQ!Put(p) \/ Bursts!PatternMsgQ!PutFails
    BY <1>7 DEF Bursts!MboxRxCallback
  <2>2. /\ box' \in Seq(Bursts!Patterns) /\ Len(box') <= Slots /\ on' = on
        /\ p \in Bursts!Patterns
    BY <2>1, Takes DEF Bursts!Channel!Interrupt
  <2>3. /\ pattern_msgq' \in Seq(Bursts!Patterns)
        /\ Len(pattern_msgq') <= Depth
    <3>1. CASE Bursts!PatternMsgQ!Put(p)
      <4>1. Len(pattern_msgq) < Depth /\ pattern_msgq' = Append(pattern_msgq, p)
        BY <3>1 DEF Bursts!PatternMsgQ!Put, Bursts!PatternMsgQ!Full
      <4>2. QED
        BY <2>2, <4>1, Puts
    <3>2. CASE Bursts!PatternMsgQ!PutFails
      BY <3>2 DEF Bursts!PatternMsgQ!PutFails
    <3>3. QED
      BY <2>1, <3>1, <3>2
  <2>4. QED
    BY <1>7, <2>2, <2>3 DEF Bursts!MboxRxCallback
<1>8. CASE Bursts!GetPattern
  <2>1. PICK p \in Bursts!Range(pattern_msgq) :
          Bursts!PatternMsgQ!Get(p) /\ msg' = p
    BY <1>8 DEF Bursts!GetPattern
  <2>2. /\ pattern_msgq' \in Seq(Bursts!Patterns)
        /\ Len(pattern_msgq') <= Depth /\ msg' \in Bursts!Patterns
    BY <2>1, Takes DEF Bursts!PatternMsgQ!Get
  <2>3. msg'.repeat \in 1..3
    BY <2>2, BurstPatterns
  <2>4. i' = 0 /\ 0 \in 0..(msg'.repeat)
    BY <1>8, <2>3 DEF Bursts!GetPattern
  <2>5. QED
    BY <1>8, <2>2, <2>4 DEF Bursts!GetPattern
<1>9. CASE Bursts!FirstStep
  <2>1. leds' \in [Bursts!LEDs -> BOOLEAN] /\ unsure' \subseteq Bursts!LEDs
    BY <1>9, <1>c, AfterSetLeds DEF Bursts!FirstStep
  <2>2. QED
    BY <1>9, <1>b, <2>1 DEF Bursts!FirstStep
<1>10. CASE Bursts!SecondStep
  <2>1. leds' \in [Bursts!LEDs -> BOOLEAN] /\ unsure' \subseteq Bursts!LEDs
    BY <1>10, <1>c, AfterSetLeds DEF Bursts!SecondStep
  <2>2. QED
    BY <1>10, <1>b, <2>1 DEF Bursts!SecondStep
<1>11. CASE Bursts!NextStep
  BY <1>11 DEF Bursts!NextStep
<1>12. CASE Bursts!EndPattern
  <2>1. leds' \in [Bursts!LEDs -> BOOLEAN] /\ unsure' \subseteq Bursts!LEDs
    BY <1>12, <1>c, AfterSetLeds DEF Bursts!EndPattern
  <2>2. QED
    BY <1>12, <2>1 DEF Bursts!EndPattern
<1>13. CASE Bursts!Tick
  <2>1. /\ hostLeft' \in 0..(Bursts!PAUSE + Slack)
        /\ taskLeft' \in 0..(Bursts!STEP + Slack)
    BY <1>13, BurstsTickTakes DEF Bursts!PAUSE, Bursts!STEP
  <2>2. QED
    BY <1>13, <2>1 DEF Bursts!Tick
<1>14. CASE Bursts!Rest \/ UNCHANGED Bursts!vars
  BY <1>14 DEF Bursts!Rest, Bursts!vars
<1>15. QED
  BY <1>1, <1>2, <1>3, <1>4, <1>5, <1>6, <1>7, <1>8, <1>9, <1>10, <1>11,
     <1>12, <1>13, <1>14 DEF Bursts!Next, Bursts!Boot, Bursts!Work

LEMMA BurstsTypeAlways == Bursts!Spec => [](Bursts!TypeOK /\ Iterating)
BY BurstsTypeInit, BurstsTypeStep, PTL DEF Bursts!Spec

(* Type correctness of lab 08, for every size of the buffers: neither the  *)
(* mailbox nor pattern_msgq overruns, and no pattern runs once too often.  *)
THEOREM BurstsTypeCorrect == Bursts!Spec => []Bursts!TypeOK
BY BurstsTypeAlways, PTL
-----------------------------------------------------------------------------
(* Which LEDs may be lit when: those of the step that Pattern_Task is in.  *)
StepLights ==
  \A k \in Bursts!LEDs \ unsure :
    leds[k] =>
      \/ tpc = "first" /\ k \in Bursts!First(msg.pattern_id)
      \/ tpc \in {"second", "loop"} /\ k \in Bursts!Second(msg.pattern_id)

LEMMA StepLightsStep ==
  Bursts!TypeOK /\ StepLights /\ [Bursts!Next]_(Bursts!vars) => StepLights'
<1> SUFFICES ASSUME Bursts!TypeOK, StepLights, [Bursts!Next]_(Bursts!vars),
                    NEW k \in Bursts!LEDs \ unsure', leds'[k]
             PROVE  \/ tpc' = "first" /\ k \in Bursts!First(msg.pattern_id)'
                    \/ /\ tpc' \in {"second", "loop"}
                       /\ k \in Bursts!Second(msg.pattern_id)'
  BY DEF StepLights
<1>a. unsure \subseteq Bursts!LEDs
  BY DEF Bursts!TypeOK
<1> DEFINE id == msg.pattern_id
<1>b. /\ Bursts!Uses(id) \in SUBSET Bursts!LEDs
      /\ Bursts!Second(id) \in SUBSET Bursts!LEDs
      /\ Bursts!First(id) \subseteq Bursts!Uses(id)
      /\ Bursts!Second(id) \subseteq Bursts!Uses(id)
  BY PatternLeds
<1>c. msg' = msg => /\ Bursts!First(id)' = Bursts!First(id)
                    /\ Bursts!Second(id)' = Bursts!Second(id)
  BY DEF Bursts!First, Bursts!Second, Bursts!Uses
<1> HIDE DEF id
<1>1. CASE Bursts!FirstStep
  <2>1. /\ tpc = "loop" /\ tpc' = "first" /\ msg' = msg
        /\ Bursts!SetLeds(Bursts!Uses(id), Bursts!First(id))
    BY <1>1 DEF Bursts!FirstStep, id
  <2>2. /\ k \in Bursts!Uses(id) => k \in Bursts!First(id)
        /\ k \notin Bursts!Uses(id) => k \notin unsure /\ leds[k]
    BY <1>a, <1>b, <2>1, AfterSetLeds
  <2>3. QED
    BY <1>b, <1>c, <2>1, <2>2 DEF StepLights, id
<1>2. CASE Bursts!SecondStep
  <2>1. /\ tpc = "first" /\ tpc' = "second" /\ msg' = msg
        /\ Bursts!SetLeds(Bursts!Uses(id), Bursts!Second(id))
    BY <1>2 DEF Bursts!SecondStep, id
  <2>2. /\ k \in Bursts!Uses(id) => k \in Bursts!Second(id)
        /\ k \notin Bursts!Uses(id) => k \notin unsure /\ leds[k]
    BY <1>a, <1>b, <2>1, AfterSetLeds
  <2>3. QED
    BY <1>b, <1>c, <2>1, <2>2 DEF StepLights, id
<1>3. CASE Bursts!EndPattern
  <2>1. tpc = "loop" /\ Bursts!SetLeds(Bursts!Second(id), {})
    BY <1>3 DEF Bursts!EndPattern, id
  <2>2. k \notin Bursts!Second(id) /\ k \notin unsure /\ leds[k]
    <3>1. \A j \in Bursts!LEDs \ unsure' :
            /\ j \in Bursts!Second(id) => (leds'[j] <=> j \in {})
            /\ j \notin Bursts!Second(id) =>
                 j \notin unsure /\ leds'[j] = leds[j]
      BY <1>a, <1>b, <2>1, AfterSetLeds
    <3>2. QED
      BY <3>1
  <2>3. QED
    BY <2>1, <2>2 DEF StepLights, id
<1>4. CASE Bursts!GetPattern \/ Bursts!StartPatternTask
  BY <1>4 DEF Bursts!GetPattern, Bursts!StartPatternTask, Bursts!TypeOK,
     Bursts!ledVars, StepLights
<1>5. CASE Bursts!NextStep
  BY <1>5, <1>c DEF Bursts!NextStep, Bursts!ledVars, StepLights, id
<1>6. CASE \/ Bursts!BeginBurst \/ Bursts!SendPattern \/ Bursts!Boot
           \/ Bursts!LosePattern \/ Bursts!MboxRxCallback \/ Bursts!Tick
           \/ Bursts!Rest \/ UNCHANGED Bursts!vars
  <2>1. UNCHANGED <<tpc, msg, Bursts!ledVars>>
    BY <1>6 DEF Bursts!BeginBurst, Bursts!SendPattern, Bursts!Boot,
       Bursts!ClientMain, Bursts!ClientMainFails, Bursts!LosePattern,
       Bursts!MboxRxCallback, Bursts!Tick, Bursts!Rest, Bursts!vars,
       Bursts!taskVars
  <2>2. QED
    BY <1>c, <2>1 DEF StepLights, Bursts!ledVars, id
<1>7. QED
  BY <1>1, <1>2, <1>3, <1>4, <1>5, <1>6 DEF Bursts!Next, Bursts!Work

(* A pattern leaves no LED on for the next one, whatever cannot be set and *)
(* however the patterns follow each other.                                 *)
THEOREM NoPatternLeavesLeds == Bursts!Spec => []Bursts!NoLedLeftOn
<1>1. Bursts!Init => StepLights
  BY DEF Bursts!Init, StepLights
<1>2. StepLights => Bursts!NoLedLeftOn
  BY PatternLeds DEF StepLights, Bursts!NoLedLeftOn
<1>3. QED
  BY <1>1, <1>2, StepLightsStep, BurstsTypeAlways, PTL DEF Bursts!Spec
-----------------------------------------------------------------------------
(* The queue of patterns.  A step takes at most five units, so an          *)
(* iteration takes ten and a pattern thirty, what is in hand ToRun.        *)
Iterations == 10 * (msg.repeat - i)
ToRun ==
  IF tpc = "loop" THEN Iterations
  ELSE IF tpc = "first" THEN Iterations - 5 + taskLeft
  ELSE IF tpc = "second" THEN Iterations - 10 + taskLeft
  ELSE 0
Load == 30 * (Len(box) + Len(pattern_msgq)) + ToRun

(* The pause after a burst is as long as its patterns take: the time until *)
(* the next one, or what has been sent of this one, bounds the work that   *)
(* there is on top of what waited in the mailbox for M4 to boot.           *)
Demand == IF hpc = "send" THEN 30 * sent ELSE hostLeft
Backlog ==
  /\ on <=> cmain \in {"enabled", "ready"}
  /\ ~on => pattern_msgq = <<>>
  /\ Load <= 30 * Slots + Demand

(* How slow the sleeps may be.                                             *)
Brisk == Slack <= 1

LoadIsInt ==
  /\ ToRun \in Int /\ Load \in Int /\ Demand \in Nat
  /\ Len(box) \in Nat /\ Len(pattern_msgq) \in Nat
  /\ msg.repeat \in 1..3 /\ i \in Nat /\ i <= msg.repeat
  /\ sent \in Nat /\ hostLeft \in Nat /\ taskLeft \in Nat

LEMMA LoadNumbers == Bursts!TypeOK => LoadIsInt
<1> SUFFICES ASSUME Bursts!TypeOK PROVE LoadIsInt
  OBVIOUS
<1>1. /\ Len(box) \in Nat /\ Len(pattern_msgq) \in Nat
      /\ msg.repeat \in 1..3 /\ i \in Nat /\ i <= msg.repeat
      /\ sent \in Nat /\ hostLeft \in Nat /\ taskLeft \in Nat
  BY LenProperties, BurstPatterns, SharedCounterAssumption DEF Bursts!TypeOK
<1>2. Iterations \in Int
  BY <1>1 DEF Iterations
<1>3. ToRun \in Int /\ Demand \in Nat
  BY <1>1, <1>2 DEF ToRun, Demand
<1>4. QED
  BY <1>1, <1>3 DEF LoadIsInt, Load

(* What more there is to do is covered by what more time there is.         *)
LEMMA Covered ==
  ASSUME NEW a \in Int, NEW b \in Int, NEW c \in Int, NEW d \in Int,
         NEW e \in Int, NEW more \in Int,
         a <= c + d, b <= a + more, d + more <= e
  PROVE  b <= c + e
OBVIOUS

(* Work neither grows nor gets short of time.                              *)
LEMMA BacklogStays ==
  ASSUME LoadIsInt, LoadIsInt', Backlog, UNCHANGED <<cmain, on>>,
         ~on => UNCHANGED pattern_msgq, Load' <= Load, Demand <= Demand'
  PROVE  Backlog'
<1>1. /\ Load \in Int /\ Demand \in Nat /\ Load' \in Int /\ Demand' \in Nat
      /\ 30 * Slots \in Int
  BY SharedCounterAssumption DEF LoadIsInt
<1>2. Load' <= Load + 0 /\ Demand + 0 <= Demand'
  BY <1>1
<1>3. Load <= 30 * Slots + Demand
  BY DEF Backlog
<1>4. Load' <= 30 * Slots + Demand'
  BY <1>1, <1>2, <1>3, Covered
<1>5. QED
  BY <1>4 DEF Backlog

LEMMA BacklogStep ==
  Brisk /\ Bursts!TypeOK /\ Iterating /\ Backlog /\ [Bursts!Next]_(Bursts!vars)
    => Backlog'
<1> SUFFICES ASSUME Brisk, Bursts!TypeOK, Iterating, Backlog,
                    [Bursts!Next]_(Bursts!vars)
             PROVE  Backlog'
  OBVIOUS
<1>a. LoadIsInt /\ LoadIsInt'
  <2>1. Bursts!TypeOK'
    BY BurstsTypeStep
  <2>2. (Bursts!TypeOK => LoadIsInt)'
    BY LoadNumbers, PTL
  <2>3. QED
    BY <2>1, <2>2, LoadNumbers
<1>b. /\ box \in Seq(Bursts!Patterns) /\ Len(box) \in Nat
      /\ pattern_msgq \in Seq(Bursts!Patterns) /\ Len(pattern_msgq) \in Nat
      /\ msg.repeat \in 1..3 /\ i \in Nat /\ i <= msg.repeat
      /\ sent \in Nat /\ hostLeft \in Nat /\ taskLeft \in Nat
      /\ ToRun \in Int /\ Load \in Int /\ Demand \in Nat
      /\ Slots \in Nat \ {0} /\ Slack \in Nat /\ Slack <= 1
  BY <1>a, SharedCounterAssumption DEF LoadIsInt, Brisk, Bursts!TypeOK
<1>c. /\ Len(box') \in Nat /\ Len(pattern_msgq') \in Nat
      /\ msg'.repeat \in 1..3 /\ i' \in Nat /\ hostLeft' \in Nat
      /\ ToRun' \in Int /\ Load' \in Int /\ Demand' \in Nat
  BY <1>a DEF LoadIsInt
<1>d. \A n \in Bursts!Sleep(Bursts!STEP) : n \in Nat /\ n <= 5
  BY <1>b DEF Bursts!Sleep, Bursts!STEP
<1>e. ASSUME UNCHANGED <<tpc, taskLeft, msg, i>> PROVE ToRun' = ToRun
  BY <1>e DEF ToRun, Iterations
<1>f. ASSUME UNCHANGED <<hpc, hostLeft, sent>> PROVE Demand' = Demand
  BY <1>f DEF Demand
<1>g. ASSUME UNCHANGED <<box, pattern_msgq>>, ToRun' <= ToRun
      PROVE  Load' <= Load
  BY <1>b, <1>c, <1>g DEF Load
<1>h. ASSUME ~on, Bursts!Tick \/ Bursts!ClientMain PROVE ToRun' = 0
  BY <1>h DEF Bursts!Tick, Bursts!ClientMain, Bursts!taskVars, Backlog,
     Bursts!TypeOK, ToRun
<1> USE DEF Bursts!hostVars, Bursts!boxVars, Bursts!taskVars
<1>1. CASE Bursts!BeginBurst
  <2>1. /\ hpc = "sleep" /\ hostLeft = 0 /\ hpc' = "send" /\ sent' = 0
        /\ UNCHANGED <<box, on, cmain, pattern_msgq, tpc, taskLeft, msg, i>>
    BY <1>1 DEF Bursts!BeginBurst
  <2>2. Demand = 0 /\ Demand' = 0
    BY <2>1 DEF Demand
  <2>3. Load' <= Load
    BY <1>b, <1>e, <1>g, <2>1
  <2>4. QED
    BY <1>a, <2>1, <2>2, <2>3, BacklogStays
<1>2. CASE Bursts!SendPattern
  <2>1. /\ hpc = "send" /\ sent' = sent + 1 /\ sent < 4
        /\ IF sent' < 4 THEN UNCHANGED hpc
           ELSE hpc' = "sleep" /\ hostLeft' \in Bursts!Sleep(Bursts!PAUSE)
        /\ UNCHANGED <<cmain, on, pattern_msgq, tpc, taskLeft, msg, i>>
    BY <1>2, BurstPatterns
       DEF Bursts!SendPattern, Bursts!TypeOK, Bursts!Channel!Post
  <2>2. Demand + 30 <= Demand'
    <3>1. Demand = 30 * sent
      BY <2>1 DEF Demand
    <3>2. CASE sent' < 4
      BY <1>b, <2>1, <3>1, <3>2 DEF Demand
    <3>3. CASE ~(sent' < 4)
      <4>1. hpc' = "sleep" /\ hostLeft' \in 120..(120 + Slack) /\ sent = 3
        BY <1>b, <2>1, <3>3 DEF Bursts!Sleep, Bursts!PAUSE
      <4>2. Demand' = hostLeft' /\ 120 <= hostLeft' /\ Demand = 90
        BY <1>b, <3>1, <4>1 DEF Demand
      <4>3. QED
        BY <1>c, <4>2
    <3>4. QED
      BY <3>2, <3>3
  <2>3. Len(box') <= Len(box) + 1
    <3>1. CASE Bursts!Channel!Post(Bursts!Burst[sent + 1], Bursts!MsgSize)
      <4>1. Bursts!Burst[sent + 1] \in Bursts!Patterns
        BY <1>b, <2>1, BurstPatterns
      <4>2. Len(box') = Len(box) + 1
        BY <1>b, <3>1, <4>1, AppendProperties DEF Bursts!Channel!Post
      <4>3. QED
        BY <1>b, <4>2
    <3>2. CASE UNCHANGED Bursts!boxVars
      BY <1>b, <3>2
    <3>3. QED
      BY <1>2, <3>1, <3>2 DEF Bursts!SendPattern
  <2>4. Load' <= Load + 30
    BY <1>b, <1>c, <1>e, <2>1, <2>3 DEF Load
  <2>5. Load' <= 30 * Slots + Demand'
    <3>1. Load <= 30 * Slots + Demand
      BY DEF Backlog
    <3>2. /\ Load \in Int /\ Load' \in Int /\ Demand \in Int
          /\ Demand' \in Int /\ 30 * Slots \in Int
      BY <1>b, <1>c
    <3>3. QED
      BY <2>2, <2>4, <3>1, <3>2, Covered
  <2>6. QED
    BY <2>1, <2>5 DEF Backlog
<1>3. CASE Bursts!ClientMain
  <2>1. /\ cmain = "boot" /\ cmain' = "enabled" /\ on' = TRUE
        /\ UNCHANGED <<hpc, hostLeft, sent, box, pattern_msgq, tpc, taskLeft,
                       msg, i>>
    BY <1>3 DEF Bursts!ClientMain, Bursts!Channel!Enable
  <2>2. Load' <= Load /\ Demand' = Demand
    BY <1>b, <1>e, <1>f, <1>g, <2>1
  <2>3. Load' <= 30 * Slots + Demand'
    BY <1>b, <1>c, <2>2 DEF Backlog
  <2>4. QED
    BY <2>1, <2>3 DEF Backlog
<1>4. CASE Bursts!ClientMainFails
  <2>1. /\ cmain = "boot" /\ cmain' = "halted"
        /\ UNCHANGED <<hpc, hostLeft, sent, box, on, pattern_msgq, tpc,
                       taskLeft, msg, i>>
    BY <1>4 DEF Bursts!ClientMainFails
  <2>2. Load' <= Load /\ Demand' = Demand
    BY <1>b, <1>e, <1>f, <1>g, <2>1
  <2>3. Load' <= 30 * Slots + Demand'
    BY <1>b, <1>c, <2>2 DEF Backlog
  <2>4. QED
    BY <2>1, <2>3 DEF Backlog
<1>5. CASE Bursts!StartPatternTask
  <2>1. /\ cmain = "enabled" /\ cmain' = "ready" /\ tpc' = "get"
        /\ tpc = "off"
        /\ UNCHANGED <<hpc, hostLeft, sent, box, on, pattern_msgq>>
    BY <1>5 DEF Bursts!StartPatternTask, Bursts!TypeOK
  <2>2. ToRun = 0 /\ ToRun' = 0
    BY <2>1 DEF ToRun
  <2>3. Load' <= Load /\ Demand' = Demand
    BY <1>b, <1>f, <1>g, <2>1, <2>2
  <2>4. Load' <= 30 * Slots + Demand'
    BY <1>b, <1>c, <2>3 DEF Backlog
  <2>5. QED
    BY <2>1, <2>4 DEF Backlog
<1>6. CASE Bursts!LosePattern
  <2>1. /\ box # <<>> /\ box' = Tail(box)
        /\ UNCHANGED <<hpc, hostLeft, sent, on, cmain, pattern_msgq, tpc,
                       taskLeft, msg, i>>
    BY <1>6 DEF Bursts!LosePattern, Bursts!Channel!Discard
  <2>2. Len(box) = Len(box') + 1
    BY <1>b, <2>1, AfterTail
  <2>3. Load' <= Load /\ Demand' = Demand
    BY <1>b, <1>c, <1>e, <1>f, <2>1, <2>2 DEF Load
  <2>4. QED
    BY <1>a, <1>b, <2>1, <2>3, BacklogStays
<1>7. CASE Bursts!MboxRxCallback
  <2>1. PICK p \in Bursts!Range(box) :
          /\ Bursts!Channel!Interrupt(p)
          /\ Bursts!PatternMsgQ!Put(p) \/ Bursts!PatternMsgQ!PutFails
    BY <1>7 DEF Bursts!MboxRxCallback
  <2>2. /\ on /\ box # <<>> /\ box' = Tail(box) /\ p = Head(box)
        /\ UNCHANGED <<hpc, hostLeft, sent, on, cmain, tpc, taskLeft, msg, i>>
    BY <1>7, <2>1 DEF Bursts!MboxRxCallback, Bursts!Channel!Interrupt
  <2>3. Len(box) = Len(box') + 1 /\ p \in Bursts!Patterns
    BY <1>b, <2>2, AfterTail
  <2>4. Len(pattern_msgq') <= Len(pattern_msgq) + 1
    <3>1. CASE Bursts!PatternMsgQ!Put(p)
      <4>1. Len(pattern_msgq') = Len(pattern_msgq) + 1
        BY <1>b, <2>3, <3>1, AppendProperties DEF Bursts!PatternMsgQ!Put
      <4>2. QED
        BY <1>b, <4>1
    <3>2. CASE Bursts!PatternMsgQ!PutFails
      BY <1>b, <3>2 DEF Bursts!PatternMsgQ!PutFails
    <3>3. QED
      BY <2>1, <3>1, <3>2
  <2>5. Load' <= Load /\ Demand' = Demand
    BY <1>b, <1>c, <1>e, <1>f, <2>2, <2>3, <2>4 DEF Load
  <2>6. QED
    BY <1>a, <1>b, <2>2, <2>5, BacklogStays
<1>8. CASE Bursts!GetPattern
  <2>1. /\ tpc = "get" /\ tpc' = "loop" /\ i' = 0
        /\ pattern_msgq # <<>> /\ pattern_msgq' = Tail(pattern_msgq)
        /\ UNCHANGED <<hpc, hostLeft, sent, box, on, cmain>>
    BY <1>8 DEF Bursts!GetPattern, Bursts!PatternMsgQ!Get
  <2>2. Len(pattern_msgq) = Len(pattern_msgq') + 1
    BY <1>b, <2>1, AfterTail
  <2>3. ToRun = 0 /\ ToRun' <= 30
    BY <1>c, <2>1 DEF ToRun, Iterations
  <2>4. Load' <= Load /\ Demand' = Demand
    BY <1>b, <1>c, <1>f, <2>1, <2>2, <2>3 DEF Load
  <2>5. on
    BY <2>1 DEF Backlog
  <2>6. QED
    BY <1>a, <1>b, <2>1, <2>4, <2>5, BacklogStays
<1>9. CASE \/ Bursts!FirstStep \/ Bursts!SecondStep \/ Bursts!NextStep
           \/ Bursts!EndPattern
  <2>1. UNCHANGED <<hpc, hostLeft, sent, box, on, cmain, pattern_msgq, msg>>
    BY <1>9 DEF Bursts!FirstStep, Bursts!SecondStep, Bursts!NextStep,
       Bursts!EndPattern
  <2>2. ToRun' <= ToRun
    <3>1. CASE Bursts!FirstStep
      <4>1. /\ tpc = "loop" /\ tpc' = "first" /\ i' = i
            /\ taskLeft' \in Nat /\ taskLeft' <= 5
        BY <1>d, <3>1 DEF Bursts!FirstStep
      <4>2. QED
        BY <1>b, <2>1, <4>1 DEF ToRun, Iterations
    <3>2. CASE Bursts!SecondStep
      <4>1. /\ tpc = "first" /\ taskLeft = 0 /\ tpc' = "second" /\ i' = i
            /\ taskLeft' \in Nat /\ taskLeft' <= 5
        BY <1>d, <3>2 DEF Bursts!SecondStep
      <4>2. Iterations' = Iterations /\ Iterations \in Int
        BY <1>b, <2>1, <4>1 DEF Iterations
      <4>3. ToRun = Iterations - 5 /\ ToRun' = Iterations - 10 + taskLeft'
        BY <4>1, <4>2 DEF ToRun
      <4>4. \A a \in Int, b \in Nat : b <= 5 => a - 10 + b <= a - 5
        OBVIOUS
      <4>5. QED
        BY <4>1, <4>2, <4>3, <4>4
    <3>3. CASE Bursts!NextStep
      <4>1. tpc = "second" /\ taskLeft = 0 /\ tpc' = "loop" /\ i' = i + 1
        BY <3>3 DEF Bursts!NextStep
      <4>2. QED
        BY <1>b, <2>1, <4>1 DEF ToRun, Iterations
    <3>4. CASE Bursts!EndPattern
      <4>1. tpc = "loop" /\ i >= msg.repeat /\ tpc' = "get"
        BY <3>4 DEF Bursts!EndPattern
      <4>2. QED
        BY <1>b, <4>1 DEF ToRun, Iterations
    <3>5. QED
      BY <1>9, <3>1, <3>2, <3>3, <3>4
  <2>3. Load' <= Load /\ Demand' = Demand
    BY <1>f, <1>g, <2>1, <2>2
  <2>4. QED
    BY <1>a, <1>b, <2>1, <2>3, BacklogStays
<1>10. CASE Bursts!Tick
  <2>1. /\ ~Bursts!Urgent
        /\ UNCHANGED <<hpc, sent, box, on, cmain, pattern_msgq, tpc, msg, i>>
    BY <1>10 DEF Bursts!Tick
  <2>2. Load' <= 30 * Slots + Demand'
    <3>1. CASE ~on
      <4>1. ToRun' = 0 /\ Len(pattern_msgq') = 0 /\ Len(box') <= Slots
        BY <1>10, <1>h, <2>1, <3>1, EmptySeq DEF Backlog, Bursts!TypeOK
      <4>2. QED
        BY <1>b, <1>c, <4>1 DEF Load
    <3>2. CASE on
      <4>1. /\ Len(box) = 0 /\ hpc = "sleep"
            /\ \/ Bursts!TaskSleeps
               \/ tpc = "get" /\ Len(pattern_msgq) = 0
        <5>1. box = <<>> /\ cmain = "ready"
          BY <2>1, <3>2 DEF Bursts!Urgent, Backlog
        <5>2. Len(box) = 0
          BY <5>1, EmptySeq
        <5>3. hpc = "sleep"
          BY <1>b, <2>1, <5>2
             DEF Bursts!Urgent, Bursts!HostCanRun, Bursts!TypeOK
        <5>4. Bursts!TaskSleeps \/ (tpc = "get" /\ pattern_msgq = <<>>)
          BY <2>1, <5>1 DEF Bursts!Urgent, Bursts!TaskCanRun,
             Bursts!TaskSleeps, Bursts!TypeOK
        <5>5. QED
          BY <5>2, <5>3, <5>4, EmptySeq
      <4>2. CASE Bursts!TaskSleeps
        <5>1. PICK d \in Nat \ {0} :
                hostLeft' = hostLeft - d /\ taskLeft' = taskLeft - d
          BY <1>10, <4>1, <4>2, BurstsTickTakes
        <5>2. ToRun' = ToRun - d
          <6>1. Iterations' = Iterations /\ Iterations \in Int
            BY <1>b, <2>1 DEF Iterations
          <6>2. tpc \in {"first", "second"} /\ tpc' = tpc
            BY <2>1, <4>2 DEF Bursts!TaskSleeps
          <6>3. QED
            BY <1>b, <5>1, <6>1, <6>2 DEF ToRun
        <5>3. Demand' = Demand - d
          BY <2>1, <4>1, <5>1 DEF Demand
        <5>4. Load' = Load - d
          BY <1>b, <2>1, <5>1, <5>2 DEF Load
        <5>5. QED
          BY <1>b, <5>1, <5>3, <5>4 DEF Backlog
      <4>3. CASE tpc = "get" /\ Len(pattern_msgq) = 0
        <5>1. ToRun' = 0 /\ Len(box') = 0 /\ Len(pattern_msgq') = 0
          BY <2>1, <4>1, <4>3 DEF ToRun
        <5>2. QED
          <6>1. Load' = 0
            BY <5>1 DEF Load
          <6>2. 30 * Slots \in Nat
            BY <1>b
          <6>3. QED
            BY <1>c, <6>1, <6>2
      <4>4. QED
        BY <4>1, <4>2, <4>3
    <3>3. QED
      BY <3>1, <3>2
  <2>3. QED
    BY <2>1, <2>2 DEF Backlog
<1>11. CASE Bursts!Rest \/ UNCHANGED Bursts!vars
  <2>1. UNCHANGED Bursts!vars
    BY <1>11 DEF Bursts!Rest
  <2>2. /\ UNCHANGED <<hpc, hostLeft, sent, box, on, cmain, pattern_msgq>>
        /\ UNCHANGED <<tpc, taskLeft, msg, i>>
    BY <2>1 DEF Bursts!vars
  <2>3. Load' <= Load /\ Demand' = Demand
    BY <1>b, <1>e, <1>f, <1>g, <2>2
  <2>4. QED
    BY <1>a, <1>b, <2>2, <2>3, BacklogStays
<1>12. QED
  BY <1>1, <1>2, <1>3, <1>4, <1>5, <1>6, <1>7, <1>8, <1>9, <1>10, <1>11
     DEF Bursts!Next, Bursts!Boot, Bursts!Work

LEMMA BacklogInit == Bursts!Init => Backlog
<1> SUFFICES ASSUME Bursts!Init PROVE Backlog
  OBVIOUS
<1>1. /\ on = FALSE /\ box = <<>> /\ pattern_msgq = <<>> /\ cmain = "boot"
      /\ tpc = "off" /\ hpc = "sleep" /\ hostLeft = 0
  BY DEF Bursts!Init, Bursts!Channel!Init, Bursts!PatternMsgQ!Init
<1>2. Len(box) = 0 /\ Len(pattern_msgq) = 0 /\ ToRun = 0 /\ Demand = 0
  BY <1>1, EmptySeq DEF ToRun, Demand
<1>3. Load <= 30 * Slots + Demand
  BY <1>2, SharedCounterAssumption DEF Load
<1>4. QED
  BY <1>1, <1>3 DEF Backlog

(* pattern_msgq has room for a burst on top of what the mailbox held back: *)
(* then every pattern that M4 hears of finds a place in it, for any number *)
(* of lost patterns and failed transfers.                                  *)
Roomy == Brisk /\ Depth >= Slots + 4

THEOREM EveryBurstFits == Roomy => (Bursts!Spec => []Bursts!EveryPatternFits)
<1>1. Roomy /\ Bursts!TypeOK /\ Iterating /\ Backlog
        => Bursts!EveryPatternFits
  <2> SUFFICES ASSUME Roomy, Bursts!TypeOK, Iterating, Backlog, on, box # <<>>,
                      Bursts!PatternMsgQ!Full
               PROVE  FALSE
    BY DEF Bursts!EveryPatternFits
  <2>1. /\ Len(box) \in Nat \ {0} /\ Len(pattern_msgq) \in Nat
        /\ Slots \in Nat /\ Depth \in Nat /\ Slack \in Nat
    BY LoadNumbers, EmptySeq, SharedCounterAssumption DEF LoadIsInt
  <2>2. 0 <= ToRun /\ ToRun \in Int
    <3>1. /\ msg.repeat \in Int /\ i \in Nat /\ i <= msg.repeat
          /\ taskLeft \in Nat /\ ToRun \in Int
      BY LoadNumbers DEF LoadIsInt
    <3>2. /\ Iterations \in Nat
          /\ tpc \in {"first", "second"} => Iterations >= 10
      BY <3>1 DEF Iterations, Iterating
    <3>3. QED
      BY <3>1, <3>2 DEF ToRun
  <2>3. Demand <= 121 /\ Demand \in Nat
    <3>1. hpc = "send" => sent < 4
      BY BurstPatterns DEF Bursts!TypeOK
    <3>2. hostLeft <= 121
      BY <2>1 DEF Bursts!TypeOK, Bursts!PAUSE, Roomy, Brisk
    <3>3. QED
      BY <3>1, <3>2, LoadNumbers DEF LoadIsInt, Demand
  <2>4. Len(pattern_msgq) >= Slots + 4
    BY <2>1 DEF Bursts!PatternMsgQ!Full, Roomy
  <2>5. 30 * (Len(box) + Len(pattern_msgq)) <= 30 * Slots + 121
    BY <2>1, <2>2, <2>3 DEF Backlog, Load
  <2>6. QED
    BY <2>1, <2>4, <2>5
<1>2. Roomy => Roomy' /\ Brisk
  BY DEF Roomy, Brisk
<1>3. Roomy /\ Bursts!Spec => [](Roomy /\ Bursts!TypeOK /\ Iterating /\ Backlog)
  BY <1>2, BacklogInit, BacklogStep, BurstsTypeInit, BurstsTypeStep, PTL
     DEF Bursts!Spec
<1>4. QED
  BY <1>1, <1>3, PTL
=============================================================================
