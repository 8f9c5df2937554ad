---------------------- MODULE ButtonPressCounterProofs ----------------------
(***************************************************************************)
(* Theorems about ButtonPressCounter and about the lab that implements it, *)
(* ButtonPong, for every capacity of the mailbox and of the queue, every   *)
(* MTU and every number of presses.                                        *)
(*                                                                         *)
(* The type invariant is not inductive: that the total never exceeds the   *)
(* presses rests on the account of the presses.                            *)
(***************************************************************************)
EXTENDS ButtonPressCounter, QueueLemmas

IInv == TypeOK /\ PressesAccounted /\ (tpc = "send" => g_total_presses > 0)

LEMMA IInvInit == Init => IInv
<1> SUFFICES ASSUME Init PROVE IInv
  OBVIOUS
<1>1. totalBox = <<>> /\ press_msgq = <<>> /\ totalOn = FALSE
  BY DEF Init, TotalChannel!Init, PressMsgQ!Init
<1>2. /\ <<>> \in Seq(1..MaxPresses) /\ <<>> \in Seq({Dummy}) /\ Len(<<>>) = 0
      /\ 0 <= Slots /\ 0 <= Depth /\ 0 \in 0..MaxPresses
  BY EmptySeq, ButtonPressCounterAssumption
<1>3. latestLost \in BOOLEAN /\ totalOn \in BOOLEAN
  BY <1>1 DEF Init
<1>4. /\ hmain = "boot" /\ shown = 0 /\ cmain = "boot" /\ tpc = "off"
      /\ g_total_presses = 0 /\ presses = 0 /\ dropped = 0
  BY DEF Init
<1>5. QED
  BY <1>1, <1>2, <1>3, <1>4 DEF IInv, TypeOK, PressesAccounted

LEMMA IInvStep == IInv /\ [Next]_vars => IInv'
<1> SUFFICES ASSUME IInv, [Next]_vars PROVE IInv'
  OBVIOUS
<1>a. /\ totalBox \in Seq(1..MaxPresses) /\ Len(totalBox) \in Nat
      /\ press_msgq \in Seq({Dummy}) /\ Len(press_msgq) \in Nat
  BY LenProperties DEF IInv, TypeOK
<1> USE <1>a, ButtonPressCounterAssumption DEF IInv, TypeOK, PressesAccounted,
      hostVars, totalVars, pressVars
<1>1. CASE HostMain
  BY <1>1 DEF HostMain, TotalChannel!Enable
<1>2. CASE HostMainFails
  BY <1>2 DEF HostMainFails
<1>3. CASE HostRxCallback
  <2>1. PICK m \in Range(totalBox) : TotalChannel!Interrupt(m) /\ shown' = m
    BY <1>3 DEF HostRxCallback
  <2>2. /\ totalBox' \in Seq(1..MaxPresses) /\ Len(totalBox') = Len(totalBox) - 1
        /\ m \in 1..MaxPresses /\ totalOn' = totalOn
    BY <2>1, HeadTailProperties DEF TotalChannel!Interrupt
  <2>3. QED
    BY <1>3, <2>1, <2>2 DEF HostRxCallback
<1>4. CASE ButtonInputCb
  <2>1. /\ presses < MaxPresses /\ presses' = presses + 1
        /\ UNCHANGED <<hostVars, totalVars, cmain, tpc, g_total_presses,
                       latestLost>>
    BY <1>4 DEF ButtonInputCb
  <2>2. CASE PressMsgQ!Put(Dummy) /\ UNCHANGED dropped
    <3>1. /\ press_msgq' \in Seq({Dummy}) /\ Len(press_msgq') = Len(press_msgq) + 1
          /\ Len(press_msgq') <= Depth
      BY <2>2, AppendProperties DEF PressMsgQ!Put, PressMsgQ!Full
    <3>2. QED
      BY <2>1, <2>2, <3>1
  <2>3. CASE PressMsgQ!PutFails /\ dropped' = dropped + 1
    BY <2>1, <2>3 DEF PressMsgQ!PutFails
  <2>4. QED
    BY <1>4, <2>2, <2>3 DEF ButtonInputCb
<1>5. CASE StartSendTask
  BY <1>5 DEF StartSendTask
<1>6. CASE GetPress
  <2>1. press_msgq' \in Seq({Dummy}) /\ Len(press_msgq') = Len(press_msgq) - 1
    BY <1>6, HeadTailProperties DEF GetPress, PressMsgQ!Get
  <2>2. Len(press_msgq') \in Nat
    BY <2>1, LenProperties
  <2>3. QED
    BY <1>6, <2>1, <2>2 DEF GetPress
<1>7. CASE SendTotal
  <2>1. CASE TotalChannel!Post(g_total_presses, MsgSize) /\ latestLost' = FALSE
    <3>1. /\ g_total_presses \in 1..MaxPresses
          /\ totalBox' = Append(totalBox, g_total_presses)
          /\ Len(totalBox) < Slots /\ totalOn' = totalOn
      BY <1>7, <2>1 DEF SendTotal, TotalChannel!Post
    <3>2. /\ totalBox' \in Seq(1..MaxPresses)
          /\ Len(totalBox') = Len(totalBox) + 1
      BY <3>1, AppendProperties
    <3>3. latestLost' \in BOOLEAN
      BY <2>1
    <3>4. /\ tpc = "send" /\ tpc' = "get"
          /\ UNCHANGED <<hostVars, cmain, press_msgq, g_total_presses, pressVars>>
      BY <1>7 DEF SendTotal
    <3>5. QED
      BY <3>1, <3>2, <3>3, <3>4
  <2>2. CASE latestLost' = TRUE /\ UNCHANGED totalVars
    BY <1>7, <2>2 DEF SendTotal
  <2>3. QED
    BY <1>7, <2>1, <2>2 DEF SendTotal
<1>8. CASE LoseTotal
  <2>1. /\ totalBox' \in Seq(1..MaxPresses) /\ Len(totalBox') = Len(totalBox) - 1
        /\ totalOn' = totalOn
    BY <1>8, HeadTailProperties DEF LoseTotal, TotalChannel!Discard
  <2>2. latestLost' \in BOOLEAN
    BY <1>8 DEF LoseTotal
  <2>3. QED
    BY <1>8, <2>1, <2>2 DEF LoseTotal
<1>9. CASE UNCHANGED vars
  BY <1>9 DEF vars
<1>10. CASE Rest
  BY <1>9, <1>10 DEF Rest
<1>11. QED
  BY <1>1, <1>2, <1>3, <1>4, <1>5, <1>6, <1>7, <1>8, <1>9, <1>10 DEF Next

LEMMA IInvAlways == Spec => []IInv
BY IInvInit, IInvStep, PTL DEF Spec

(* Type correctness; in particular, the total stays within the presses.    *)
THEOREM TypeCorrect == Spec => []TypeOK
<1>1. IInv => TypeOK
  BY DEF IInv
<1>2. QED
  BY <1>1, IInvAlways, PTL

(* A press is in the total, in the queue or dropped, whatever the sends do.*)
THEOREM NoPressUnaccounted == Spec => []PressesAccounted
<1>1. IInv => PressesAccounted
  BY DEF IInv
<1>2. QED
  BY <1>1, IInvAlways, PTL
-----------------------------------------------------------------------------
(* The latest total that was sent and not lost is on the console, or it is *)
(* the youngest in the mailbox.                                            *)
Latest ==
  tpc # "send" /\ ~latestLost =>
    IF totalBox = <<>> THEN shown = g_total_presses
    ELSE totalBox[Len(totalBox)] = g_total_presses

(* Taking the oldest of several totals leaves the youngest where it is.    *)
LEMMA YoungestStays ==
  ASSUME IInv, totalBox # <<>>, totalBox' = Tail(totalBox)
  PROVE  /\ Len(totalBox) = 1 <=> totalBox' = <<>>
         /\ totalBox' # <<>> =>
              totalBox'[Len(totalBox')] = totalBox[Len(totalBox)]
         /\ Len(totalBox) = 1 => Head(totalBox) = totalBox[Len(totalBox)]
<1>1. /\ totalBox \in Seq(1..MaxPresses) /\ Len(totalBox) \in Nat
      /\ totalBox' \in Seq(1..MaxPresses) /\ Len(totalBox') = Len(totalBox) - 1
      /\ \A i \in 1..Len(totalBox') : totalBox'[i] = totalBox[i + 1]
      /\ Head(totalBox) = totalBox[1]
  BY HeadTailProperties, LenProperties DEF IInv, TypeOK
<1>2. Len(totalBox') \in Nat /\ (totalBox' = <<>> <=> Len(totalBox') = 0)
  BY <1>1, LenProperties, EmptySeq
<1>3. QED
  BY <1>1, <1>2

LEMMA LatestStep == IInv /\ Latest /\ [Next]_vars => Latest'
<1> SUFFICES ASSUME IInv, Latest, [Next]_vars PROVE Latest'
  OBVIOUS
<1> USE DEF Latest, hostVars, totalVars, pressVars
<1>1. CASE HostMain
  BY <1>1 DEF HostMain, TotalChannel!Enable
<1>2. CASE HostMainFails
  BY <1>2 DEF HostMainFails
<1>3. CASE HostRxCallback
  <2>1. /\ totalBox # <<>> /\ totalBox' = Tail(totalBox)
        /\ shown' = Head(totalBox)
        /\ UNCHANGED <<tpc, g_total_presses, latestLost>>
    BY <1>3 DEF HostRxCallback, TotalChannel!Interrupt
  <2>2. QED
    BY <2>1, YoungestStays
<1>4. CASE ButtonInputCb
  BY <1>4 DEF ButtonInputCb
<1>5. CASE StartSendTask
  BY <1>5 DEF StartSendTask, IInv, TypeOK
<1>6. CASE GetPress
  BY <1>6 DEF GetPress
<1>7. CASE SendTotal
  <2>1. CASE TotalChannel!Post(g_total_presses, MsgSize)
    <3>1. /\ g_total_presses \in 1..MaxPresses /\ g_total_presses' = g_total_presses
          /\ totalBox' = Append(totalBox, g_total_presses)
          /\ totalBox \in Seq(1..MaxPresses) /\ Len(totalBox) \in Nat
      BY <1>7, <2>1, LenProperties, ButtonPressCounterAssumption
         DEF SendTotal, TotalChannel!Post, IInv, TypeOK
    <3>2. /\ totalBox' \in Seq(1..MaxPresses) /\ totalBox' # <<>>
          /\ totalBox'[Len(totalBox')] = g_total_presses
      BY <3>1, AppendProperties
    <3>3. QED
      BY <3>1, <3>2
  <2>2. CASE latestLost' = TRUE
    BY <2>2
  <2>3. QED
    BY <1>7, <2>1, <2>2 DEF SendTotal
<1>8. CASE LoseTotal
  <2>1. /\ totalBox # <<>> /\ totalBox' = Tail(totalBox)
        /\ UNCHANGED <<tpc, g_total_presses>>
        /\ latestLost' = (latestLost \/ Len(totalBox) = 1)
    BY <1>8 DEF LoseTotal, TotalChannel!Discard
  <2>2. QED
    BY <2>1, YoungestStays
<1>9. CASE UNCHANGED vars
  BY <1>9 DEF vars
<1>10. CASE Rest
  BY <1>9, <1>10 DEF Rest
<1>11. QED
  BY <1>1, <1>2, <1>3, <1>4, <1>5, <1>6, <1>7, <1>8, <1>9, <1>10 DEF Next

(* One total that gets through makes good for all those lost before it:    *)
(* what the lab's document gives as the reason to send totals.             *)
THEOREM ConsoleResyncs == Spec => []TotalResyncs
<1>1. Init => Latest
  BY DEF Init, Latest, TotalChannel!Init
<1>2. Latest => TotalResyncs
  BY DEF Latest, TotalResyncs
<1>3. QED
  BY <1>1, <1>2, LatestStep, IInvAlways, PTL DEF Spec
-----------------------------------------------------------------------------
(* The totals under way are ordered along their path, and are all younger  *)
(* than the one on the console.                                            *)
Boxed == Range(totalBox)
InHand == IF tpc = "send" THEN {g_total_presses} ELSE {}

PathOrdered ==
  /\ Increasing(totalBox)
  /\ Before(Boxed, InHand)
  /\ Before({shown}, InFlight)
  /\ \A n \in Boxed \cup {shown} : n <= g_total_presses

LEMMA PathNumbers ==
  ASSUME IInv
  PROVE  /\ totalBox \in Seq(Nat) /\ Boxed \subseteq Nat /\ InHand \subseteq Nat
         /\ InFlight = Boxed \cup InHand
         /\ shown \in Nat /\ g_total_presses \in Nat
<1>1. totalBox \in Seq(Nat)
  <2>1. Len(totalBox) \in Nat /\ DOMAIN totalBox = 1..Len(totalBox)
        /\ \A i \in 1..Len(totalBox) : totalBox[i] \in Nat
    BY LenProperties, ElementOfSeq, ButtonPressCounterAssumption
       DEF IInv, TypeOK
  <2>2. QED
    BY <2>1 DEF IInv, TypeOK
<1>2. QED
  BY <1>1, ButtonPressCounterAssumption
     DEF Boxed, InHand, InFlight, Range, IInv, TypeOK

(* GetPress: a new total, younger than all others, is in Send_Task's hands.*)
LEMMA GetPressMoves ==
  ASSUME IInv, GetPress
  PROVE  /\ InHand = {} /\ InHand' = {g_total_presses + 1}
         /\ g_total_presses' = g_total_presses + 1
         /\ UNCHANGED <<totalBox, Boxed, shown>>
BY DEF GetPress, InHand, Boxed, totalVars, hostVars

(* SendTotal: out of Send_Task's hands, into the mailbox or nowhere.       *)
LEMMA SendTotalMoves ==
  ASSUME IInv, Increasing(totalBox), Before(Boxed, InHand), SendTotal
  PROVE  /\ InHand = {g_total_presses} /\ InHand' = {}
         /\ Increasing(totalBox)'
         /\ \/ Boxed' = Boxed \cup {g_total_presses}
            \/ UNCHANGED Boxed
         /\ UNCHANGED <<g_total_presses, shown>>
<1>1. /\ InHand = {g_total_presses} /\ InHand' = {}
      /\ UNCHANGED <<g_total_presses, shown>>
  BY DEF SendTotal, InHand, hostVars
<1>2. CASE TotalChannel!Post(g_total_presses, MsgSize)
  <2>1. /\ totalBox' = Append(totalBox, g_total_presses)
        /\ \A n \in Range(totalBox) : n < g_total_presses
    BY <1>1, <1>2 DEF TotalChannel!Post, Before, Boxed
  <2>2. QED
    BY <1>1, <2>1, PathNumbers, RangeAppend, IncreasingAppend DEF Boxed
<1>3. CASE UNCHANGED totalVars
  BY <1>1, <1>3 DEF totalVars, Boxed
<1>4. QED
  BY <1>2, <1>3 DEF SendTotal

(* HostRxCallback and LoseTotal: the oldest leaves the mailbox.            *)
LEMMA OldestTotalLeaves ==
  ASSUME IInv, Increasing(totalBox), totalBox # <<>>, totalBox' = Tail(totalBox)
  PROVE  /\ Boxed = {Head(totalBox)} \cup Boxed'
         /\ Before({Head(totalBox)}, Boxed')
         /\ Increasing(totalBox)'
BY PathNumbers, RangeHeadTail, IncreasingTail DEF Boxed, Before

LEMMA HostRxCallbackMoves ==
  ASSUME IInv, Increasing(totalBox), HostRxCallback
  PROVE  /\ Boxed = {shown'} \cup Boxed' /\ Before({shown'}, Boxed')
         /\ Increasing(totalBox)'
         /\ UNCHANGED <<InHand, g_total_presses>>
<1>1. /\ totalBox # <<>> /\ totalBox' = Tail(totalBox)
      /\ shown' = Head(totalBox)
      /\ UNCHANGED <<InHand, g_total_presses>>
  BY DEF HostRxCallback, TotalChannel!Interrupt, InHand
<1>2. QED
  BY <1>1, OldestTotalLeaves

LEMMA LoseTotalMoves ==
  ASSUME IInv, Increasing(totalBox), LoseTotal
  PROVE  \E m \in Nat :
           /\ Boxed = {m} \cup Boxed' /\ Before({m}, Boxed')
           /\ Increasing(totalBox)'
           /\ UNCHANGED <<InHand, g_total_presses, shown>>
<1>1. /\ totalBox # <<>> /\ totalBox' = Tail(totalBox)
      /\ UNCHANGED <<InHand, g_total_presses, shown>>
  BY DEF LoseTotal, TotalChannel!Discard, InHand, hostVars
<1>2. QED
  BY <1>1, OldestTotalLeaves, PathNumbers

(* All other steps leave every total where it is.                          *)
Quiet ==
  \/ HostMain \/ HostMainFails \/ ButtonInputCb \/ StartSendTask
  \/ Rest \/ UNCHANGED vars

LEMMA QuietMoves ==
  ASSUME IInv, Quiet
  PROVE  UNCHANGED <<totalBox, Boxed, InHand, g_total_presses, shown>>
<1> USE DEF Boxed, InHand, hostVars, totalVars
<1>1. CASE HostMain
  BY <1>1 DEF HostMain, TotalChannel!Enable
<1>2. CASE HostMainFails
  BY <1>2 DEF HostMainFails
<1>3. CASE ButtonInputCb
  BY <1>3 DEF ButtonInputCb
<1>4. CASE StartSendTask
  BY <1>4 DEF StartSendTask, IInv, TypeOK
<1>5. CASE Rest \/ UNCHANGED vars
  BY <1>5 DEF Rest, vars
<1>6. QED
  BY <1>1, <1>2, <1>3, <1>4, <1>5 DEF Quiet

LEMMA PathOrderedStep == IInv /\ PathOrdered /\ [Next]_vars => PathOrdered'
<1> SUFFICES ASSUME IInv, IInv', PathOrdered, [Next]_vars PROVE PathOrdered'
  BY IInvStep
<1>a. InFlight = Boxed \cup InHand /\ InFlight' = Boxed' \cup InHand'
  BY PathNumbers DEF InFlight, Boxed, InHand
<1> USE <1>a, PathNumbers DEF PathOrdered, Before
<1>1. CASE GetPress
  <2>1. /\ InHand' = {g_total_presses + 1}
        /\ g_total_presses' = g_total_presses + 1
        /\ totalBox' = totalBox /\ Boxed' = Boxed /\ shown' = shown
    BY <1>1, GetPressMoves
  <2>2. \A n \in Boxed \cup {shown} : n < g_total_presses + 1
    OBVIOUS
  <2>3. Before(Boxed', InHand') /\ Before({shown'}, InFlight')
    BY <2>1, <2>2
  <2>4. \A n \in Boxed' \cup {shown'} : n <= g_total_presses'
    BY <2>1, <2>2
  <2>5. Increasing(totalBox)'
    BY <2>1
  <2>6. QED
    BY <2>3, <2>4, <2>5
<1>2. CASE SendTotal
  <2>1. /\ InHand = {g_total_presses} /\ InHand' = {}
        /\ Increasing(totalBox)' /\ UNCHANGED <<g_total_presses, shown>>
        /\ Boxed' \subseteq Boxed \cup {g_total_presses}
    BY <1>2, SendTotalMoves
  <2>2. InFlight' \subseteq InFlight
    BY <2>1
  <2>3. QED
    BY <2>1, <2>2
<1>3. CASE HostRxCallback
  BY <1>3, HostRxCallbackMoves
<1>4. CASE LoseTotal
  BY <1>4, LoseTotalMoves
<1>5. CASE Quiet
  BY <1>5, QuietMoves
<1>6. QED
  BY <1>1, <1>2, <1>3, <1>4, <1>5 DEF Next, Quiet

(* Each step of the two cores is a step of InOrderDelivery or leaves its   *)
(* state alone.                                                            *)
LEMMA ServiceStep ==
  IInv /\ PathOrdered /\ [Next]_vars
    => [Service!Next]_<<g_total_presses, InFlight, shown>>
<1> SUFFICES ASSUME IInv, PathOrdered, [Next]_vars
             PROVE  \/ Service!Next
                    \/ UNCHANGED <<g_total_presses, InFlight, shown>>
  OBVIOUS
<1>a. InFlight = Boxed \cup InHand /\ InFlight' = Boxed' \cup InHand'
  BY DEF InFlight, Boxed, InHand
<1>b. \A n \in InFlight : Service!Lose(n) \/ Service!Answer(n) => Service!Next
  BY DEF Service!Next
<1> USE <1>a, PathNumbers DEF PathOrdered, Before
<1>1. CASE GetPress
  <2>1. Service!Offer
    BY <1>1, GetPressMoves DEF Service!Offer
  <2>2. QED
    BY <2>1 DEF Service!Next
<1>2. CASE SendTotal
  <2>1. CASE Boxed' = Boxed \cup {g_total_presses}
    BY <1>2, <2>1, SendTotalMoves
  <2>2. CASE UNCHANGED Boxed
    <3>1. /\ InFlight' = InFlight \ {g_total_presses}
          /\ g_total_presses \in InFlight
      BY <1>2, <2>2, SendTotalMoves
    <3>2. Service!Lose(g_total_presses)
      BY <1>2, <3>1, SendTotalMoves DEF Service!Lose
    <3>3. QED
      BY <1>b, <3>1, <3>2
  <2>3. QED
    BY <1>2, <2>1, <2>2, SendTotalMoves
<1>3. CASE HostRxCallback
  <2>1. InFlight' = InFlight \ {shown'} /\ shown' \in InFlight
    BY <1>3, HostRxCallbackMoves
  <2>2. shown' > shown /\ \A m \in InFlight : shown' <= m
    <3>1. shown' \in Boxed /\ shown' \in Nat
      BY <1>3, HostRxCallbackMoves
    <3>2. \A m \in Boxed : shown' <= m
      BY <1>3, <3>1, HostRxCallbackMoves
    <3>3. \A m \in InHand : shown' <= m
      BY <3>1
    <3>4. QED
      BY <3>1, <3>2, <3>3
  <2>3. Service!Answer(shown')
    BY <1>3, <2>1, <2>2, HostRxCallbackMoves DEF Service!Answer
  <2>4. QED
    BY <1>b, <2>1, <2>3
<1>4. CASE LoseTotal
  <2>1. PICK m \in Nat :
          /\ Boxed = {m} \cup Boxed' /\ Before({m}, Boxed')
          /\ UNCHANGED <<InHand, g_total_presses, shown>>
    BY <1>4, LoseTotalMoves
  <2>2. InFlight' = InFlight \ {m} /\ m \in InFlight
    BY <2>1
  <2>3. Service!Lose(m)
    BY <2>1, <2>2 DEF Service!Lose
  <2>4. QED
    BY <1>b, <2>2, <2>3
<1>5. CASE Quiet
  BY <1>5, QuietMoves
<1>6. QED
  BY <1>1, <1>2, <1>3, <1>4, <1>5 DEF Next, Quiet

(* The host's console counts upwards, each total once and none that was not*)
(* sent, for every size of the buffers.                                    *)
THEOREM CountsUpwards == Spec => TotalsInOrder
<1>1. Init => Service!Init /\ PathOrdered
  <2> SUFFICES ASSUME Init PROVE Service!Init /\ PathOrdered
    OBVIOUS
  <2>1. totalBox = <<>> /\ tpc = "off" /\ g_total_presses = 0 /\ shown = 0
    BY DEF Init, TotalChannel!Init
  <2>2. Boxed = {} /\ InHand = {} /\ InFlight = {} /\ Increasing(totalBox)
    BY <2>1 DEF Boxed, InHand, InFlight, Range, Increasing
  <2>3. QED
    BY <2>1, <2>2 DEF Service!Init, PathOrdered, Before
<1>2. QED
  BY <1>1, PathOrderedStep, ServiceStep, IInvAlways, PTL
     DEF Spec, TotalsInOrder, Service!Spec
-----------------------------------------------------------------------------
(* Lab 02.  What it shares with lab 05 has the same names; the mailbox, the*)
(* count and the LED are its own.                                          *)
VARIABLES evtBox, evtOn, g_press_count, led1, ledError

Pong == INSTANCE ButtonPong

(* Its type invariant, too, is inductive only with the account of presses. *)
PongAccounted == presses = g_press_count + Len(press_msgq) + dropped

PongInv ==
  /\ Pong!TypeOK
  /\ PongAccounted
  /\ tpc \in {"toggle", "send"} => g_press_count > 0

LEMMA PongInvInit == Pong!Init => PongInv
<1> SUFFICES ASSUME Pong!Init PROVE PongInv
  OBVIOUS
<1>1. evtBox = <<>> /\ press_msgq = <<>> /\ evtOn = FALSE
  BY DEF Pong!Init, Pong!EvtChannel!Init, Pong!PressMsgQ!Init
<1>2. /\ <<>> \in Seq(1..MaxPresses) /\ <<>> \in Seq({Pong!Dummy})
      /\ Len(<<>>) = 0
      /\ 0 <= Slots /\ 0 <= Depth /\ 0 \in 0..MaxPresses
  BY EmptySeq, ButtonPressCounterAssumption
<1>3. latestLost \in BOOLEAN /\ evtOn \in BOOLEAN /\ led1 \in BOOLEAN
      /\ ledError \in BOOLEAN
  BY <1>1 DEF Pong!Init
<1>4. /\ hmain = "boot" /\ shown = 0 /\ cmain = "boot" /\ tpc = "off"
      /\ g_press_count = 0 /\ presses = 0 /\ dropped = 0
  BY DEF Pong!Init
<1>5. QED
  BY <1>1, <1>2, <1>3, <1>4 DEF PongInv, Pong!TypeOK, PongAccounted

LEMMA PongInvStep == PongInv /\ [Pong!Next]_(Pong!vars) => PongInv'
<1> SUFFICES ASSUME PongInv, [Pong!Next]_(Pong!vars) PROVE PongInv'
  OBVIOUS
<1>a. /\ evtBox \in Seq(1..MaxPresses) /\ Len(evtBox) \in Nat
      /\ press_msgq \in Seq({Pong!Dummy}) /\ Len(press_msgq) \in Nat
  BY LenProperties DEF PongInv, Pong!TypeOK
<1> USE <1>a, ButtonPressCounterAssumption DEF PongInv, Pong!TypeOK,
      PongAccounted, Pong!hostVars, Pong!evtVars, Pong!ledVars, Pong!pressVars
<1>1. CASE Pong!HostMain
  BY <1>1 DEF Pong!HostMain, Pong!EvtChannel!Enable
<1>2. CASE Pong!HostRxCallback
  <2>1. PICK seq \in Pong!Range(evtBox) :
          Pong!EvtChannel!Interrupt(seq) /\ shown' = seq
    BY <1>2 DEF Pong!HostRxCallback
  <2>2. /\ evtBox' \in Seq(1..MaxPresses) /\ Len(evtBox') = Len(evtBox) - 1
        /\ seq \in 1..MaxPresses /\ evtOn' = evtOn
    BY <2>1, HeadTailProperties DEF Pong!EvtChannel!Interrupt
  <2>3. QED
    BY <1>2, <2>1, <2>2 DEF Pong!HostRxCallback
<1>3. CASE Pong!ButtonInputCb
  <2>1. /\ presses < MaxPresses /\ presses' = presses + 1
        /\ UNCHANGED <<Pong!hostVars, Pong!evtVars, cmain, tpc,
                       g_press_count, Pong!ledVars, latestLost>>
    BY <1>3 DEF Pong!ButtonInputCb
  <2>2. CASE Pong!PressMsgQ!Put(Pong!Dummy) /\ UNCHANGED dropped
    <3>1. /\ press_msgq' \in Seq({Pong!Dummy})
          /\ Len(press_msgq') = Len(press_msgq) + 1
          /\ Len(press_msgq') <= Depth
      BY <2>2, AppendProperties DEF Pong!PressMsgQ!Put, Pong!PressMsgQ!Full
    <3>2. QED
      BY <2>1, <2>2, <3>1
  <2>3. CASE Pong!PressMsgQ!PutFails /\ dropped' = dropped + 1
    BY <2>1, <2>3 DEF Pong!PressMsgQ!PutFails
  <2>4. QED
    BY <1>3, <2>2, <2>3 DEF Pong!ButtonInputCb
<1>4. CASE Pong!ClientMain
  BY <1>4 DEF Pong!ClientMain
<1>5. CASE Pong!GetPress
  <2>1. /\ press_msgq' \in Seq({Pong!Dummy})
        /\ Len(press_msgq') = Len(press_msgq) - 1
    BY <1>5, HeadTailProperties DEF Pong!GetPress, Pong!PressMsgQ!Get
  <2>2. Len(press_msgq') \in Nat
    BY <2>1, LenProperties
  <2>3. QED
    BY <1>5, <2>1, <2>2 DEF Pong!GetPress
<1>6. CASE Pong!ToggleLed
  <2>1. /\ tpc = "toggle" /\ tpc' = "send"
        /\ UNCHANGED <<Pong!hostVars, Pong!evtVars, cmain, g_press_count,
                       Pong!pressVars, latestLost>>
    BY <1>6 DEF Pong!ToggleLed
  <2>2. led1' \in BOOLEAN /\ ledError' \in BOOLEAN
    BY <1>6 DEF Pong!ToggleLed
  <2>3. QED
    BY <2>1, <2>2
<1>7. CASE Pong!SendEvt
  <2>1. /\ tpc = "send" /\ tpc' = "get" /\ latestLost' \in BOOLEAN
        /\ UNCHANGED <<Pong!hostVars, cmain, g_press_count, Pong!ledVars,
                       Pong!pressVars>>
    BY <1>7 DEF Pong!SendEvt
  <2>2. CASE Pong!EvtChannel!Post(g_press_count, Pong!EvtSize)
    <3>1. /\ g_press_count \in 1..MaxPresses
          /\ evtBox' = Append(evtBox, g_press_count)
          /\ Len(evtBox) < Slots /\ evtOn' = evtOn
      BY <2>1, <2>2 DEF Pong!EvtChannel!Post
    <3>2. /\ evtBox' \in Seq(1..MaxPresses) /\ Len(evtBox') = Len(evtBox) + 1
      BY <3>1, AppendProperties
    <3>3. QED
      BY <2>1, <3>1, <3>2
  <2>3. CASE UNCHANGED Pong!evtVars
    BY <2>1, <2>3
  <2>4. QED
    BY <1>7, <2>2, <2>3 DEF Pong!SendEvt
<1>8. CASE Pong!LoseEvt
  <2>1. /\ evtBox' \in Seq(1..MaxPresses) /\ Len(evtBox') = Len(evtBox) - 1
        /\ evtOn' = evtOn /\ latestLost' \in BOOLEAN
    BY <1>8, HeadTailProperties DEF Pong!LoseEvt, Pong!EvtChannel!Discard
  <2>2. QED
    BY <1>8, <2>1 DEF Pong!LoseEvt
<1>9. CASE UNCHANGED Pong!vars
  BY <1>9 DEF Pong!vars
<1>10. CASE Pong!Rest
  BY <1>9, <1>10 DEF Pong!Rest
<1>11. QED
  BY <1>1, <1>2, <1>3, <1>4, <1>5, <1>6, <1>7, <1>8, <1>9, <1>10 DEF Pong!Next

LEMMA PongInvAlways == Pong!Spec => []PongInv
BY PongInvInit, PongInvStep, PTL DEF Pong!Spec

(* Type correctness; in particular, the seq stays within the presses.      *)
THEOREM PongTypeCorrect == Pong!Spec => []Pong!TypeOK
<1>1. PongInv => Pong!TypeOK
  BY DEF PongInv
<1>2. QED
  BY <1>1, PongInvAlways, PTL
-----------------------------------------------------------------------------
(* Each step is a step of lab 05's press counter or leaves its state alone:*)
(* counting and toggling together are its GetPress, and a client that does *)
(* not start is one that has not started yet.                              *)
LEMMA CounterStep ==
  PongInv /\ [Pong!Next]_(Pong!vars)
    => [Pong!Counter!Next]_(Pong!Counter!vars)
<1> SUFFICES ASSUME PongInv, [Pong!Next]_(Pong!vars)
             PROVE  Pong!Counter!Next \/ UNCHANGED Pong!Counter!vars
  OBVIOUS
<1> USE DEF Pong!hostVars, Pong!evtVars, Pong!ledVars, Pong!pressVars,
      Pong!Counter!hostVars, Pong!Counter!totalVars, Pong!Counter!pressVars,
      Pong!Counter!vars
<1>1. CASE Pong!HostMain
  <2>1. Pong!Counter!HostMain \/ Pong!Counter!HostMainFails
    BY <1>1 DEF Pong!HostMain, Pong!EvtChannel!Enable, Pong!Counter!HostMain,
       Pong!Counter!HostMainFails, Pong!Counter!TotalChannel!Enable
  <2>2. QED
    BY <2>1 DEF Pong!Counter!Next
<1>2. CASE Pong!HostRxCallback
  <2>1. Pong!Counter!HostRxCallback
    BY <1>2 DEF Pong!HostRxCallback, Pong!EvtChannel!Interrupt,
       Pong!Counter!HostRxCallback, Pong!Counter!TotalChannel!Interrupt,
       Pong!Range, Pong!Counter!Range
  <2>2. QED
    BY <2>1 DEF Pong!Counter!Next
<1>3. CASE Pong!ButtonInputCb
  <2>1. Pong!Counter!ButtonInputCb
    BY <1>3 DEF Pong!ButtonInputCb, Pong!PressMsgQ!Put,
       Pong!PressMsgQ!PutFails, Pong!PressMsgQ!Full,
       Pong!Counter!ButtonInputCb, Pong!Counter!PressMsgQ!Put,
       Pong!Counter!PressMsgQ!PutFails, Pong!Counter!PressMsgQ!Full,
       Pong!Dummy, Pong!Counter!Dummy
  <2>2. QED
    BY <2>1 DEF Pong!Counter!Next
<1>4. CASE Pong!ClientMain
  <2>1. CASE cmain' = "ready" /\ tpc' = "get"
    <3>1. Pong!Counter!StartSendTask
      BY <1>4, <2>1 DEF Pong!ClientMain, Pong!Counter!StartSendTask
    <3>2. QED
      BY <3>1 DEF Pong!Counter!Next
  <2>2. CASE cmain' = "halted" /\ UNCHANGED tpc
    BY <1>4, <2>2 DEF Pong!ClientMain
  <2>3. QED
    BY <1>4, <2>1, <2>2 DEF Pong!ClientMain
<1>5. CASE Pong!GetPress
  <2>1. Pong!Counter!GetPress
    BY <1>5 DEF Pong!GetPress, Pong!PressMsgQ!Get, Pong!Counter!GetPress,
       Pong!Counter!PressMsgQ!Get, Pong!Dummy, Pong!Counter!Dummy
  <2>2. QED
    BY <2>1 DEF Pong!Counter!Next
<1>6. CASE Pong!ToggleLed
  BY <1>6 DEF Pong!ToggleLed
<1>7. CASE Pong!SendEvt
  <2>1. Pong!Counter!SendTotal
    BY <1>7 DEF Pong!SendEvt, Pong!EvtChannel!Post, Pong!EvtSize,
       Pong!Counter!SendTotal, Pong!Counter!TotalChannel!Post,
       Pong!Counter!MsgSize
  <2>2. QED
    BY <2>1 DEF Pong!Counter!Next
<1>8. CASE Pong!LoseEvt
  <2>1. Pong!Counter!LoseTotal
    BY <1>8 DEF Pong!LoseEvt, Pong!EvtChannel!Discard, Pong!Counter!LoseTotal,
       Pong!Counter!TotalChannel!Discard
  <2>2. QED
    BY <2>1 DEF Pong!Counter!Next
<1>9. CASE Pong!Rest \/ UNCHANGED Pong!vars
  BY <1>9 DEF Pong!Rest, Pong!vars
<1>10. QED
  BY <1>1, <1>2, <1>3, <1>4, <1>5, <1>6, <1>7, <1>8, <1>9 DEF Pong!Next

(* The client of lab 02 implements that of lab 05, for every size of the   *)
(* buffers.                                                                *)
THEOREM ImplementsCounter == Pong!Spec => Pong!CounterSpec
<1>1. Pong!Init => Pong!Counter!Init
  BY DEF Pong!Init, Pong!EvtChannel!Init, Pong!PressMsgQ!Init,
     Pong!Counter!Init, Pong!Counter!TotalChannel!Init,
     Pong!Counter!PressMsgQ!Init
<1>2. QED
  BY <1>1, CounterStep, PongInvAlways, PTL DEF Pong!Spec, Pong!CounterSpec,
     Pong!Counter!Spec
-----------------------------------------------------------------------------
(* The presses Button_Task has toggled LED1 for.                           *)
Toggled == IF tpc = "toggle" THEN g_press_count - 1 ELSE g_press_count
Odd(n) == n % 2 = 1

(* LED1 has the parity of the toggles, and the latest event that was not   *)
(* lost is on the console or the youngest in the mailbox.                  *)
LedParity == ~ledError => led1 = Odd(Toggled)
LatestEvt ==
  tpc \notin {"toggle", "send"} /\ ~latestLost =>
    IF evtBox = <<>> THEN shown = g_press_count
    ELSE evtBox[Len(evtBox)] = g_press_count

LEMMA OddFlips == ASSUME NEW n \in Nat PROVE Odd(n + 1) = ~Odd(n)
BY DEF Odd

LEMMA OddZero == Odd(0) = FALSE
BY DEF Odd

LEMMA LedParityStep ==
  PongInv /\ LedParity /\ [Pong!Next]_(Pong!vars) => LedParity'
<1> SUFFICES ASSUME PongInv, LedParity, [Pong!Next]_(Pong!vars)
             PROVE  LedParity'
  OBVIOUS
<1>a. g_press_count \in Nat /\ led1 \in BOOLEAN
  BY ButtonPressCounterAssumption DEF PongInv, Pong!TypeOK
<1>1. CASE Pong!GetPress
  <2>1. Toggled' = Toggled /\ UNCHANGED <<led1, ledError>>
    BY <1>a, <1>1 DEF Pong!GetPress, Toggled, Pong!ledVars
  <2>2. QED
    BY <2>1 DEF LedParity
<1>2. CASE Pong!ToggleLed
  <2>1. CASE led1' = ~led1 /\ UNCHANGED ledError
    <3>1. Toggled \in Nat /\ Toggled' = Toggled + 1
      BY <1>a, <1>2 DEF Pong!ToggleLed, Toggled, PongInv
    <3>2. Odd(Toggled') = ~Odd(Toggled)
      BY <3>1, OddFlips
    <3>3. QED
      BY <2>1, <3>2 DEF LedParity, Odd
  <2>2. CASE ledError' = TRUE
    BY <2>2 DEF LedParity
  <2>3. QED
    BY <1>2, <2>1, <2>2 DEF Pong!ToggleLed
<1>3. CASE \/ Pong!HostMain \/ Pong!HostRxCallback \/ Pong!ButtonInputCb
           \/ Pong!ClientMain \/ Pong!SendEvt \/ Pong!LoseEvt \/ Pong!Rest
           \/ UNCHANGED Pong!vars
  <2>1. UNCHANGED <<g_press_count, led1, ledError>>
    BY <1>3 DEF Pong!vars, Pong!ledVars, Pong!HostMain, Pong!HostRxCallback,
       Pong!ButtonInputCb, Pong!ClientMain, Pong!SendEvt, Pong!LoseEvt,
       Pong!Rest
  <2>2. tpc = "toggle" <=> tpc' = "toggle"
    BY <1>3 DEF PongInv, Pong!TypeOK, Pong!vars, Pong!HostMain,
       Pong!HostRxCallback, Pong!ButtonInputCb, Pong!ClientMain, Pong!SendEvt,
       Pong!LoseEvt, Pong!Rest
  <2>3. Toggled' = Toggled
    BY <2>1, <2>2 DEF Toggled
  <2>4. QED
    BY <2>1, <2>3 DEF LedParity
<1>4. QED
  BY <1>1, <1>2, <1>3 DEF Pong!Next

(* Taking the oldest of several events leaves the youngest where it is.    *)
LEMMA YoungestEvtStays ==
  ASSUME PongInv, evtBox # <<>>, evtBox' = Tail(evtBox)
  PROVE  /\ Len(evtBox) = 1 <=> evtBox' = <<>>
         /\ evtBox' # <<>> => evtBox'[Len(evtBox')] = evtBox[Len(evtBox)]
         /\ Len(evtBox) = 1 => Head(evtBox) = evtBox[Len(evtBox)]
<1>1. /\ evtBox \in Seq(1..MaxPresses) /\ Len(evtBox) \in Nat
      /\ evtBox' \in Seq(1..MaxPresses) /\ Len(evtBox') = Len(evtBox) - 1
      /\ \A i \in 1..Len(evtBox') : evtBox'[i] = evtBox[i + 1]
      /\ Head(evtBox) = evtBox[1]
  BY HeadTailProperties, LenProperties DEF PongInv, Pong!TypeOK
<1>2. Len(evtBox') \in Nat /\ (evtBox' = <<>> <=> Len(evtBox') = 0)
  BY <1>1, LenProperties, EmptySeq
<1>3. QED
  BY <1>1, <1>2

LEMMA LatestEvtStep ==
  PongInv /\ LatestEvt /\ [Pong!Next]_(Pong!vars) => LatestEvt'
<1> SUFFICES ASSUME PongInv, LatestEvt, [Pong!Next]_(Pong!vars)
             PROVE  LatestEvt'
  OBVIOUS
<1> USE DEF LatestEvt, Pong!hostVars, Pong!evtVars, Pong!pressVars,
      Pong!ledVars
<1>1. CASE Pong!HostMain
  BY <1>1 DEF Pong!HostMain, Pong!EvtChannel!Enable
<1>2. CASE Pong!HostRxCallback
  <2>1. /\ evtBox # <<>> /\ evtBox' = Tail(evtBox) /\ shown' = Head(evtBox)
        /\ UNCHANGED <<tpc, g_press_count, latestLost>>
    BY <1>2 DEF Pong!HostRxCallback, Pong!EvtChannel!Interrupt
  <2>2. QED
    BY <2>1, YoungestEvtStays
<1>3. CASE Pong!ButtonInputCb
  BY <1>3 DEF Pong!ButtonInputCb
<1>4. CASE Pong!ClientMain
  BY <1>4 DEF Pong!ClientMain, PongInv, Pong!TypeOK
<1>5. CASE Pong!GetPress
  BY <1>5 DEF Pong!GetPress
<1>6. CASE Pong!ToggleLed
  BY <1>6 DEF Pong!ToggleLed
<1>7. CASE Pong!SendEvt
  <2>1. CASE Pong!EvtChannel!Post(g_press_count, Pong!EvtSize)
    <3>1. /\ g_press_count \in 1..MaxPresses /\ g_press_count' = g_press_count
          /\ evtBox' = Append(evtBox, g_press_count)
          /\ evtBox \in Seq(1..MaxPresses) /\ Len(evtBox) \in Nat
      BY <1>7, <2>1, LenProperties, ButtonPressCounterAssumption
         DEF Pong!SendEvt, Pong!EvtChannel!Post, PongInv, Pong!TypeOK
    <3>2. /\ evtBox' \in Seq(1..MaxPresses) /\ evtBox' # <<>>
          /\ evtBox'[Len(evtBox')] = g_press_count
      BY <3>1, AppendProperties
    <3>3. QED
      BY <3>1, <3>2
  <2>2. CASE latestLost' = TRUE
    BY <2>2
  <2>3. QED
    BY <1>7, <2>1, <2>2 DEF Pong!SendEvt
<1>8. CASE Pong!LoseEvt
  <2>1. /\ evtBox # <<>> /\ evtBox' = Tail(evtBox)
        /\ UNCHANGED <<tpc, g_press_count>>
        /\ latestLost' = (latestLost \/ Len(evtBox) = 1)
    BY <1>8 DEF Pong!LoseEvt, Pong!EvtChannel!Discard
  <2>2. QED
    BY <2>1, YoungestEvtStays
<1>9. CASE Pong!Rest \/ UNCHANGED Pong!vars
  BY <1>9 DEF Pong!Rest, Pong!vars
<1>10. QED
  BY <1>1, <1>2, <1>3, <1>4, <1>5, <1>6, <1>7, <1>8, <1>9 DEF Pong!Next

(* However many events were lost and presses dropped, the latest event that*)
(* got through tells the host LED1, as long as no toggle failed.           *)
THEOREM LedFollowsConsole == Pong!Spec => []Pong!LedMatchesConsole
<1>1. Pong!Init => LedParity /\ LatestEvt
  <2> SUFFICES ASSUME Pong!Init PROVE LedParity /\ LatestEvt
    OBVIOUS
  <2>1. Toggled = 0 /\ led1 = FALSE
    BY DEF Pong!Init, Toggled
  <2>2. LedParity
    BY <2>1, OddZero DEF LedParity
  <2>3. QED
    BY <2>2 DEF Pong!Init, LatestEvt, Pong!EvtChannel!Init
<1>2. LedParity /\ LatestEvt => Pong!LedMatchesConsole
  BY DEF LedParity, LatestEvt, Pong!LedMatchesConsole, Toggled, Odd
<1>3. QED
  BY <1>1, <1>2, LedParityStep, LatestEvtStep, PongInvAlways, PTL DEF Pong!Spec
=============================================================================
