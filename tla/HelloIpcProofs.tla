--------------------------- MODULE HelloIpcProofs ---------------------------
(***************************************************************************)
(* Theorems about HelloIpc, for every capacity of the mailbox and of the   *)
(* queue, every MTU and every number of pings.                             *)
(***************************************************************************)
EXTENDS HelloIpc, QueueLemmas

LEMMA TypeInit == Init => TypeOK
<1> SUFFICES ASSUME Init PROVE TypeOK
  OBVIOUS
<1>1. pingBox = <<>> /\ ackBox = <<>> /\ rx_msgq = <<>> /\ pingOn = FALSE
      /\ ackOn = FALSE
  BY DEF Init, PingChannel!Init, AckChannel!Init, RxMsgQ!Init
<1>2. /\ <<>> \in Seq(Nat) /\ <<>> \in Seq(Ack) /\ Len(<<>>) = 0
      /\ 0 <= Slots /\ 0 <= Depth /\ 0 \in 0..MaxSeq
  BY EmptySeq, HelloIpcAssumption
<1>3. ack \in Ack
  BY DEF Init, Ack, LedRet
<1>4. QED
  BY <1>1, <1>2, <1>3 DEF Init, TypeOK

(* Each action keeps the type invariant; only the actions that fill or     *)
(* empty a buffer need facts about sequences.                              *)
LEMMA TypeStep == TypeOK /\ [Next]_vars => TypeOK'
<1> SUFFICES ASSUME TypeOK, [Next]_vars PROVE TypeOK'
  OBVIOUS
<1> USE HelloIpcAssumption DEF TypeOK, hostVars, pingVars, ackVars, bootVars,
      queueVars, taskVars, consoleVars, faultVars
<1>1. CASE HostMain
  BY <1>1 DEF HostMain, AckChannel!Enable
<1>2. CASE HostMainFails
  BY <1>2 DEF HostMainFails
<1>3. CASE HostPing
  BY <1>3 DEF HostPing
<1>4. CASE SendPing
  <2>1. /\ pingBox' = Append(pingBox, seq) /\ Len(pingBox) < Slots
        /\ seq \in Nat
    BY <1>4 DEF SendPing, PingChannel!Post
  <2>2. pingBox' \in Seq(Nat) /\ Len(pingBox') = Len(pingBox) + 1
    BY <2>1, AppendProperties
  <2>3. QED
    BY <1>4, <2>1, <2>2, LenProperties DEF SendPing, PingChannel!Post
<1>5. CASE SendPingFails
  BY <1>5 DEF SendPingFails
<1>6. CASE MboxAckRxCallback
  <2>1. PICK a \in Range(ackBox) :
          /\ AckChannel!Interrupt(a)
          /\ acked' = acked + 1
          /\ lastAck' = a.seq
          /\ console' = IF a.led_ret = "ok" THEN ~console ELSE console
          /\ UNCHANGED <<hostVars, pingVars, bootVars, queueVars, taskVars,
                         faultVars>>
    BY <1>6 DEF MboxAckRxCallback
  <2>2. /\ ackBox' \in Seq(Ack) /\ Len(ackBox') = Len(ackBox) - 1
        /\ a \in Ack /\ ackOn' = ackOn
    BY <2>1, HeadTailProperties DEF AckChannel!Interrupt
  <2>3. Len(ackBox') \in Nat /\ a.seq \in Nat
    BY <2>2, LenProperties DEF Ack
  <2>4. console' \in BOOLEAN
    BY <2>1
  <2>5. QED
    BY <2>1, <2>2, <2>3, <2>4, LenProperties
<1>7. CASE M4Main
  BY <1>7 DEF M4Main, PingChannel!Enable
<1>8. CASE M4MainFails
  BY <1>8 DEF M4MainFails
<1>9. CASE StartToggleTask
  BY <1>9 DEF StartToggleTask
<1>10. CASE LosePing
  <2>1. pingBox' \in Seq(Nat) /\ Len(pingBox') = Len(pingBox) - 1
    BY <1>10, HeadTailProperties DEF LosePing, PingChannel!Discard
  <2>2. QED
    BY <1>10, <2>1, LenProperties DEF LosePing, PingChannel!Discard
<1>11. CASE MboxRxCallback
  <2>1. PICK m \in Range(pingBox) :
          /\ PingChannel!Interrupt(m)
          /\ \/ RxMsgQ!Put(m) /\ UNCHANGED g_msgq_drop_count
             \/ RxMsgQ!PutFails /\ g_msgq_drop_count' = g_msgq_drop_count + 1
          /\ UNCHANGED <<hostVars, ackVars, bootVars, taskVars, consoleVars,
                         faultVars>>
    BY <1>11 DEF MboxRxCallback
  <2>2. /\ pingBox' \in Seq(Nat) /\ Len(pingBox') = Len(pingBox) - 1
        /\ m \in Nat /\ pingOn' = pingOn
    BY <2>1, HeadTailProperties DEF PingChannel!Interrupt
  <2>3. rx_msgq' \in Seq(Nat) /\ Len(rx_msgq') <= Depth
        /\ g_msgq_drop_count' \in Nat
    <3>1. CASE RxMsgQ!Put(m) /\ UNCHANGED g_msgq_drop_count
      BY <2>2, <3>1, AppendProperties, LenProperties
         DEF RxMsgQ!Put, RxMsgQ!Full
    <3>2. CASE RxMsgQ!PutFails /\ g_msgq_drop_count' = g_msgq_drop_count + 1
      BY <3>2 DEF RxMsgQ!PutFails
    <3>3. QED
      BY <2>1, <3>1, <3>2
  <2>4. QED
    BY <2>1, <2>2, <2>3, LenProperties
<1>12. CASE GetPing
  <2>1. PICK m \in Range(rx_msgq) : RxMsgQ!Get(m) /\ msg' = m
    BY <1>12 DEF GetPing
  <2>2. rx_msgq' \in Seq(Nat) /\ Len(rx_msgq') = Len(rx_msgq) - 1 /\ m \in Nat
    BY <2>1, HeadTailProperties DEF RxMsgQ!Get
  <2>3. QED
    BY <1>12, <2>1, <2>2, LenProperties DEF GetPing
<1>13. CASE ToggleLed
  <2>1. ack' \in Ack
    BY <1>13 DEF ToggleLed, Ack, LedRet
  <2>2. led0' \in BOOLEAN /\ blurred' \in BOOLEAN
    BY <1>13 DEF ToggleLed
  <2>3. /\ tpc = "toggle" /\ tpc' = "reply"
        /\ UNCHANGED <<hostVars, pingVars, ackVars, bootVars, queueVars, msg,
                        consoleVars, lost>>
    BY <1>13 DEF ToggleLed
  <2>4. QED
    BY <2>1, <2>2, <2>3
<1>14. CASE SendAck
  <2>1. ackBox' \in Seq(Ack) /\ Len(ackBox') = Len(ackBox) + 1
        /\ Len(ackBox) < Slots
    BY <1>14, AppendProperties DEF SendAck, AckChannel!Post
  <2>2. QED
    BY <1>14, <2>1, LenProperties DEF SendAck, AckChannel!Post
<1>15. CASE SendAckFails
  BY <1>15 DEF SendAckFails
<1>16. CASE UNCHANGED vars
  BY <1>16 DEF vars
<1>17. CASE Rest
  BY <1>16, <1>17 DEF Rest
<1>18. QED
  BY <1>1, <1>2, <1>3, <1>4, <1>5, <1>6, <1>7, <1>8, <1>9, <1>10, <1>11,
     <1>12, <1>13, <1>14, <1>15, <1>16, <1>17 DEF Next

(* The type invariant of the two cores holds in every reachable state.     *)
THEOREM TypeCorrect == Spec => []TypeOK
BY TypeInit, TypeStep, PTL DEF Spec
-----------------------------------------------------------------------------
(* What the operations of the mailbox and of the queue do to the number of *)
(* messages they hold.                                                     *)
LEMMA Lengths ==
  ASSUME TypeOK
  PROVE  /\ Len(pingBox) \in Nat /\ Len(ackBox) \in Nat /\ Len(rx_msgq) \in Nat
         /\ \A m, size : PingChannel!Post(m, size) =>
              Len(pingBox') = Len(pingBox) + 1
         /\ \A m : PingChannel!Interrupt(m) => Len(pingBox') = Len(pingBox) - 1
         /\ PingChannel!Discard => Len(pingBox') = Len(pingBox) - 1
         /\ \A a \in Ack : \A size : AckChannel!Post(a, size) =>
              Len(ackBox') = Len(ackBox) + 1
         /\ \A a : AckChannel!Interrupt(a) => Len(ackBox') = Len(ackBox) - 1
         /\ \A m : RxMsgQ!Put(m) => Len(rx_msgq') = Len(rx_msgq) + 1
         /\ \A m : RxMsgQ!Get(m) => Len(rx_msgq') = Len(rx_msgq) - 1
<1>1. Len(pingBox) \in Nat /\ Len(ackBox) \in Nat /\ Len(rx_msgq) \in Nat
  BY LenProperties DEF TypeOK
<1>2. \A m, size : PingChannel!Post(m, size) =>
        Len(pingBox') = Len(pingBox) + 1
  BY DEF PingChannel!Post, TypeOK
<1>3. \A m : PingChannel!Interrupt(m) => Len(pingBox') = Len(pingBox) - 1
  BY HeadTailProperties DEF PingChannel!Interrupt, TypeOK
<1>4. PingChannel!Discard => Len(pingBox') = Len(pingBox) - 1
  BY HeadTailProperties DEF PingChannel!Discard, TypeOK
<1>5. \A a \in Ack : \A size : AckChannel!Post(a, size) =>
        Len(ackBox') = Len(ackBox) + 1
  BY AppendProperties DEF AckChannel!Post, TypeOK
<1>6. \A a : AckChannel!Interrupt(a) => Len(ackBox') = Len(ackBox) - 1
  BY HeadTailProperties DEF AckChannel!Interrupt, TypeOK
<1>7. \A m : RxMsgQ!Put(m) => Len(rx_msgq') = Len(rx_msgq) + 1
  BY DEF RxMsgQ!Put, TypeOK
<1>8. \A m : RxMsgQ!Get(m) => Len(rx_msgq') = Len(rx_msgq) - 1
  BY HeadTailProperties DEF RxMsgQ!Get, TypeOK
<1>9. QED
  BY <1>1, <1>2, <1>3, <1>4, <1>5, <1>6, <1>7, <1>8

LEMMA AccountedInit == Init => Accounted
BY EmptySeq DEF Init, Accounted, One, InTask, PingChannel!Init,
   AckChannel!Init, RxMsgQ!Init

(* Every action moves one ping from one place of the account to another.   *)
LEMMA AccountedStep == TypeOK /\ Accounted /\ [Next]_vars => Accounted'
<1> SUFFICES ASSUME TypeOK, Accounted, [Next]_vars PROVE Accounted'
  OBVIOUS
<1>a. /\ Len(pingBox) \in Nat /\ Len(ackBox) \in Nat /\ Len(rx_msgq) \in Nat
      /\ seq \in Nat /\ acked \in Nat /\ lost \in Nat
      /\ g_msgq_drop_count \in Nat
  BY Lengths, HelloIpcAssumption DEF TypeOK
<1> USE <1>a DEF Accounted, One, InTask, hostVars, pingVars, ackVars, bootVars,
      queueVars, taskVars, consoleVars, faultVars
<1>1. CASE HostMain
  BY <1>1 DEF HostMain, AckChannel!Enable
<1>2. CASE HostMainFails
  BY <1>2 DEF HostMainFails
<1>3. CASE HostPing
  BY <1>3 DEF HostPing
<1>4. CASE SendPing
  <2>1. Len(pingBox') = Len(pingBox) + 1
    BY <1>4, Lengths DEF SendPing
  <2>2. QED
    BY <1>4, <2>1 DEF SendPing
<1>5. CASE SendPingFails
  BY <1>5 DEF SendPingFails
<1>6. CASE MboxAckRxCallback
  <2>1. /\ Len(ackBox') = Len(ackBox) - 1
        /\ acked' = acked + 1
        /\ UNCHANGED <<hostVars, pingVars, bootVars, queueVars, taskVars,
                       faultVars>>
    BY <1>6, Lengths DEF MboxAckRxCallback
  <2>2. QED
    BY <2>1
<1>7. CASE M4Main
  BY <1>7 DEF M4Main, PingChannel!Enable
<1>8. CASE M4MainFails
  BY <1>8 DEF M4MainFails
<1>9. CASE StartToggleTask
  <2>1. tpc \notin {"toggle", "reply"}
    BY <1>9 DEF StartToggleTask, TypeOK
  <2>2. QED
    BY <1>9, <2>1 DEF StartToggleTask
<1>10. CASE LosePing
  <2>1. Len(pingBox') = Len(pingBox) - 1
    BY <1>10, Lengths DEF LosePing
  <2>2. QED
    BY <1>10, <2>1 DEF LosePing
<1>11. CASE MboxRxCallback
  <2>1. /\ Len(pingBox') = Len(pingBox) - 1
        /\ UNCHANGED <<hostVars, ackVars, bootVars, taskVars, consoleVars,
                       faultVars>>
    BY <1>11, Lengths DEF MboxRxCallback
  <2>2. CASE /\ Len(rx_msgq') = Len(rx_msgq) + 1
             /\ UNCHANGED g_msgq_drop_count
    BY <2>1, <2>2
  <2>3. CASE /\ rx_msgq' = rx_msgq
             /\ g_msgq_drop_count' = g_msgq_drop_count + 1
    BY <2>1, <2>3
  <2>4. QED
    BY <1>11, <2>2, <2>3, Lengths DEF MboxRxCallback, RxMsgQ!PutFails
<1>12. CASE GetPing
  <2>1. Len(rx_msgq') = Len(rx_msgq) - 1
    BY <1>12, Lengths DEF GetPing
  <2>2. QED
    BY <1>12, <2>1 DEF GetPing
<1>13. CASE ToggleLed
  BY <1>13 DEF ToggleLed
<1>14. CASE SendAck
  <2>1. Len(ackBox') = Len(ackBox) + 1
    BY <1>14, Lengths DEF SendAck, TypeOK
  <2>2. QED
    BY <1>14, <2>1 DEF SendAck
<1>15. CASE SendAckFails
  BY <1>15 DEF SendAckFails
<1>16. CASE UNCHANGED vars
  BY <1>16 DEF vars
<1>17. CASE Rest
  BY <1>16, <1>17 DEF Rest
<1>18. QED
  BY <1>1, <1>2, <1>3, <1>4, <1>5, <1>6, <1>7, <1>8, <1>9, <1>10, <1>11,
     <1>12, <1>13, <1>14, <1>15, <1>16, <1>17 DEF Next

(* No ping vanishes without a trace and none is answered twice, however    *)
(* long the run and whatever the sizes of the buffers: the host's counter  *)
(* is the sum of the acked, the lost, the dropped and the waiting pings.   *)
THEOREM NothingUnaccounted == Spec => []Accounted
<1>1. Init => TypeOK /\ Accounted
  BY TypeInit, AccountedInit
<1>2. TypeOK /\ Accounted /\ [Next]_vars => TypeOK' /\ Accounted'
  BY TypeStep, AccountedStep
<1>3. QED
  BY <1>1, <1>2, PTL DEF Spec
-----------------------------------------------------------------------------
LEMMA HostListensStep == HostListens /\ [Next]_vars => HostListens'
<1> SUFFICES ASSUME HostListens, [Next]_vars PROVE HostListens'
  OBVIOUS
<1> USE DEF HostListens, hostVars, ackVars
<1>1. CASE HostMain \/ HostMainFails \/ HostPing \/ SendPing \/ SendPingFails
  BY <1>1 DEF HostMain, HostMainFails, HostPing, SendPing, SendPingFails,
     AckChannel!Enable
<1>2. CASE MboxAckRxCallback \/ SendAck
  BY <1>2 DEF MboxAckRxCallback, SendAck, AckChannel!Interrupt,
     AckChannel!Post
<1>3. CASE \/ M4Main \/ M4MainFails \/ StartToggleTask \/ LosePing
           \/ MboxRxCallback \/ GetPing \/ ToggleLed \/ SendAckFails
  BY <1>3 DEF M4Main, M4MainFails, StartToggleTask, LosePing, MboxRxCallback,
     GetPing, ToggleLed, SendAckFails
<1>4. CASE UNCHANGED vars \/ Rest
  BY <1>4 DEF vars, Rest
<1>5. QED
  BY <1>1, <1>2, <1>3, <1>4 DEF Next

(* The client never has an ack to send, nor one under way, that the host   *)
(* has not enabled its channel for: a host that enables before it pings    *)
(* needs no sleep to order the two boots.                                  *)
THEOREM NoAckUnheard == Spec => []AcksAreHeard
<1>1. Init => HostListens
  BY DEF Init, HostListens
<1>2. TypeOK /\ Accounted /\ HostListens => AcksAreHeard
  <2> SUFFICES ASSUME TypeOK, Accounted, HostListens, ~ackOn,
                      ackBox # <<>> \/ tpc = "reply"
               PROVE  FALSE
    BY DEF AcksAreHeard
  <2>1. seq = 0
    BY DEF HostListens
  <2>2. /\ Len(pingBox) \in Nat /\ Len(ackBox) \in Nat /\ Len(rx_msgq) \in Nat
        /\ acked \in Nat /\ lost \in Nat /\ g_msgq_drop_count \in Nat
    BY Lengths DEF TypeOK
  <2>3. Len(ackBox) = 0 /\ ~InTask
    BY <2>1, <2>2 DEF Accounted, One
  <2>4. QED
    BY <2>3, EmptySeq DEF TypeOK, InTask
<1>3. QED
  BY <1>1, <1>2, HostListensStep, TypeCorrect, NothingUnaccounted, PTL
     DEF Spec
-----------------------------------------------------------------------------
(* The path of a ping.  One lemma per action that moves pings says between *)
(* which stages of the path it moves which ping; both the order invariant  *)
(* and the refinement rest on these lemmas and need no more of the actions.*)

LEMMA StagesAreNumbers ==
  ASSUME TypeOK
  PROVE  /\ Answering \subseteq Nat /\ Toggling \subseteq Nat
         /\ Queued \subseteq Nat /\ Boxed \subseteq Nat
         /\ Sending \subseteq Nat /\ seq \in Nat /\ lastAck \in Nat
         /\ Seqs(ackBox) \in Seq(Nat)
<1>1. \A r \in Ack : r.seq \in Nat
  BY DEF Ack
<1>2. Seqs(ackBox) \in Seq(Nat)
  <2>1. Len(ackBox) \in Nat /\ DOMAIN ackBox = 1..Len(ackBox)
        /\ \A i \in 1..Len(ackBox) : ackBox[i] \in Ack
    BY LenProperties, ElementOfSeq DEF TypeOK
  <2>2. QED
    BY <1>1, <2>1 DEF Seqs
<1>3. \A s \in Seq(Nat) : Range(s) \subseteq Nat
  BY DEF Range
<1>4. QED
  BY <1>2, <1>3, HelloIpcAssumption
     DEF TypeOK, Answering, Toggling, Queued, Boxed, Sending

(* What the mailbox's and the queue's operations do to their stage.        *)
LEMMA BoxedMoves ==
  ASSUME TypeOK, Increasing(pingBox)
  PROVE  /\ \A m \in Nat : \A size : PingChannel!Post(m, size) =>
              /\ Boxed' = Boxed \cup {m}
              /\ Before(Boxed, {m}) => Increasing(pingBox)'
         /\ \A m : PingChannel!Interrupt(m) =>
              /\ Boxed = {m} \cup Boxed' /\ Before({m}, Boxed')
              /\ Increasing(pingBox)'
         /\ PingChannel!Discard =>
              /\ Boxed = {Head(pingBox)} \cup Boxed'
              /\ Before({Head(pingBox)}, Boxed')
              /\ Increasing(pingBox)'
<1>1. ASSUME NEW m \in Nat, NEW size, PingChannel!Post(m, size)
      PROVE  /\ Boxed' = Boxed \cup {m}
             /\ Before(Boxed, {m}) => Increasing(pingBox)'
  BY <1>1, RangeAppend, IncreasingAppend
     DEF PingChannel!Post, TypeOK, Boxed, Before
<1>2. ASSUME pingBox # <<>>, pingBox' = Tail(pingBox)
      PROVE  /\ Boxed = {Head(pingBox)} \cup Boxed'
             /\ Before({Head(pingBox)}, Boxed')
             /\ Increasing(pingBox)'
  BY <1>2, RangeHeadTail, IncreasingTail DEF TypeOK, Boxed, Before
<1>3. QED
  BY <1>1, <1>2 DEF PingChannel!Interrupt, PingChannel!Discard

LEMMA QueuedMoves ==
  ASSUME TypeOK, Increasing(rx_msgq)
  PROVE  /\ \A m \in Nat : RxMsgQ!Put(m) =>
              /\ Queued' = Queued \cup {m}
              /\ Before(Queued, {m}) => Increasing(rx_msgq)'
         /\ \A m : RxMsgQ!Get(m) =>
              /\ Queued = {m} \cup Queued' /\ Before({m}, Queued')
              /\ Increasing(rx_msgq)'
<1>1. ASSUME NEW m \in Nat, RxMsgQ!Put(m)
      PROVE  /\ Queued' = Queued \cup {m}
             /\ Before(Queued, {m}) => Increasing(rx_msgq)'
  BY <1>1, RangeAppend, IncreasingAppend DEF RxMsgQ!Put, TypeOK, Queued, Before
<1>2. ASSUME rx_msgq # <<>>, rx_msgq' = Tail(rx_msgq)
      PROVE  /\ Queued = {Head(rx_msgq)} \cup Queued'
             /\ Before({Head(rx_msgq)}, Queued')
             /\ Increasing(rx_msgq)'
  BY <1>2, RangeHeadTail, IncreasingTail DEF TypeOK, Queued, Before
<1>3. QED
  BY <1>1, <1>2 DEF RxMsgQ!Get

LEMMA AnsweringMoves ==
  ASSUME TypeOK, Increasing(Seqs(ackBox))
  PROVE  /\ \A size : AckChannel!Post(ack, size) =>
              /\ Answering' = Answering \cup {ack.seq}
              /\ Before(Answering, {ack.seq}) => Increasing(Seqs(ackBox))'
         /\ \A a : AckChannel!Interrupt(a) =>
              /\ Answering = {a.seq} \cup Answering'
              /\ Before({a.seq}, Answering')
              /\ Increasing(Seqs(ackBox))'
<1>a. (\A r \in Ack : r.seq \in Nat) /\ ack.seq \in Nat /\ ack \in Ack
      /\ ackBox \in Seq(Ack)
  BY DEF Ack, TypeOK
<1>1. ASSUME NEW size, AckChannel!Post(ack, size)
      PROVE  /\ Answering' = Answering \cup {ack.seq}
             /\ Before(Answering, {ack.seq}) => Increasing(Seqs(ackBox))'
  <2>1. Seqs(ackBox)' = Append(Seqs(ackBox), ack.seq)
        /\ Seqs(ackBox) \in Seq(Nat)
    BY <1>1, <1>a, SeqsAppend DEF AckChannel!Post
  <2>2. Answering' = Answering \cup {ack.seq}
    <3>1. \A s \in Seq(Nat), n \in Nat : Range(Append(s, n)) = Range(s) \cup {n}
      BY RangeAppend
    <3>2. QED
      BY <1>a, <2>1, <3>1 DEF Answering
  <2>3. ASSUME Before(Answering, {ack.seq})
        PROVE  Increasing(Append(Seqs(ackBox), ack.seq))
    BY <1>a, <2>1, <2>3, IncreasingAppend DEF Answering, Before
  <2>4. QED
    BY <2>1, <2>2, <2>3
<1>2. ASSUME NEW a, AckChannel!Interrupt(a)
      PROVE  /\ Answering = {a.seq} \cup Answering'
             /\ Before({a.seq}, Answering')
             /\ Increasing(Seqs(ackBox))'
  <2>1. /\ Seqs(ackBox) \in Seq(Nat) /\ Seqs(ackBox) # <<>>
        /\ Seqs(ackBox)' = Tail(Seqs(ackBox)) /\ Head(Seqs(ackBox)) = a.seq
    BY <1>2, <1>a, SeqsTail DEF AckChannel!Interrupt
  <2>2. QED
    BY <2>1, RangeHeadTail, IncreasingTail DEF Answering, Before
<1>3. QED
  BY <1>1, <1>2

(* HostPing: a new ping, younger than all others, enters Sending.          *)
LEMMA HostPingMoves ==
  ASSUME TypeOK, HostPing
  PROVE  /\ Sending = {} /\ Sending' = {seq + 1} /\ seq' = seq + 1
         /\ UNCHANGED <<Answering, Toggling, Queued, Boxed, lastAck, tpc, ack,
                        msg, pingBox, rx_msgq, ackBox>>
BY DEF HostPing, Sending, Answering, Toggling, InTask, Queued, Boxed,
   pingVars, ackVars, queueVars, taskVars, consoleVars

(* SendPing: from Sending to Boxed.                                        *)
LEMMA SendPingMoves ==
  ASSUME TypeOK, Increasing(pingBox), SendPing
  PROVE  /\ Sending = {seq} /\ Sending' = {} /\ Boxed' = Boxed \cup {seq}
         /\ Before(Boxed, {seq}) => Increasing(pingBox)'
         /\ UNCHANGED <<Answering, Toggling, Queued, seq, lastAck, tpc, ack,
                        msg, rx_msgq, ackBox>>
<1>1. /\ Boxed' = Boxed \cup {seq}
      /\ Before(Boxed, {seq}) => Increasing(pingBox)'
  BY BoxedMoves, StagesAreNumbers DEF SendPing
<1>2. QED
  BY <1>1 DEF SendPing, Sending, Answering, Toggling, InTask, Queued,
     ackVars, queueVars, taskVars, consoleVars

(* SendPingFails: out of Sending.                                          *)
LEMMA SendPingFailsMoves ==
  ASSUME TypeOK, SendPingFails
  PROVE  /\ Sending = {seq} /\ Sending' = {}
         /\ UNCHANGED <<Answering, Toggling, Queued, Boxed, seq, lastAck, tpc,
                        ack, msg, pingBox, rx_msgq, ackBox>>
BY DEF SendPingFails, Sending, Answering, Toggling, InTask, Queued, Boxed,
   pingVars, ackVars, queueVars, taskVars, consoleVars

(* LosePing: the oldest out of Boxed.                                      *)
LEMMA LosePingMoves ==
  ASSUME TypeOK, Increasing(pingBox), LosePing
  PROVE  \E m \in Nat :
           /\ Boxed = {m} \cup Boxed' /\ Before({m}, Boxed')
           /\ Increasing(pingBox)'
           /\ UNCHANGED <<Answering, Toggling, Queued, Sending, seq, lastAck,
                          tpc, ack, msg, rx_msgq, ackBox>>
<1>1. /\ Boxed = {Head(pingBox)} \cup Boxed' /\ Before({Head(pingBox)}, Boxed')
      /\ Increasing(pingBox)'
  BY BoxedMoves DEF LosePing
<1>2. Head(pingBox) \in Nat
  BY <1>1, StagesAreNumbers
<1>3. UNCHANGED <<Answering, Toggling, Queued, Sending, seq, lastAck,
                  tpc, ack, msg, rx_msgq, ackBox>>
  BY DEF LosePing, Sending, Answering, Toggling, InTask, Queued, hostVars,
     ackVars, queueVars, taskVars, consoleVars
<1>4. QED
  BY <1>1, <1>2, <1>3

(* MboxRxCallback: the oldest of Boxed, to Queued or dropped.              *)
LEMMA MboxRxCallbackMoves ==
  ASSUME TypeOK, Increasing(pingBox), Increasing(rx_msgq), MboxRxCallback
  PROVE  \E m \in Nat :
           /\ Boxed = {m} \cup Boxed' /\ Before({m}, Boxed')
           /\ Increasing(pingBox)'
           /\ \/ /\ Queued' = Queued \cup {m}
                 /\ Before(Queued, {m}) => Increasing(rx_msgq)'
              \/ UNCHANGED <<Queued, rx_msgq>>
           /\ UNCHANGED <<Answering, Toggling, Sending, seq, lastAck, tpc, ack,
                          msg, ackBox>>
<1>1. PICK m : /\ PingChannel!Interrupt(m)
               /\ RxMsgQ!Put(m) \/ RxMsgQ!PutFails
  BY DEF MboxRxCallback
<1>2. /\ Boxed = {m} \cup Boxed' /\ Before({m}, Boxed')
      /\ Increasing(pingBox)'
  BY <1>1, BoxedMoves
<1>3. m \in Nat
  BY <1>2, StagesAreNumbers
<1>4. \/ /\ Queued' = Queued \cup {m}
         /\ Before(Queued, {m}) => Increasing(rx_msgq)'
      \/ UNCHANGED <<Queued, rx_msgq>>
  BY <1>1, <1>3, QueuedMoves DEF RxMsgQ!PutFails, Queued
<1>5. UNCHANGED <<Answering, Toggling, Sending, seq, lastAck, tpc, ack, msg,
                  ackBox>>
  BY DEF MboxRxCallback, Sending, Answering, Toggling, InTask, hostVars,
     ackVars, taskVars, consoleVars
<1>6. QED
  BY <1>2, <1>3, <1>4, <1>5

(* GetPing: the oldest of Queued, to Toggling.                             *)
LEMMA GetPingMoves ==
  ASSUME TypeOK, Increasing(rx_msgq), GetPing
  PROVE  \E m \in Nat :
           /\ Queued = {m} \cup Queued' /\ Before({m}, Queued')
           /\ Increasing(rx_msgq)'
           /\ Toggling = {} /\ Toggling' = {m} /\ tpc' = "toggle"
           /\ UNCHANGED <<Answering, Boxed, Sending, seq, lastAck, pingBox,
                          ackBox>>
<1>1. PICK m : RxMsgQ!Get(m) /\ msg' = m
  BY DEF GetPing
<1>2. /\ Queued = {m} \cup Queued' /\ Before({m}, Queued')
      /\ Increasing(rx_msgq)'
  BY <1>1, QueuedMoves
<1>3. m \in Nat
  BY <1>2, StagesAreNumbers
<1>4. Toggling = {} /\ Toggling' = {m} /\ tpc' = "toggle"
  BY <1>1 DEF GetPing, Toggling, InTask
<1>5. UNCHANGED <<Answering, Boxed, Sending, seq, lastAck, pingBox, ackBox>>
  BY DEF GetPing, Sending, Answering, Boxed, hostVars, pingVars, ackVars,
     consoleVars
<1>6. QED
  BY <1>2, <1>3, <1>4, <1>5

(* SendAck: from Toggling to Answering.                                    *)
LEMMA SendAckMoves ==
  ASSUME TypeOK, Increasing(Seqs(ackBox)), tpc = "reply" => ack.seq = msg,
         SendAck
  PROVE  /\ Toggling = {msg} /\ Toggling' = {} /\ tpc' = "get"
         /\ Answering' = Answering \cup {msg}
         /\ Before(Answering, {msg}) => Increasing(Seqs(ackBox))'
         /\ UNCHANGED <<Queued, Boxed, Sending, seq, lastAck, pingBox, rx_msgq>>
<1>1. ack.seq = msg /\ Toggling = {msg} /\ Toggling' = {} /\ tpc' = "get"
  BY DEF SendAck, Toggling, InTask
<1>2. /\ Answering' = Answering \cup {msg}
      /\ Before(Answering, {msg}) => Increasing(Seqs(ackBox))'
  BY <1>1, AnsweringMoves DEF SendAck
<1>3. UNCHANGED <<Queued, Boxed, Sending, seq, lastAck, pingBox, rx_msgq>>
  BY DEF SendAck, Queued, Boxed, Sending, hostVars, pingVars, queueVars,
     consoleVars
<1>4. QED
  BY <1>1, <1>2, <1>3

(* SendAckFails: out of Toggling.                                          *)
LEMMA SendAckFailsMoves ==
  ASSUME TypeOK, SendAckFails
  PROVE  /\ Toggling = {msg} /\ Toggling' = {} /\ tpc' = "get"
         /\ UNCHANGED <<Answering, Queued, Boxed, Sending, seq, lastAck,
                        pingBox, rx_msgq, ackBox>>
BY DEF SendAckFails, Toggling, InTask, Answering, Queued, Boxed, Sending,
   hostVars, pingVars, ackVars, queueVars, consoleVars

(* MboxAckRxCallback: the oldest of Answering becomes the latest ack.      *)
LEMMA MboxAckRxCallbackMoves ==
  ASSUME TypeOK, Increasing(Seqs(ackBox)), MboxAckRxCallback
  PROVE  /\ Answering = {lastAck'} \cup Answering'
         /\ Before({lastAck'}, Answering')
         /\ Increasing(Seqs(ackBox))'
         /\ UNCHANGED <<Toggling, Queued, Boxed, Sending, seq, tpc, ack, msg,
                        pingBox, rx_msgq>>
<1>1. PICK a : AckChannel!Interrupt(a) /\ lastAck' = a.seq
  BY DEF MboxAckRxCallback
<1>2. /\ Answering = {lastAck'} \cup Answering'
      /\ Before({lastAck'}, Answering')
      /\ Increasing(Seqs(ackBox))'
  BY <1>1, AnsweringMoves
<1>3. UNCHANGED <<Toggling, Queued, Boxed, Sending, seq, tpc, ack, msg,
                  pingBox, rx_msgq>>
  BY DEF MboxAckRxCallback, Toggling, InTask, Queued, Boxed, Sending,
     hostVars, pingVars, queueVars, taskVars
<1>4. QED
  BY <1>2, <1>3

(* All other steps leave every ping where it is.                           *)
Quiet ==
  \/ HostMain \/ HostMainFails \/ M4Main \/ M4MainFails \/ StartToggleTask
  \/ ToggleLed \/ Rest \/ UNCHANGED vars

LEMMA QuietMoves ==
  ASSUME TypeOK, tpc = "reply" => ack.seq = msg, Quiet
  PROVE  /\ (tpc = "reply" => ack.seq = msg)'
         /\ UNCHANGED <<Answering, Toggling, Queued, Boxed, Sending, seq,
                        lastAck, pingBox, rx_msgq, ackBox>>
<1> USE DEF Answering, Toggling, InTask, Queued, Boxed, Sending, hostVars,
      pingVars, ackVars, bootVars, queueVars, taskVars, consoleVars, faultVars
<1>1. CASE HostMain
  BY <1>1 DEF HostMain, AckChannel!Enable
<1>2. CASE HostMainFails
  BY <1>2 DEF HostMainFails
<1>3. CASE M4Main
  BY <1>3 DEF M4Main, PingChannel!Enable
<1>4. CASE M4MainFails
  BY <1>4 DEF M4MainFails
<1>5. CASE StartToggleTask
  BY <1>5 DEF StartToggleTask, TypeOK
<1>6. CASE ToggleLed
  <2>1. tpc = "toggle" /\ tpc' = "reply" /\ msg' = msg /\ ack'.seq = msg
    BY <1>6 DEF ToggleLed
  <2>2. UNCHANGED <<hostVars, pingVars, ackVars, queueVars, consoleVars>>
    BY <1>6 DEF ToggleLed
  <2>3. QED
    BY <2>1, <2>2
<1>7. CASE UNCHANGED vars
  BY <1>7 DEF vars
<1>8. CASE Rest
  BY <1>7, <1>8 DEF Rest
<1>9. QED
  BY <1>1, <1>2, <1>3, <1>4, <1>5, <1>6, <1>7, <1>8 DEF Quiet
-----------------------------------------------------------------------------
LEMMA InOrderInit == Init => InOrder
<1> SUFFICES ASSUME Init PROVE InOrder
  OBVIOUS
<1>1. /\ pingBox = <<>> /\ ackBox = <<>> /\ rx_msgq = <<>>
      /\ hpc = "boot" /\ tpc = "off" /\ seq = 0 /\ lastAck = 0
  BY DEF Init, PingChannel!Init, AckChannel!Init, RxMsgQ!Init
<1>2. \A s : s = <<>> => DOMAIN s = {} /\ DOMAIN Seqs(s) = {}
  BY DEF Seqs
<1>3. Answering = {} /\ Toggling = {} /\ Queued = {} /\ Boxed = {}
      /\ Sending = {}
  BY <1>1, <1>2 DEF Answering, Toggling, InTask, Queued, Boxed, Sending, Range
<1>4. Increasing(Seqs(ackBox)) /\ Increasing(rx_msgq) /\ Increasing(pingBox)
  BY <1>1, <1>2 DEF Increasing
<1>5. QED
  BY <1>1, <1>3, <1>4 DEF InOrder, InFlight, Before

LEMMA InOrderStep == TypeOK /\ InOrder /\ [Next]_vars => InOrder'
<1> SUFFICES ASSUME TypeOK, InOrder, [Next]_vars PROVE InOrder'
  OBVIOUS
<1>a. /\ Increasing(Seqs(ackBox)) /\ Increasing(rx_msgq) /\ Increasing(pingBox)
      /\ tpc = "reply" => ack.seq = msg
  BY DEF InOrder
<1> USE StagesAreNumbers DEF InOrder, InFlight, Before
<1>1. CASE HostPing
  <2>1. /\ Sending = {} /\ Sending' = {seq + 1} /\ seq' = seq + 1
        /\ Answering' = Answering /\ Toggling' = Toggling /\ Queued' = Queued
        /\ Boxed' = Boxed /\ lastAck' = lastAck /\ tpc' = tpc /\ ack' = ack
        /\ msg' = msg
        /\ pingBox' = pingBox /\ rx_msgq' = rx_msgq /\ ackBox' = ackBox
    BY <1>1, HostPingMoves
  <2>2. \A n \in InFlight \cup {lastAck} : n <= seq + 1 /\ n < seq + 1
    OBVIOUS
  <2>3. InFlight' = InFlight \cup {seq + 1}
    BY <2>1
  <2>4. /\ Before(Answering, Sending') /\ Before(Toggling, Sending')
        /\ Before(Queued, Sending') /\ Before(Boxed, Sending')
    BY <2>1, <2>2
  <2>5. /\ Before({lastAck}, InFlight')
        /\ \A n \in InFlight' \cup {lastAck} : n <= seq + 1
    <3> HIDE DEF InFlight
    <3>1. Before({lastAck}, InFlight) /\ seq + 1 \in Nat
      OBVIOUS
    <3>2. QED
      BY <2>2, <2>3, <3>1
  <2>6. /\ Increasing(Seqs(ackBox))' /\ Increasing(rx_msgq)'
        /\ Increasing(pingBox)' /\ (tpc = "reply" => ack.seq = msg)'
    BY <1>a, <2>1
  <2>7. /\ Before(Answering, Toggling \cup Queued \cup Boxed \cup Sending)'
        /\ Before(Toggling, Queued \cup Boxed \cup Sending)'
        /\ Before(Queued, Boxed \cup Sending)' /\ Before(Boxed, Sending)'
    BY <2>1, <2>4
  <2>8. /\ Before({lastAck}, InFlight)'
        /\ \A n \in (InFlight \cup {lastAck})' : n <= seq'
    BY <2>1, <2>5
  <2>9. QED
    BY <2>6, <2>7, <2>8
<1>2. CASE SendPing
  BY <1>2, <1>a, SendPingMoves
<1>3. CASE SendPingFails
  BY <1>3, SendPingFailsMoves
<1>4. CASE LosePing
  BY <1>4, <1>a, LosePingMoves
<1>5. CASE MboxRxCallback
  BY <1>5, <1>a, MboxRxCallbackMoves
<1>6. CASE GetPing
  BY <1>6, <1>a, GetPingMoves
<1>7. CASE SendAck
  BY <1>7, <1>a, SendAckMoves DEF Toggling
<1>8. CASE SendAckFails
  BY <1>8, SendAckFailsMoves
<1>9. CASE MboxAckRxCallback
  BY <1>9, <1>a, MboxAckRxCallbackMoves
<1>10. CASE Quiet
  BY <1>10, <1>a, QuietMoves
<1>11. QED
  BY <1>1, <1>2, <1>3, <1>4, <1>5, <1>6, <1>7, <1>8, <1>9, <1>10
     DEF Next, Quiet

(* Whatever is lost or dropped, no ping and no ack ever overtakes another. *)
THEOREM PathInOrder == Spec => []InOrder
BY InOrderInit, InOrderStep, TypeCorrect, PTL DEF Spec
-----------------------------------------------------------------------------
(* The lab implements lossy delivery in order: each step of the two cores  *)
(* is a step of InOrderDelivery or leaves its state alone.                 *)
LEMMA ServiceStep ==
  TypeOK /\ InOrder /\ [Next]_vars
    => [Service!Next]_<<seq, InFlight, lastAck>>
<1> SUFFICES ASSUME TypeOK, InOrder, [Next]_vars
             PROVE  \/ Service!Next
                    \/ UNCHANGED <<seq, InFlight, lastAck>>
  OBVIOUS
<1>a. /\ Increasing(Seqs(ackBox)) /\ Increasing(rx_msgq) /\ Increasing(pingBox)
      /\ tpc = "reply" => ack.seq = msg
  BY DEF InOrder
<1>b. \A n \in InFlight : Service!Lose(n) \/ Service!Answer(n) => Service!Next
  BY DEF Service!Next
<1> USE StagesAreNumbers
<1>1. CASE HostPing
  <2>1. Service!Offer
    BY <1>1, HostPingMoves DEF Service!Offer, InFlight
  <2>2. QED
    BY <2>1 DEF Service!Next
<1>2. CASE SendPing
  BY <1>2, <1>a, SendPingMoves DEF InFlight
<1>3. CASE SendPingFails
  <2>1. InFlight' = InFlight \ {seq} /\ seq \in InFlight
    BY <1>3, SendPingFailsMoves DEF InOrder, InFlight, Before
  <2>2. Service!Lose(seq)
    BY <1>3, <2>1, SendPingFailsMoves DEF Service!Lose
  <2>3. QED
    BY <1>b, <2>1, <2>2
<1>4. CASE LosePing
  <2>1. PICK m \in Nat :
          /\ Boxed = {m} \cup Boxed' /\ Before({m}, Boxed')
          /\ UNCHANGED <<Answering, Toggling, Queued, Sending, seq, lastAck>>
    BY <1>4, <1>a, LosePingMoves
  <2>2. InFlight' = InFlight \ {m} /\ m \in InFlight
    BY <2>1 DEF InOrder, InFlight, Before
  <2>3. Service!Lose(m)
    BY <2>1, <2>2 DEF Service!Lose
  <2>4. QED
    BY <1>b, <2>2, <2>3
<1>5. CASE MboxRxCallback
  <2>1. PICK m \in Nat :
          /\ Boxed = {m} \cup Boxed' /\ Before({m}, Boxed')
          /\ Queued' = Queued \cup {m} \/ UNCHANGED Queued
          /\ UNCHANGED <<Answering, Toggling, Sending, seq, lastAck>>
    BY <1>5, <1>a, MboxRxCallbackMoves
  <2>2. CASE Queued' = Queued \cup {m}
    BY <2>1, <2>2 DEF InFlight
  <2>3. CASE UNCHANGED Queued
    <3>1. InFlight' = InFlight \ {m} /\ m \in InFlight
      BY <2>1, <2>3 DEF InOrder, InFlight, Before
    <3>2. Service!Lose(m)
      BY <2>1, <3>1 DEF Service!Lose
    <3>3. QED
      BY <1>b, <3>1, <3>2
  <2>4. QED
    BY <2>1, <2>2, <2>3
<1>6. CASE GetPing
  BY <1>6, <1>a, GetPingMoves DEF InFlight
<1>7. CASE SendAck
  BY <1>7, <1>a, SendAckMoves DEF InFlight
<1>8. CASE SendAckFails
  <2>1. InFlight' = InFlight \ {msg} /\ msg \in InFlight
    BY <1>8, SendAckFailsMoves DEF InOrder, InFlight, Before
  <2>2. Service!Lose(msg)
    BY <1>8, <2>1, SendAckFailsMoves DEF Service!Lose
  <2>3. QED
    BY <1>b, <2>1, <2>2
<1>9. CASE MboxAckRxCallback
  <2>1. /\ Answering = {lastAck'} \cup Answering'
        /\ Before({lastAck'}, Answering')
        /\ UNCHANGED <<Toggling, Queued, Boxed, Sending, seq>>
    BY <1>9, <1>a, MboxAckRxCallbackMoves
  <2>2. InFlight' = InFlight \ {lastAck'} /\ lastAck' \in InFlight
    BY <2>1 DEF InOrder, InFlight, Before
  <2>3. lastAck' > lastAck /\ \A m \in InFlight : lastAck' <= m
    <3>1. lastAck' \in Answering /\ lastAck' \in Nat
      BY <2>1
    <3>2. lastAck' > lastAck
      BY <3>1 DEF InOrder, InFlight, Before
    <3>3. \A m \in Answering : lastAck' <= m
      BY <2>1, <3>1 DEF Before
    <3>4. \A m \in Toggling \cup Queued \cup Boxed \cup Sending : lastAck' <= m
      BY <3>1 DEF InOrder, Before
    <3>5. QED
      BY <3>2, <3>3, <3>4 DEF InFlight
  <2>4. Service!Answer(lastAck')
    BY <2>1, <2>2, <2>3 DEF Service!Answer
  <2>5. QED
    BY <1>b, <2>2, <2>4
<1>10. CASE Quiet
  BY <1>10, <1>a, QuietMoves DEF InFlight
<1>11. QED
  BY <1>1, <1>2, <1>3, <1>4, <1>5, <1>6, <1>7, <1>8, <1>9, <1>10
     DEF Next, Quiet

(* The host sees acks in the order of its pings, each at most once and for *)
(* no ping it did not make: for every size of every buffer.                *)
THEOREM DeliveredInOrder == Spec => ServiceSpec
<1>1. Init => Service!Init
  <2> SUFFICES ASSUME Init PROVE Service!Init
    OBVIOUS
  <2>1. /\ pingBox = <<>> /\ ackBox = <<>> /\ rx_msgq = <<>>
        /\ hpc = "boot" /\ tpc = "off" /\ seq = 0 /\ lastAck = 0
    BY DEF Init, PingChannel!Init, AckChannel!Init, RxMsgQ!Init
  <2>2. InFlight = {}
    BY <2>1 DEF InFlight, Answering, Toggling, InTask, Queued, Boxed, Sending,
       Range, Seqs
  <2>3. QED
    BY <2>1, <2>2 DEF Service!Init
<1>2. QED
  BY <1>1, ServiceStep, TypeCorrect, PathInOrder, PTL
     DEF Spec, ServiceSpec, Service!Spec
-----------------------------------------------------------------------------
(* The LED as the console tells it.  While nothing blurred the picture, all*)
(* acks that are not logged yet carry the same result, the one main() chose*)
(* when it found LED0 ready or not; so the console is right about LED0 if  *)
(* an even number of toggles are still to be told, and wrong if an odd one.*)
Result == IF led0_ready THEN "ok" ELSE "not_ready"
Untold == Len(ackBox) + One(tpc = "reply")

LedTold ==
  /\ mpc = "boot" => ackBox = <<>>
  /\ ~blurred =>
       /\ \A a \in Range(ackBox) : a.led_ret = Result
       /\ tpc = "reply" => ack.led_ret = Result
       /\ (console = led0) = (led0_ready => Untold % 2 = 0)

LEMMA Parity ==
  ASSUME NEW n \in Nat
  PROVE  /\ (n + 1) % 2 = 0 <=> ~(n % 2 = 0)
         /\ 0 % 2 = 0
OBVIOUS

LEMMA LedToldInit == Init => LedTold
<1> SUFFICES ASSUME Init PROVE LedTold
  OBVIOUS
<1>1. ackBox = <<>> /\ tpc = "off" /\ console = FALSE /\ led0 = FALSE
  BY DEF Init, AckChannel!Init
<1>2. Untold = 0 /\ Range(ackBox) = {}
  BY <1>1, EmptySeq DEF Untold, One, Range
<1>3. QED
  BY <1>1, <1>2, Parity DEF LedTold

(* The steps that leave LED0, the acks and the console alone.              *)
Untelling ==
  \/ HostMain \/ HostMainFails \/ HostPing \/ SendPing \/ SendPingFails
  \/ LosePing \/ MboxRxCallback \/ StartToggleTask \/ GetPing
  \/ Rest \/ UNCHANGED vars

LEMMA UntellingMoves ==
  ASSUME TypeOK, Untelling
  PROVE  /\ UNCHANGED <<ackBox, ack, led0, led0_ready, console, blurred>>
         /\ (tpc' = "reply") <=> (tpc = "reply")
         /\ mpc' = "boot" => mpc = "boot"
<1> USE DEF hostVars, pingVars, ackVars, bootVars, queueVars, taskVars,
      consoleVars, faultVars
<1>1. CASE HostMain \/ HostMainFails \/ HostPing
  BY <1>1 DEF HostMain, HostMainFails, HostPing, AckChannel!Enable
<1>2. CASE SendPing \/ SendPingFails \/ LosePing
  BY <1>2 DEF SendPing, SendPingFails, LosePing
<1>3. CASE MboxRxCallback
  BY <1>3 DEF MboxRxCallback
<1>4. CASE StartToggleTask
  BY <1>4 DEF StartToggleTask, TypeOK
<1>5. CASE GetPing
  BY <1>5 DEF GetPing
<1>6. CASE UNCHANGED vars
  BY <1>6 DEF vars
<1>7. CASE Rest
  BY <1>6, <1>7 DEF Rest
<1>8. QED
  BY <1>1, <1>2, <1>3, <1>4, <1>5, <1>6, <1>7 DEF Untelling

LEMMA LedToldStep == TypeOK /\ LedTold /\ [Next]_vars => LedTold'
<1> SUFFICES ASSUME TypeOK, LedTold, [Next]_vars PROVE LedTold'
  OBVIOUS
<1>a. /\ ackBox \in Seq(Ack) /\ Len(ackBox) \in Nat /\ ack \in Ack
      /\ console \in BOOLEAN /\ led0 \in BOOLEAN /\ led0_ready \in BOOLEAN
      /\ blurred \in BOOLEAN /\ tpc = "off" <=> mpc # "ready"
  BY LenProperties DEF TypeOK
<1>b. Untold \in Nat
  BY <1>a DEF Untold, One
<1>1. CASE Untelling
  <2>1. /\ UNCHANGED <<ackBox, ack, led0, led0_ready, console, blurred>>
        /\ (tpc' = "reply") <=> (tpc = "reply")
        /\ mpc' = "boot" => mpc = "boot"
    BY <1>1, UntellingMoves
  <2>2. Untold' = Untold /\ Result' = Result
    BY <2>1 DEF Untold, One, Result
  <2>3. QED
    BY <2>1, <2>2 DEF LedTold
<1>2. CASE M4Main \/ M4MainFails
  <2>1. /\ mpc = "boot" /\ mpc' # "boot" /\ tpc # "reply"
        /\ UNCHANGED <<ackBox, ack, led0, console, blurred, tpc>>
    BY <1>2, <1>a DEF M4Main, M4MainFails, ackVars, taskVars, consoleVars,
       faultVars
  <2>2. ackBox = <<>> /\ Range(ackBox) = {} /\ Untold = 0
    BY <2>1, EmptySeq DEF LedTold, Untold, One, Range
  <2>3. Untold' = 0 /\ Range(ackBox') = {}
    BY <2>1, <2>2 DEF Untold
  <2>4. QED
    BY <2>1, <2>2, <2>3, Parity DEF LedTold
<1>3. CASE ToggleLed
  <2>1. /\ tpc = "toggle" /\ tpc' = "reply"
        /\ UNCHANGED <<mpc, led0_ready, ackBox, console>>
        /\ \/ led0_ready /\ led0' = ~led0 /\ ack'.led_ret = "ok"
              /\ blurred' = blurred
           \/ blurred' = TRUE
           \/ ~led0_ready /\ ack'.led_ret = "not_ready" /\ led0' = led0
              /\ blurred' = blurred
    BY <1>3 DEF ToggleLed, bootVars, ackVars, consoleVars
  <2>2. Untold' = Untold + 1
    BY <1>a, <2>1 DEF Untold, One
  <2>3. (Untold' % 2 = 0) <=> ~(Untold % 2 = 0)
    BY <1>b, <2>2, Parity
  <2>4. QED
    BY <1>a, <2>1, <2>3 DEF LedTold, Result
<1>4. CASE SendAck
  <2>1. /\ tpc = "reply" /\ tpc' = "get" /\ ackBox' = Append(ackBox, ack)
        /\ UNCHANGED <<mpc, led0_ready, ack, led0, console, blurred>>
    BY <1>4 DEF SendAck, AckChannel!Post, bootVars, consoleVars, faultVars
  <2>2. /\ Len(ackBox') = Len(ackBox) + 1
        /\ \A a \in Range(ackBox') : a \in Range(ackBox) \/ a = ack
    <3>1. Len(ackBox') = Len(ackBox) + 1
      BY <1>a, <2>1, AppendProperties
    <3>2. Range(ackBox') = Range(ackBox) \cup {ack}
      BY <1>a, <2>1, RangeAppend
    <3>3. QED
      BY <3>1, <3>2
  <2>3. Untold' = Untold
    BY <1>a, <2>1, <2>2 DEF Untold, One
  <2>4. mpc # "boot"
    BY <1>a, <2>1
  <2>5. QED
    BY <2>1, <2>2, <2>3, <2>4 DEF LedTold, Result
<1>5. CASE SendAckFails
  <2>1. blurred' = TRUE /\ tpc = "reply" /\ UNCHANGED mpc
    BY <1>5 DEF SendAckFails, bootVars
  <2>2. QED
    BY <1>a, <2>1 DEF LedTold
<1>6. CASE MboxAckRxCallback
  <2>1. PICK a :
          /\ ackBox # <<>> /\ a = Head(ackBox) /\ ackBox' = Tail(ackBox)
          /\ console' = IF a.led_ret = "ok" THEN ~console ELSE console
          /\ UNCHANGED <<mpc, led0_ready, tpc, ack, led0, blurred>>
    BY <1>6 DEF MboxAckRxCallback, AckChannel!Interrupt, bootVars, taskVars,
       faultVars
  <2>2. /\ Len(ackBox') \in Nat /\ Len(ackBox) = Len(ackBox') + 1
        /\ a \in Range(ackBox)
        /\ \A x \in Range(ackBox') : x \in Range(ackBox)
    <3>1. /\ Len(ackBox') \in Nat /\ Len(ackBox) = Len(ackBox') + 1
          /\ Range(ackBox) = {Head(ackBox)} \cup Range(ackBox')
      BY <1>a, <2>1, AfterTail
    <3>2. QED
      BY <2>1, <3>1
  <2>3. Untold' \in Nat /\ Untold = Untold' + 1
    BY <2>1, <2>2 DEF Untold, One
  <2>4. (Untold % 2 = 0) <=> ~(Untold' % 2 = 0)
    BY <2>3, Parity
  <2>5. mpc # "boot"
    BY <2>1 DEF LedTold
  <2>6. QED
    BY <1>a, <2>1, <2>2, <2>4, <2>5 DEF LedTold, Result
<1>7. QED
  BY <1>1, <1>2, <1>3, <1>4, <1>5, <1>6 DEF Next, Untelling

(* For every size of every buffer, however many pings were lost or dropped,*)
(* but only until an ack is lost or a toggle fails: a console that has     *)
(* logged all acks tells the state of LED0, and one that has not is right  *)
(* exactly if an even number of toggles is still to be told.               *)
THEOREM ConsoleTellsLed == Spec => [](ConsoleShowsLed /\ LedTold)
<1>1. TypeOK /\ LedTold => ConsoleShowsLed
  <2> SUFFICES ASSUME TypeOK, LedTold, ~blurred, ackBox = <<>>, tpc # "reply"
               PROVE  console = led0
    BY DEF ConsoleShowsLed
  <2>1. Untold = 0
    BY EmptySeq DEF Untold, One
  <2>2. QED
    BY <2>1, Parity DEF LedTold
<1>2. QED
  BY <1>1, LedToldInit, LedToldStep, TypeCorrect, PTL DEF Spec
=============================================================================
