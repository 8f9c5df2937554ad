-------------------------- MODULE EchoServiceProofs --------------------------
(***************************************************************************)
(* Theorems about EchoService, for every set of test strings, every size   *)
(* of the buffers and every capacity: strings travel unharmed and in       *)
(* order, and what that leaves a verdict of the host to say.               *)
(***************************************************************************)
EXTENDS EchoService, QueueLemmas

(* The number of a message, and the stages of its path, the oldest first:  *)
(* echoes on their way back, the string in Echo_Task's hands, the queued   *)
(* ones, those in the mailbox and the one that main() is about to send.    *)
Num == [m \in Item |-> m.n]

Echoing == Numbers(Num, echoBox)
InHand == IF ctask = "send" THEN {item.n} ELSE {}
Queued == Numbers(Num, echo_msgq)
Boxed == Numbers(Num, sendBox)
Sending == IF hpc = "send" THEN {idx + 1} ELSE {}

Underway == Echoing \cup InHand \cup Queued \cup Boxed

(* No string overtakes another, and the host has judged no echo of one     *)
(* that is still on its way or that was sent after it.                     *)
InOrder ==
  /\ Rising(Num, echoBox) /\ Rising(Num, echo_msgq) /\ Rising(Num, sendBox)
  /\ Before(Echoing, InHand \cup Queued \cup Boxed)
  /\ Before(InHand, Queued \cup Boxed)
  /\ Before(Queued, Boxed)
  /\ \A n \in Underway : lastEcho < n /\ n <= idx
  /\ lastEcho <= idx

(* Whenever main() does not copy, g_last_sent holds the string of the      *)
(* latest send - the one it is about to make, or the one it has made.      *)
HoldsSent ==
  /\ hpc \in {"boot", "halted"} => idx = 0
  /\ hpc = "copy" /\ idx > 0 => g_last_sent = Sent(idx)
  /\ hpc = "send" => g_last_sent = Sent(idx + 1)
-----------------------------------------------------------------------------
(* Every string that is sent fits g_last_sent with its NUL.                *)
LEMMA SentIsText ==
  ASSUME NEW n \in Nat \ {0}
  PROVE  Sent(n) \in Text
<1> DEFINE Uncut == [name : Nat, len : Nat \ {0}]
<1>1. TestStrings \in Seq(Uncut) /\ Len(TestStrings) \in Nat \ {0}
  BY EchoServiceAssumption, LenProperties, EmptySeq
<1>2. PICK k \in Nat \ {0} : k = Len(TestStrings)
  BY <1>1
<1>3. ((n - 1) % k) + 1 \in 1..k
  <2>1. n - 1 \in Nat
    OBVIOUS
  <2>2. \A m \in Nat : m % k \in 0..(k - 1)
    OBVIOUS
  <2>3. (n - 1) % k \in 0..(k - 1)
    BY <2>1, <2>2
  <2>4. QED
    BY <2>3
<1>4. PICK t \in Uncut :
        t = TestStrings[((n - 1) % Len(TestStrings)) + 1]
  <2>1. ((n - 1) % Len(TestStrings)) + 1 \in 1..Len(TestStrings)
    BY <1>2, <1>3
  <2>2. ASSUME NEW i \in 1..Len(TestStrings)
        PROVE  TestStrings[i] \in Uncut
    <3> HIDE DEF Uncut
    <3>1. QED
      BY <1>1, ElementOfSeq
  <2>3. QED
    BY <2>1, <2>2
<1>5. Sent(n) = [t EXCEPT !.len = Smaller(@, ECHO_MAX_LEN - 1)]
  BY <1>4 DEF Sent, Cut
<1>6. Smaller(t.len, ECHO_MAX_LEN - 1) \in 0..(ECHO_MAX_LEN - 1)
  BY EchoServiceAssumption DEF Smaller
<1>7. QED
  BY <1>4, <1>5, <1>6 DEF Text

(* Cutting a text at or beyond its end leaves it as it is.                 *)
LEMMA CutBeyondEnd ==
  ASSUME NEW t \in Text, NEW k \in Nat, t.len <= k
  PROVE  Cut(t, k) = t
<1>1. Smaller(t.len, k) = t.len
  BY DEF Smaller
<1>2. [t EXCEPT !.len = t.len] = t
  BY DEF Text
<1>3. QED
  BY <1>1, <1>2 DEF Cut

(* The client's callback queues an item, and a whole string unharmed.      *)
LEMMA BoundedIsItem ==
  ASSUME NEW m \in Item
  PROVE  /\ Bounded(m) \in Item /\ Bounded(m).n = m.n
         /\ m.len = m.data.len + 1 => Bounded(m) = m
<1>1. /\ m.n \in 0..MaxSent /\ m.data \in Text /\ m.len \in 0..ECHO_MAX_LEN
      /\ m.data.len \in 0..(ECHO_MAX_LEN - 1) /\ m.data.name \in Nat
      /\ ECHO_MAX_LEN \in Nat
  BY EchoServiceAssumption DEF Item, Text
<1>2. Smaller(m.len, ECHO_MAX_LEN) = m.len
  BY <1>1 DEF Smaller
<1>3. Bounded(m) = [n |-> m.n, data |-> Cut(m.data, m.len), len |-> m.len]
  BY <1>2 DEF Bounded
<1>4. Cut(m.data, m.len) \in Text
  <2>1. Smaller(m.data.len, m.len) \in 0..(ECHO_MAX_LEN - 1)
    BY <1>1 DEF Smaller
  <2>2. QED
    BY <1>1, <2>1 DEF Cut, Text
<1>5. ASSUME m.len = m.data.len + 1 PROVE Bounded(m) = m
  <2>1. Cut(m.data, m.len) = m.data
    BY <1>1, <1>5, CutBeyondEnd
  <2>2. QED
    BY <1>3, <2>1 DEF Item
<1>6. QED
  BY <1>1, <1>3, <1>4, <1>5 DEF Item
-----------------------------------------------------------------------------
LEMMA TypeInit == Init => TypeOK
<1> SUFFICES ASSUME Init PROVE TypeOK
  OBVIOUS
<1>1. /\ sendBox = <<>> /\ echoBox = <<>> /\ echo_msgq = <<>>
      /\ sendOn = FALSE /\ echoOn = FALSE
  BY DEF Init, SendChannel!Init, EchoChannel!Init, EchoMsgQ!Init
<1>2. /\ <<>> \in Seq(Item) /\ Len(<<>>) = 0
      /\ 0 <= Slots /\ 0 <= Depth /\ 0 \in 0..MaxSent
  BY EmptySeq, EchoServiceAssumption
<1>3. NoText \in Text /\ NoItem \in Item
  <2>1. 0 \in 0..(ECHO_MAX_LEN - 1) /\ 0 \in 0..ECHO_MAX_LEN
    BY EchoServiceAssumption
  <2>2. NoText \in Text
    BY <2>1 DEF NoText, Text
  <2>3. QED
    BY <1>2, <2>1, <2>2 DEF NoItem, Item
<1>4. QED
  BY <1>1, <1>2, <1>3 DEF Init, TypeOK

(* What the three queues make of a message that enters or leaves them.     *)
LEMMA SendBoxMoves ==
  ASSUME TypeOK
  PROVE  /\ \A m : SendChannel!Interrupt(m)
              => /\ sendBox # <<>> /\ m = Head(sendBox) /\ m \in Item
                 /\ sendBox' = Tail(sendBox) /\ sendOn' = sendOn
                 /\ sendBox' \in Seq(Item) /\ Len(sendBox') <= Slots
                 /\ Range(sendBox) = {m} \cup Range(sendBox')
         /\ SendChannel!Discard
              => /\ sendBox # <<>> /\ sendBox' = Tail(sendBox)
                 /\ sendBox' \in Seq(Item) /\ Len(sendBox') <= Slots
                 /\ sendOn' = sendOn
                 /\ Range(sendBox) = {Head(sendBox)} \cup Range(sendBox')
         /\ \A m \in Item : \A size : SendChannel!Post(m, size)
              => /\ sendBox' = Append(sendBox, m) /\ sendOn' = sendOn
                 /\ sendBox' \in Seq(Item) /\ Len(sendBox') <= Slots
                 /\ Range(sendBox') = Range(sendBox) \cup {m}
<1>1. sendBox \in Seq(Item) /\ Len(sendBox) <= Slots /\ Slots \in Nat
  BY EchoServiceAssumption DEF TypeOK
<1>2. ASSUME sendBox # <<>>, sendBox' = Tail(sendBox)
      PROVE  /\ sendBox' \in Seq(Item) /\ Len(sendBox') <= Slots
             /\ Head(sendBox) \in Item
             /\ Range(sendBox) = {Head(sendBox)} \cup Range(sendBox')
  BY <1>1, <1>2, Takes
<1>3. ASSUME NEW m \in Item, NEW size, SendChannel!Post(m, size)
      PROVE  /\ sendBox' = Append(sendBox, m) /\ sendOn' = sendOn
             /\ sendBox' \in Seq(Item) /\ Len(sendBox') <= Slots
             /\ Range(sendBox') = Range(sendBox) \cup {m}
  <2>1. sendBox' = Append(sendBox, m) /\ Len(sendBox) < Slots
        /\ sendOn' = sendOn
    BY <1>3 DEF SendChannel!Post
  <2>2. QED
    BY <1>1, <2>1, Puts
<1>4. QED
  BY <1>2, <1>3 DEF SendChannel!Interrupt, SendChannel!Discard

LEMMA EchoQueueMoves ==
  ASSUME TypeOK
  PROVE  /\ \A m : EchoMsgQ!Get(m)
              => /\ echo_msgq # <<>> /\ m = Head(echo_msgq) /\ m \in Item
                 /\ echo_msgq' = Tail(echo_msgq)
                 /\ echo_msgq' \in Seq(Item) /\ Len(echo_msgq') <= Depth
                 /\ Range(echo_msgq) = {m} \cup Range(echo_msgq')
         /\ \A m \in Item : EchoMsgQ!Put(m)
              => /\ echo_msgq' = Append(echo_msgq, m)
                 /\ echo_msgq' \in Seq(Item) /\ Len(echo_msgq') <= Depth
                 /\ Range(echo_msgq') = Range(echo_msgq) \cup {m}
<1>1. /\ echo_msgq \in Seq(Item) /\ Len(echo_msgq) \in Nat
      /\ Len(echo_msgq) <= Depth /\ Depth \in Nat
  BY EchoServiceAssumption, LenProperties DEF TypeOK
<1>2. ASSUME NEW m, EchoMsgQ!Get(m)
      PROVE  /\ echo_msgq # <<>> /\ m = Head(echo_msgq) /\ m \in Item
             /\ echo_msgq' = Tail(echo_msgq)
             /\ echo_msgq' \in Seq(Item) /\ Len(echo_msgq') <= Depth
             /\ Range(echo_msgq) = {m} \cup Range(echo_msgq')
  <2>1. /\ echo_msgq # <<>> /\ m = Head(echo_msgq)
        /\ echo_msgq' = Tail(echo_msgq)
    BY <1>2 DEF EchoMsgQ!Get
  <2>2. QED
    BY <1>1, <2>1, Takes
<1>3. ASSUME NEW m \in Item, EchoMsgQ!Put(m)
      PROVE  /\ echo_msgq' = Append(echo_msgq, m)
             /\ echo_msgq' \in Seq(Item) /\ Len(echo_msgq') <= Depth
             /\ Range(echo_msgq') = Range(echo_msgq) \cup {m}
  <2>1. echo_msgq' = Append(echo_msgq, m) /\ Len(echo_msgq) < Depth
    BY <1>1, <1>3 DEF EchoMsgQ!Put, EchoMsgQ!Full
  <2>2. QED
    BY <1>1, <2>1, Puts
<1>4. QED
  BY <1>2, <1>3

LEMMA EchoBoxMoves ==
  ASSUME TypeOK
  PROVE  /\ \A m : EchoChannel!Interrupt(m)
              => /\ echoBox # <<>> /\ m = Head(echoBox) /\ m \in Item
                 /\ echoBox' = Tail(echoBox) /\ echoOn' = echoOn
                 /\ echoBox' \in Seq(Item) /\ Len(echoBox') <= Slots
                 /\ Range(echoBox) = {m} \cup Range(echoBox')
         /\ \A m \in Item : \A size : EchoChannel!Post(m, size)
              => /\ echoBox' = Append(echoBox, m) /\ echoOn' = echoOn
                 /\ echoBox' \in Seq(Item) /\ Len(echoBox') <= Slots
                 /\ Range(echoBox') = Range(echoBox) \cup {m}
<1>1. echoBox \in Seq(Item) /\ Len(echoBox) <= Slots /\ Slots \in Nat
  BY EchoServiceAssumption DEF TypeOK
<1>2. ASSUME NEW m, EchoChannel!Interrupt(m)
      PROVE  /\ echoBox # <<>> /\ m = Head(echoBox) /\ m \in Item
             /\ echoBox' = Tail(echoBox) /\ echoOn' = echoOn
             /\ echoBox' \in Seq(Item) /\ Len(echoBox') <= Slots
             /\ Range(echoBox) = {m} \cup Range(echoBox')
  <2>1. /\ echoBox # <<>> /\ m = Head(echoBox)
        /\ echoBox' = Tail(echoBox) /\ echoOn' = echoOn
    BY <1>2 DEF EchoChannel!Interrupt
  <2>2. QED
    BY <1>1, <2>1, Takes
<1>3. ASSUME NEW m \in Item, NEW size, EchoChannel!Post(m, size)
      PROVE  /\ echoBox' = Append(echoBox, m) /\ echoOn' = echoOn
             /\ echoBox' \in Seq(Item) /\ Len(echoBox') <= Slots
             /\ Range(echoBox') = Range(echoBox) \cup {m}
  <2>1. /\ echoBox' = Append(echoBox, m) /\ Len(echoBox) < Slots
        /\ echoOn' = echoOn
    BY <1>3 DEF EchoChannel!Post
  <2>2. QED
    BY <1>1, <2>1, Puts
<1>4. QED
  BY <1>2, <1>3

(* The message that main() is about to send.                               *)
Message == [n |-> idx + 1, data |-> g_last_sent, len |-> g_last_sent.len + 1]

LEMMA MessageIsItem ==
  ASSUME TypeOK, hpc = "send"
  PROVE  Message \in Item /\ Message.n = idx + 1 /\ idx + 1 \in 0..MaxSent
<1>1. /\ idx + 1 \in 0..MaxSent /\ g_last_sent \in Text
      /\ g_last_sent.len \in 0..(ECHO_MAX_LEN - 1)
  BY EchoServiceAssumption DEF TypeOK, Text
<1>2. g_last_sent.len + 1 \in 0..ECHO_MAX_LEN
  BY <1>1, EchoServiceAssumption
<1>3. QED
  BY <1>1, <1>2 DEF Message, Item

LEMMA TypeStep == TypeOK /\ [Next]_vars => TypeOK'
<1> SUFFICES ASSUME TypeOK, [Next]_vars PROVE TypeOK'
  OBVIOUS
<1> USE EchoServiceAssumption DEF hostVars, sendVars, echoVars, clientVars,
      verdictVars
<1>1. CASE HostMain \/ HostMainFails
  BY <1>1 DEF HostMain, HostMainFails, EchoChannel!Enable, TypeOK
<1>2. CASE BeginCopy
  BY <1>2 DEF BeginCopy, TypeOK
<1>3. CASE EndCopy
  <2>1. g_last_sent' \in Text
    BY <1>3, SentIsText DEF EndCopy, TypeOK
  <2>2. QED
    BY <1>3, <2>1 DEF EndCopy, TypeOK
<1>4. CASE SendString
  <2>1. /\ sendBox' \in Seq(Item) /\ Len(sendBox') <= Slots
        /\ sendOn' \in BOOLEAN
    <3>1. \/ SendChannel!Post(Message, g_last_sent.len + 1)
          \/ UNCHANGED sendVars
      BY <1>4 DEF SendString, Message
    <3>2. Message \in Item
      BY <1>4, MessageIsItem DEF SendString
    <3>3. QED
      BY <3>1, <3>2, SendBoxMoves DEF TypeOK
  <2>2. idx' \in 0..MaxSent
    BY <1>4 DEF SendString, TypeOK
  <2>3. QED
    BY <1>4, <2>1, <2>2 DEF SendString, TypeOK
<1>5. CASE HostRxCallback
  <2>1. PICK m : /\ EchoChannel!Interrupt(m) /\ Judge(m) /\ lastEcho' = m.n
                 /\ UNCHANGED <<hostVars, sendVars, clientVars>>
    BY <1>5 DEF HostRxCallback
  <2>2. /\ echoBox' \in Seq(Item) /\ Len(echoBox') <= Slots
        /\ echoOn' = echoOn /\ m \in Item
    BY <2>1, EchoBoxMoves
  <2>3. lastEcho' \in 0..MaxSent
    BY <2>1, <2>2 DEF Item
  <2>4. verdict' \in {"none", "ok", "mismatch"}
    BY <2>1 DEF Judge
  <2>5. QED
    BY <2>1, <2>2, <2>3, <2>4 DEF TypeOK
<1>6. CASE ClientMain \/ ClientMainFails \/ StartEchoTask
  BY <1>6 DEF ClientMain, ClientMainFails, StartEchoTask, SendChannel!Enable,
     TypeOK
<1>7. CASE LoseString
  <2>1. /\ sendBox' \in Seq(Item) /\ Len(sendBox') <= Slots
        /\ sendOn' = sendOn
    BY <1>7, SendBoxMoves DEF LoseString
  <2>2. QED
    BY <1>7, <2>1 DEF LoseString, TypeOK
<1>8. CASE ClientRxCallback
  <2>1. PICK m : /\ SendChannel!Interrupt(m)
                 /\ EchoMsgQ!Put(Bounded(m)) \/ EchoMsgQ!PutFails
                 /\ UNCHANGED <<hostVars, echoVars, cmain, ctask, item,
                                verdictVars>>
    BY <1>8 DEF ClientRxCallback
  <2>2. /\ sendBox' \in Seq(Item) /\ Len(sendBox') <= Slots
        /\ sendOn' = sendOn /\ m \in Item
    BY <2>1, SendBoxMoves
  <2>3. echo_msgq' \in Seq(Item) /\ Len(echo_msgq') <= Depth
    <3>1. Bounded(m) \in Item
      BY <2>2, BoundedIsItem
    <3>2. QED
      BY <2>1, <3>1, EchoQueueMoves DEF EchoMsgQ!PutFails, TypeOK
  <2>4. QED
    BY <2>1, <2>2, <2>3 DEF TypeOK
<1>9. CASE GetItem
  <2>1. EchoMsgQ!Get(item')
    BY <1>9 DEF GetItem
  <2>2. /\ echo_msgq' \in Seq(Item) /\ Len(echo_msgq') <= Depth
        /\ item' \in Item
    BY <2>1, EchoQueueMoves
  <2>3. QED
    BY <1>9, <2>2 DEF GetItem, TypeOK
<1>10. CASE SendEcho
  <2>1. item \in Item
    BY DEF TypeOK
  <2>2. /\ echoBox' \in Seq(Item) /\ Len(echoBox') <= Slots
        /\ echoOn' \in BOOLEAN
    BY <1>10, <2>1, EchoBoxMoves DEF SendEcho, TypeOK
  <2>3. QED
    BY <1>10, <2>2 DEF SendEcho, TypeOK
<1>11. CASE Rest \/ UNCHANGED vars
  BY <1>11 DEF Rest, vars, TypeOK
<1>12. QED
  BY <1>1, <1>2, <1>3, <1>4, <1>5, <1>6, <1>7, <1>8, <1>9, <1>10, <1>11
     DEF Next

(* The type invariant, and with it that no buffer of either core ever      *)
(* holds more than its size, whatever strings are sent.                    *)
THEOREM TypeCorrect == Spec => []TypeOK
BY TypeInit, TypeStep, PTL DEF Spec
-----------------------------------------------------------------------------
(* What g_last_sent holds.                                                 *)
LEMMA HoldsSentStep == TypeOK /\ HoldsSent /\ [Next]_vars => HoldsSent'
<1> SUFFICES ASSUME TypeOK, HoldsSent, [Next]_vars PROVE HoldsSent'
  OBVIOUS
<1>a. idx \in Nat /\ idx + 1 \in Nat
  BY EchoServiceAssumption DEF TypeOK
<1> USE DEF HoldsSent
<1>1. CASE HostMain
  BY <1>1 DEF HostMain
<1>2. CASE HostMainFails
  BY <1>2 DEF HostMainFails
<1>3. CASE BeginCopy
  BY <1>3 DEF BeginCopy
<1>4. CASE EndCopy
  BY <1>4 DEF EndCopy
<1>5. CASE SendString
  BY <1>5, <1>a DEF SendString
<1>6. CASE UNCHANGED hostVars
  BY <1>6 DEF hostVars
<1>7. QED
  BY <1>1, <1>2, <1>3, <1>4, <1>5, <1>6
     DEF Next, HostRxCallback, ClientMain, ClientMainFails, StartEchoTask,
         LoseString, ClientRxCallback, GetItem, SendEcho, Rest, vars

(* No step makes a message but the one that main() sends.                  *)
LEMMA MessagesMove ==
  ASSUME TypeOK, PathIntact, [Next]_vars, NEW m \in Messages'
  PROVE  m \in Messages \/ (hpc = "send" /\ m = Message)
<1> USE DEF Messages, hostVars, sendVars, echoVars, clientVars
<1>1. CASE SendString
  <2>1. /\ hpc = "send"
        /\ \/ SendChannel!Post(Message, g_last_sent.len + 1)
           \/ UNCHANGED sendVars
        /\ UNCHANGED <<echoBox, echo_msgq, ctask, item>>
    BY <1>1 DEF SendString, Message
  <2>2. Range(sendBox') \subseteq Range(sendBox) \cup {Message}
    BY <2>1, MessageIsItem, SendBoxMoves
  <2>3. QED
    BY <2>1, <2>2
<1>2. CASE HostRxCallback
  <2>1. Range(echoBox') \subseteq Range(echoBox)
    BY <1>2, EchoBoxMoves DEF HostRxCallback
  <2>2. QED
    BY <1>2, <2>1 DEF HostRxCallback
<1>3. CASE LoseString
  <2>1. Range(sendBox') \subseteq Range(sendBox)
    BY <1>3, SendBoxMoves DEF LoseString
  <2>2. QED
    BY <1>3, <2>1 DEF LoseString
<1>4. CASE ClientRxCallback
  <2>1. PICK c : /\ SendChannel!Interrupt(c)
                 /\ EchoMsgQ!Put(Bounded(c)) \/ EchoMsgQ!PutFails
                 /\ UNCHANGED <<hostVars, echoVars, cmain, ctask, item>>
    BY <1>4 DEF ClientRxCallback
  <2>2. c \in Item /\ Range(sendBox) = {c} \cup Range(sendBox')
    BY <2>1, SendBoxMoves
  <2>3. Bounded(c) = c
    BY <2>2, BoundedIsItem DEF PathIntact
  <2>4. Range(echo_msgq') \subseteq Range(echo_msgq) \cup {c}
    BY <2>1, <2>2, <2>3, EchoQueueMoves DEF EchoMsgQ!PutFails
  <2>5. QED
    BY <2>1, <2>2, <2>4
<1>5. CASE GetItem
  <2>1. EchoMsgQ!Get(item')
    BY <1>5 DEF GetItem
  <2>2. Range(echo_msgq) = {item'} \cup Range(echo_msgq')
    BY <2>1, EchoQueueMoves
  <2>3. QED
    BY <1>5, <2>2 DEF GetItem
<1>6. CASE SendEcho
  <2>1. ctask = "send" /\ ctask' = "get" /\ item \in Item
    BY <1>6 DEF SendEcho, TypeOK
  <2>2. Range(echoBox') \subseteq Range(echoBox) \cup {item}
    BY <1>6, <2>1, EchoBoxMoves DEF SendEcho
  <2>3. QED
    BY <1>6, <2>1, <2>2 DEF SendEcho
<1>7. CASE HostMain \/ HostMainFails \/ BeginCopy \/ EndCopy
  BY <1>7 DEF HostMain, HostMainFails, BeginCopy, EndCopy,
     EchoChannel!Enable
<1>8. CASE ClientMain \/ ClientMainFails \/ StartEchoTask
  BY <1>8 DEF ClientMain, ClientMainFails, StartEchoTask,
     SendChannel!Enable
<1>9. CASE Rest \/ UNCHANGED vars
  BY <1>9 DEF Rest, vars
<1>10. QED
  BY <1>1, <1>2, <1>3, <1>4, <1>5, <1>6, <1>7, <1>8, <1>9 DEF Next

LEMMA IntactInit == Init => HoldsSent /\ PathIntact
<1> SUFFICES ASSUME Init PROVE HoldsSent /\ PathIntact
  OBVIOUS
<1>1. Range(sendBox) = {} /\ Range(echoBox) = {} /\ Range(echo_msgq) = {}
  BY DEF Init, SendChannel!Init, EchoChannel!Init, EchoMsgQ!Init, Range
<1>2. QED
  BY <1>1 DEF Init, HoldsSent, PathIntact, Messages

LEMMA IntactStep ==
  TypeOK /\ HoldsSent /\ PathIntact /\ [Next]_vars => PathIntact'
<1> SUFFICES ASSUME TypeOK, HoldsSent, PathIntact, [Next]_vars,
                    NEW m \in Messages'
             PROVE  m.data = Sent(m.n) /\ m.len = m.data.len + 1
  BY DEF PathIntact
<1>1. CASE m \in Messages
  BY <1>1 DEF PathIntact
<1>2. CASE hpc = "send" /\ m = Message
  BY <1>2 DEF HoldsSent, Message
<1>3. QED
  BY <1>1, <1>2, MessagesMove

(* No buffer on the path cuts or alters a string, whatever its length: a   *)
(* string too long for the buffers is cut once, when main() copies it.     *)
THEOREM StringsStayIntact == Spec => []PathIntact
<1>1. Init => TypeOK /\ HoldsSent /\ PathIntact
  BY TypeInit, IntactInit
<1>2. TypeOK /\ HoldsSent /\ PathIntact /\ [Next]_vars
        => (TypeOK /\ HoldsSent /\ PathIntact)'
  BY TypeStep, HoldsSentStep, IntactStep
<1>3. QED
  BY <1>1, <1>2, PTL DEF Spec
-----------------------------------------------------------------------------
(* One lemma per action says what it does to the path of a string; the     *)
(* order invariant and the refinement need no more of the actions.         *)
LEMMA NumItem ==
  /\ Num \in [Item -> Nat]
  /\ \A m \in Item : Num[m] = m.n /\ m.n \in Nat
BY EchoServiceAssumption DEF Num, Item

LEMMA StagesAreNumbers ==
  ASSUME TypeOK
  PROVE  /\ Echoing \subseteq Nat /\ InHand \subseteq Nat
         /\ Queued \subseteq Nat /\ Boxed \subseteq Nat
         /\ idx \in Nat /\ lastEcho \in Nat
         /\ sendBox \in Seq(Item) /\ echo_msgq \in Seq(Item)
         /\ echoBox \in Seq(Item) /\ item \in Item
<1>1. /\ sendBox \in Seq(Item) /\ echo_msgq \in Seq(Item)
      /\ echoBox \in Seq(Item) /\ item \in Item
      /\ idx \in Nat /\ lastEcho \in Nat
  BY EchoServiceAssumption DEF TypeOK
<1>2. \A S : \A s \in Seq(S) : Range(s) \subseteq S
  BY DEF Range
<1>3. QED
  BY <1>1, <1>2, NumItem DEF Echoing, InHand, Queued, Boxed, Numbers

(* EndCopy: into Sending.                                                  *)
LEMMA EndCopyMoves ==
  ASSUME EndCopy
  PROVE  /\ Sending = {} /\ Sending' = {idx + 1} /\ hpc' = "send"
         /\ Offered = idx /\ Offered' = idx + 1
         /\ UNCHANGED <<Echoing, InHand, Queued, Boxed, idx, lastEcho, echoBox,
                        echo_msgq, sendBox>>
BY DEF EndCopy, Sending, Offered, Echoing, InHand, Queued, Boxed, sendVars,
   echoVars, clientVars, verdictVars

(* SendString: from Sending to Boxed, or lost.                             *)
LEMMA SendStringMoves ==
  ASSUME TypeOK, Rising(Num, sendBox), SendString
  PROVE  /\ Sending = {idx + 1} /\ Sending' = {} /\ idx' = idx + 1
         /\ Offered = idx + 1 /\ Offered' = idx + 1
         /\ \/ /\ Boxed' = Boxed \cup {idx + 1}
               /\ Before(Boxed, {idx + 1}) => Rising(Num, sendBox)'
            \/ UNCHANGED <<Boxed, sendBox>>
         /\ UNCHANGED <<Echoing, InHand, Queued, lastEcho, echoBox,
                        echo_msgq>>
<1>1. Message \in Item /\ Num[Message] = idx + 1
  BY MessageIsItem, NumItem DEF SendString
<1>2. \/ /\ Boxed' = Boxed \cup {idx + 1}
         /\ Before(Boxed, {idx + 1}) => Rising(Num, sendBox)'
      \/ UNCHANGED <<Boxed, sendBox>>
  <2>1. CASE SendChannel!Post(Message, g_last_sent.len + 1)
    <3>1. sendBox' = Append(sendBox, Message)
      BY <1>1, <2>1, SendBoxMoves
    <3>2. /\ Numbers(Num, Append(sendBox, Message))
               = Numbers(Num, sendBox) \cup {Num[Message]}
          /\ Before(Numbers(Num, sendBox), {Num[Message]})
               => Rising(Num, Append(sendBox, Message))
      BY <1>1, StagesAreNumbers, NumItem, NewestEnters
    <3>3. QED
      BY <1>1, <3>1, <3>2 DEF Boxed
  <2>2. CASE UNCHANGED sendVars
    BY <2>2 DEF sendVars, Boxed
  <2>3. QED
    BY <2>1, <2>2 DEF SendString, Message
<1>3. QED
  BY <1>2 DEF SendString, Sending, Offered, Echoing, InHand, Queued,
     echoVars, clientVars, verdictVars

(* LoseString: the oldest out of Boxed, lost.                              *)
LEMMA LoseStringMoves ==
  ASSUME TypeOK, Rising(Num, sendBox), LoseString
  PROVE  \E n \in Nat :
           /\ Boxed = {n} \cup Boxed' /\ Before({n}, Boxed')
           /\ Rising(Num, sendBox)'
           /\ UNCHANGED <<Echoing, InHand, Queued, Sending, Offered, idx,
                          lastEcho, echoBox, echo_msgq>>
<1>1. sendBox # <<>> /\ sendBox' = Tail(sendBox)
  BY SendBoxMoves DEF LoseString
<1>2. \E n \in Nat :
        /\ Numbers(Num, sendBox) = {n} \cup Numbers(Num, Tail(sendBox))
        /\ Before({n}, Numbers(Num, Tail(sendBox)))
        /\ Rising(Num, Tail(sendBox))
  BY <1>1, StagesAreNumbers, NumItem, OldestLeaves
<1>3. UNCHANGED <<Echoing, InHand, Queued, Sending, Offered, idx, lastEcho,
                  echoBox, echo_msgq>>
  BY DEF LoseString, Echoing, InHand, Queued, Sending, Offered, hostVars,
     echoVars, clientVars, verdictVars
<1>4. QED
  BY <1>1, <1>2, <1>3 DEF Boxed

(* ClientRxCallback: the oldest of Boxed to Queued, or lost.               *)
LEMMA ClientRxCallbackMoves ==
  ASSUME TypeOK, Rising(Num, sendBox), Rising(Num, echo_msgq),
         ClientRxCallback
  PROVE  \E n \in Nat :
           /\ Boxed = {n} \cup Boxed' /\ Before({n}, Boxed')
           /\ Rising(Num, sendBox)'
           /\ \/ /\ Queued' = Queued \cup {n}
                 /\ Before(Queued, {n}) => Rising(Num, echo_msgq)'
              \/ UNCHANGED <<Queued, echo_msgq>>
           /\ UNCHANGED <<Echoing, InHand, Sending, Offered, idx, lastEcho,
                          echoBox>>
<1>1. PICK m : /\ SendChannel!Interrupt(m)
               /\ EchoMsgQ!Put(Bounded(m)) \/ EchoMsgQ!PutFails
  BY DEF ClientRxCallback
<1>2. /\ sendBox # <<>> /\ sendBox' = Tail(sendBox) /\ m = Head(sendBox)
      /\ m \in Item
  BY <1>1, SendBoxMoves
<1>3. /\ Boxed = {m.n} \cup Boxed' /\ Before({m.n}, Boxed')
      /\ Rising(Num, sendBox)'
  <2>1. \E n \in Nat :
          /\ n = Num[Head(sendBox)]
          /\ Numbers(Num, sendBox) = {n} \cup Numbers(Num, Tail(sendBox))
          /\ Before({n}, Numbers(Num, Tail(sendBox)))
          /\ Rising(Num, Tail(sendBox))
    BY <1>2, StagesAreNumbers, NumItem, OldestLeaves
  <2>2. QED
    BY <1>2, <2>1, NumItem DEF Boxed
<1>4. \/ /\ Queued' = Queued \cup {m.n}
         /\ Before(Queued, {m.n}) => Rising(Num, echo_msgq)'
      \/ UNCHANGED <<Queued, echo_msgq>>
  <2>1. CASE EchoMsgQ!Put(Bounded(m))
    <3>1. Bounded(m) \in Item /\ Num[Bounded(m)] = m.n
      BY <1>2, BoundedIsItem, NumItem
    <3>2. echo_msgq' = Append(echo_msgq, Bounded(m))
      BY <2>1, <3>1, EchoQueueMoves
    <3>3. /\ Numbers(Num, Append(echo_msgq, Bounded(m)))
               = Numbers(Num, echo_msgq) \cup {Num[Bounded(m)]}
          /\ Before(Numbers(Num, echo_msgq), {Num[Bounded(m)]})
               => Rising(Num, Append(echo_msgq, Bounded(m)))
      BY <3>1, StagesAreNumbers, NumItem, NewestEnters
    <3>4. QED
      BY <3>1, <3>2, <3>3 DEF Queued
  <2>2. CASE EchoMsgQ!PutFails
    BY <2>2 DEF EchoMsgQ!PutFails, Queued
  <2>3. QED
    BY <1>1, <2>1, <2>2
<1>5. UNCHANGED <<Echoing, InHand, Sending, Offered, idx, lastEcho, echoBox>>
  BY DEF ClientRxCallback, Echoing, InHand, Sending, Offered, hostVars,
     echoVars, verdictVars
<1>6. QED
  BY <1>2, <1>3, <1>4, <1>5, NumItem

(* GetItem: the oldest of Queued to InHand.                                *)
LEMMA GetItemMoves ==
  ASSUME TypeOK, Rising(Num, echo_msgq), GetItem
  PROVE  /\ item'.n \in Nat
         /\ Queued = {item'.n} \cup Queued' /\ Before({item'.n}, Queued')
         /\ Rising(Num, echo_msgq)'
         /\ InHand = {} /\ InHand' = {item'.n}
         /\ UNCHANGED <<Echoing, Boxed, Sending, Offered, idx, lastEcho,
                        echoBox, sendBox>>
<1>1. EchoMsgQ!Get(item')
  BY DEF GetItem
<1>2. /\ echo_msgq # <<>> /\ echo_msgq' = Tail(echo_msgq)
      /\ item' = Head(echo_msgq) /\ item' \in Item
  BY <1>1, EchoQueueMoves
<1>3. /\ Queued = {item'.n} \cup Queued' /\ Before({item'.n}, Queued')
      /\ Rising(Num, echo_msgq)' /\ item'.n \in Nat
  <2>1. \E n \in Nat :
          /\ n = Num[Head(echo_msgq)]
          /\ Numbers(Num, echo_msgq) = {n} \cup Numbers(Num, Tail(echo_msgq))
          /\ Before({n}, Numbers(Num, Tail(echo_msgq)))
          /\ Rising(Num, Tail(echo_msgq))
    BY <1>2, StagesAreNumbers, NumItem, OldestLeaves
  <2>2. Num[Head(echo_msgq)] = item'.n
    BY <1>2, NumItem
  <2>3. QED
    BY <1>2, <2>1, <2>2 DEF Queued
<1>4. InHand = {} /\ InHand' = {item'.n}
  BY DEF GetItem, InHand
<1>5. UNCHANGED <<Echoing, Boxed, Sending, Offered, idx, lastEcho, echoBox,
                  sendBox>>
  BY DEF GetItem, Echoing, Boxed, Sending, Offered, hostVars, sendVars,
     echoVars, verdictVars
<1>6. QED
  BY <1>3, <1>4, <1>5

(* SendEcho: from InHand to Echoing, or lost.                              *)
LEMMA SendEchoMoves ==
  ASSUME TypeOK, Rising(Num, echoBox), SendEcho
  PROVE  /\ item.n \in Nat /\ InHand = {item.n} /\ InHand' = {}
         /\ \/ /\ Echoing' = Echoing \cup {item.n}
               /\ Before(Echoing, {item.n}) => Rising(Num, echoBox)'
            \/ UNCHANGED <<Echoing, echoBox>>
         /\ UNCHANGED <<Queued, Boxed, Sending, Offered, idx, lastEcho,
                        echo_msgq, sendBox>>
<1>1. item \in Item /\ Num[item] = item.n /\ item.n \in Nat
  BY StagesAreNumbers, NumItem
<1>2. \/ /\ Echoing' = Echoing \cup {item.n}
         /\ Before(Echoing, {item.n}) => Rising(Num, echoBox)'
      \/ UNCHANGED <<Echoing, echoBox>>
  <2>1. CASE EchoChannel!Post(item, item.len)
    <3>1. echoBox' = Append(echoBox, item)
      BY <1>1, <2>1, EchoBoxMoves
    <3>2. /\ Numbers(Num, Append(echoBox, item))
               = Numbers(Num, echoBox) \cup {Num[item]}
          /\ Before(Numbers(Num, echoBox), {Num[item]})
               => Rising(Num, Append(echoBox, item))
      BY <1>1, StagesAreNumbers, NumItem, NewestEnters
    <3>3. QED
      BY <1>1, <3>1, <3>2 DEF Echoing
  <2>2. CASE UNCHANGED echoVars
    BY <2>2 DEF echoVars, Echoing
  <2>3. QED
    BY <2>1, <2>2 DEF SendEcho
<1>3. InHand = {item.n} /\ InHand' = {}
  BY DEF SendEcho, InHand
<1>4. UNCHANGED <<Queued, Boxed, Sending, Offered, idx, lastEcho, echo_msgq,
                  sendBox>>
  BY DEF SendEcho, Queued, Boxed, Sending, Offered, hostVars, sendVars,
     verdictVars
<1>5. QED
  BY <1>1, <1>2, <1>3, <1>4

(* HostRxCallback: the oldest of Echoing is judged.                        *)
LEMMA HostRxCallbackMoves ==
  ASSUME TypeOK, Rising(Num, echoBox), HostRxCallback
  PROVE  \E m \in Item :
           /\ Judge(m) /\ m \in Messages /\ lastEcho' = m.n /\ m.n \in Nat
           /\ Echoing = {m.n} \cup Echoing' /\ Before({m.n}, Echoing')
           /\ Rising(Num, echoBox)'
           /\ UNCHANGED <<InHand, Queued, Boxed, Sending, Offered, idx, hpc,
                          g_last_sent, echo_msgq, sendBox>>
<1>1. PICK m : EchoChannel!Interrupt(m) /\ Judge(m) /\ lastEcho' = m.n
  BY DEF HostRxCallback
<1>2. /\ echoBox # <<>> /\ echoBox' = Tail(echoBox) /\ m = Head(echoBox)
      /\ m \in Item /\ m \in Messages
  BY <1>1, EchoBoxMoves DEF Messages
<1>3. /\ Echoing = {m.n} \cup Echoing' /\ Before({m.n}, Echoing')
      /\ Rising(Num, echoBox)'
  <2>1. \E n \in Nat :
          /\ n = Num[Head(echoBox)]
          /\ Numbers(Num, echoBox) = {n} \cup Numbers(Num, Tail(echoBox))
          /\ Before({n}, Numbers(Num, Tail(echoBox)))
          /\ Rising(Num, Tail(echoBox))
    BY <1>2, StagesAreNumbers, NumItem, OldestLeaves
  <2>2. QED
    BY <1>2, <2>1, NumItem DEF Echoing
<1>4. UNCHANGED <<InHand, Queued, Boxed, Sending, Offered, idx, hpc,
                  g_last_sent, echo_msgq, sendBox>>
  BY DEF HostRxCallback, InHand, Queued, Boxed, Sending, Offered, hostVars,
     sendVars, clientVars
<1>5. QED
  BY <1>1, <1>2, <1>3, <1>4, NumItem

(* All other steps leave every string where it is.                         *)
Quiet ==
  \/ HostMain \/ HostMainFails \/ BeginCopy
  \/ ClientMain \/ ClientMainFails \/ StartEchoTask \/ Rest
  \/ UNCHANGED vars

LEMMA QuietMoves ==
  ASSUME TypeOK, Quiet
  PROVE  UNCHANGED <<Echoing, InHand, Queued, Boxed, Sending, Offered, idx,
                     lastEcho, echoBox, echo_msgq, sendBox>>
<1> USE DEF Echoing, InHand, Queued, Boxed, Sending, Offered, hostVars,
      sendVars, echoVars, clientVars, verdictVars
<1>1. CASE HostMain \/ HostMainFails \/ BeginCopy
  BY <1>1 DEF HostMain, HostMainFails, BeginCopy, EchoChannel!Enable
<1>2. CASE ClientMain \/ ClientMainFails
  BY <1>2 DEF ClientMain, ClientMainFails, SendChannel!Enable
<1>3. CASE StartEchoTask
  BY <1>3 DEF StartEchoTask, TypeOK
<1>4. CASE Rest \/ UNCHANGED vars
  BY <1>4 DEF Rest, vars
<1>5. QED
  BY <1>1, <1>2, <1>3, <1>4 DEF Quiet
-----------------------------------------------------------------------------
LEMMA Empty ==
  ASSUME Init
  PROVE  /\ Echoing = {} /\ InHand = {} /\ Queued = {} /\ Boxed = {}
         /\ Sending = {} /\ Offered = 0 /\ idx = 0 /\ lastEcho = 0
         /\ sendBox = <<>> /\ echo_msgq = <<>> /\ echoBox = <<>>
<1>1. sendBox = <<>> /\ echo_msgq = <<>> /\ echoBox = <<>>
  BY DEF Init, SendChannel!Init, EchoChannel!Init, EchoMsgQ!Init
<1>2. Numbers(Num, <<>>) = {}
  BY DEF Numbers, Range
<1>3. QED
  BY <1>1, <1>2
     DEF Init, Echoing, InHand, Queued, Boxed, Sending, Offered

LEMMA InOrderInit == Init => InOrder
<1> SUFFICES ASSUME Init PROVE InOrder
  OBVIOUS
<1>1. Rising(Num, <<>>)
  BY DEF Rising
<1>2. QED
  BY <1>1, Empty DEF InOrder, Underway, Before

LEMMA InOrderStep == TypeOK /\ InOrder /\ [Next]_vars => InOrder'
<1> SUFFICES ASSUME TypeOK, InOrder, [Next]_vars PROVE InOrder'
  OBVIOUS
<1>a. Rising(Num, echoBox) /\ Rising(Num, echo_msgq) /\ Rising(Num, sendBox)
  BY DEF InOrder
<1>b. \A n \in Nat : n <= idx => n <= idx + 1 /\ n < idx + 1
  BY StagesAreNumbers
<1> USE StagesAreNumbers DEF InOrder, Underway, Before
<1>1. CASE EndCopy
  BY <1>1, EndCopyMoves
<1>2. CASE SendString
  BY <1>2, <1>a, <1>b, SendStringMoves
<1>3. CASE LoseString
  BY <1>3, <1>a, LoseStringMoves
<1>4. CASE ClientRxCallback
  BY <1>4, <1>a, ClientRxCallbackMoves
<1>5. CASE GetItem
  BY <1>5, <1>a, GetItemMoves
<1>6. CASE SendEcho
  BY <1>6, <1>a, SendEchoMoves
<1>7. CASE HostRxCallback
  BY <1>7, <1>a, HostRxCallbackMoves
<1>8. CASE Quiet
  BY <1>8, QuietMoves
<1>9. QED
  BY <1>1, <1>2, <1>3, <1>4, <1>5, <1>6, <1>7, <1>8 DEF Next, Quiet

(* On their whole way to the client and back strings stay in the order in  *)
(* which they were sent, and are newer than the echo judged last.          *)
THEOREM PathInOrder == Spec => []InOrder
<1>1. Init => TypeOK /\ InOrder
  BY TypeInit, InOrderInit
<1>2. TypeOK /\ InOrder /\ [Next]_vars => (TypeOK /\ InOrder)'
  BY TypeStep, InOrderStep
<1>3. QED
  BY <1>1, <1>2, PTL DEF Spec

LEMMA OrderAlways == Spec => [](TypeOK /\ HoldsSent /\ PathIntact /\ InOrder)
<1>1. Init => HoldsSent /\ PathIntact
  BY IntactInit
<1>2. TypeOK /\ HoldsSent /\ PathIntact /\ [Next]_vars
        => (HoldsSent /\ PathIntact)'
  BY HoldsSentStep, IntactStep
<1>3. QED
  BY <1>1, <1>2, TypeCorrect, PathInOrder, PTL DEF Spec
-----------------------------------------------------------------------------
(* Only HostRxCallback judges an echo.                                     *)
LEMMA OnlyHostRxCallbackJudges ==
  ASSUME TypeOK, InOrder, [Next]_vars, Judged
  PROVE  HostRxCallback
<1>a. Rising(Num, echoBox) /\ Rising(Num, echo_msgq) /\ Rising(Num, sendBox)
  BY DEF InOrder
<1>1. EndCopy \/ Quiet => UNCHANGED lastEcho
  BY EndCopyMoves, QuietMoves
<1>2. SendString \/ SendEcho => UNCHANGED lastEcho
  BY <1>a, SendStringMoves, SendEchoMoves
<1>3. LoseString \/ ClientRxCallback \/ GetItem => UNCHANGED lastEcho
  BY <1>a, LoseStringMoves, ClientRxCallbackMoves, GetItemMoves
<1>4. QED
  BY <1>1, <1>2, <1>3 DEF Next, Quiet, Judged

(* Outside of main()'s copying, g_last_sent is the string last offered.    *)
LEMMA LastSentIsOffered ==
  ASSUME TypeOK, HoldsSent, hpc # "copying", idx > 0
  PROVE  g_last_sent = Sent(Offered)
<1>1. hpc \in {"copy", "send"}
  BY StagesAreNumbers DEF TypeOK, HoldsSent
<1>2. QED
  BY <1>1 DEF HoldsSent, Offered

LEMMA VerdictStep ==
  ASSUME TypeOK, HoldsSent, PathIntact, InOrder, [Next]_vars, Judged,
         hpc # "copying"
  PROVE  verdict' = "ok" <=> Sent(lastEcho') = Sent(Offered)
<1>1. HostRxCallback
  BY OnlyHostRxCallbackJudges
<1>2. PICK m \in Item :
        /\ Judge(m) /\ m \in Messages /\ lastEcho' = m.n /\ m.n \in Nat
        /\ Echoing = {m.n} \cup Echoing'
  BY <1>1, HostRxCallbackMoves DEF InOrder
<1>3. g_last_sent = Sent(Offered)
  <2>1. m.n \in Underway
    BY <1>2 DEF Underway
  <2>2. lastEcho < m.n /\ m.n <= idx
    BY <2>1 DEF InOrder
  <2>3. idx > 0
    BY <1>2, <2>2, StagesAreNumbers
  <2>4. QED
    BY <2>3, LastSentIsOffered
<1>4. Cut(m.data, Smaller(m.len, ECHO_MAX_LEN - 1)) = m.data
  <2>1. /\ m.data \in Text /\ m.data.len \in Nat
        /\ m.data.len <= ECHO_MAX_LEN - 1 /\ ECHO_MAX_LEN - 1 \in Nat
        /\ m.len \in Nat
    BY EchoServiceAssumption DEF Item, Text
  <2>2. m.len = m.data.len + 1
    BY <1>2 DEF PathIntact
  <2>3. /\ Smaller(m.len, ECHO_MAX_LEN - 1) \in Nat
        /\ m.data.len <= Smaller(m.len, ECHO_MAX_LEN - 1)
    BY <2>1, <2>2 DEF Smaller
  <2>4. QED
    BY <2>1, <2>3, CutBeyondEnd
<1>5. m.data = Sent(lastEcho')
  BY <1>2 DEF PathIntact
<1>6. QED
  BY <1>2, <1>3, <1>4, <1>5 DEF Judge

(* What a verdict means: unless the callback interrupted main()'s copying, *)
(* the host says OK exactly when the string it got back equals the one it  *)
(* sent last, so a mismatch always means a late echo, never a damaged one. *)
THEOREM VerdictsTellLateness == Spec => VerdictTellsLateness
<1>1. TypeOK /\ HoldsSent /\ PathIntact /\ InOrder /\ [Next]_vars
        => [Judged /\ hpc # "copying"
              => (verdict' = "ok" <=> Sent(lastEcho') = Sent(Offered))]_vars
  BY VerdictStep
<1>2. QED
  BY <1>1, OrderAlways, PTL DEF Spec, VerdictTellsLateness
-----------------------------------------------------------------------------
(* The lab implements lossy delivery in order: each step of the two cores  *)
(* is a step of InOrderDelivery or leaves its state alone.                 *)
LEMMA InFlightStages == TypeOK => InFlight = Underway \cup Sending
<1> SUFFICES ASSUME TypeOK PROVE InFlight = Underway \cup Sending
  OBVIOUS
<1>1. \A S : \A s \in Seq(S) : Range(s) \subseteq S
  BY DEF Range
<1>2. /\ {m.n : m \in Range(sendBox)} = Boxed
      /\ {m.n : m \in Range(echo_msgq)} = Queued
      /\ {m.n : m \in Range(echoBox)} = Echoing
  BY <1>1, StagesAreNumbers, NumItem DEF Boxed, Queued, Echoing, Numbers
<1>3. {m.n : m \in Messages} = Boxed \cup Queued \cup Echoing \cup InHand
  BY <1>2 DEF Messages, InHand
<1>4. QED
  BY <1>3 DEF InFlight, Underway, Sending

LEMMA ServiceStep ==
  TypeOK /\ InOrder /\ InFlight' = (Underway \cup Sending)'
    /\ [Next]_vars => [Service!Next]_<<Offered, InFlight, lastEcho>>
<1> SUFFICES ASSUME TypeOK, InOrder, InFlight' = (Underway \cup Sending)',
                    [Next]_vars
             PROVE  \/ Service!Next
                    \/ UNCHANGED <<Offered, InFlight, lastEcho>>
  OBVIOUS
<1>a. Rising(Num, echoBox) /\ Rising(Num, echo_msgq) /\ Rising(Num, sendBox)
  BY DEF InOrder
<1>b. \A n \in InFlight : Service!Lose(n) \/ Service!Answer(n) => Service!Next
  BY DEF Service!Next
<1>c. /\ InFlight = Echoing \cup InHand \cup Queued \cup Boxed \cup Sending
      /\ InFlight' = Echoing' \cup InHand' \cup Queued' \cup Boxed'
                       \cup Sending'
  BY InFlightStages DEF Underway
<1>d. /\ Sending \subseteq {idx + 1} /\ idx \in Nat
      /\ idx + 1 \notin Underway
      /\ \A m \in Underway : m < idx + 1
  BY StagesAreNumbers DEF InOrder, Underway, Sending
<1> USE StagesAreNumbers
<1>1. CASE EndCopy
  <2>1. Service!Offer
    BY <1>1, <1>c, EndCopyMoves DEF Service!Offer
  <2>2. QED
    BY <2>1 DEF Service!Next
<1>2. CASE SendString
  <2>1. /\ Sending = {idx + 1} /\ Sending' = {}
        /\ Boxed' = Boxed \cup {idx + 1} \/ UNCHANGED Boxed
        /\ UNCHANGED <<Echoing, InHand, Queued, Offered, lastEcho>>
    BY <1>2, <1>a, SendStringMoves
  <2>2. CASE Boxed' = Boxed \cup {idx + 1}
    BY <1>c, <2>1, <2>2
  <2>3. CASE UNCHANGED Boxed
    <3>1. InFlight' = InFlight \ {idx + 1} /\ idx + 1 \in InFlight
      BY <1>c, <1>d, <2>1, <2>3 DEF Underway
    <3>2. Service!Lose(idx + 1)
      BY <2>1, <3>1 DEF Service!Lose
    <3>3. QED
      BY <1>b, <3>1, <3>2
  <2>4. QED
    BY <2>1, <2>2, <2>3
<1>3. CASE LoseString
  <2>1. PICK n \in Nat :
          /\ Boxed = {n} \cup Boxed' /\ Before({n}, Boxed')
          /\ UNCHANGED <<Echoing, InHand, Queued, Sending, Offered, lastEcho>>
    BY <1>3, <1>a, LoseStringMoves
  <2>2. InFlight' = InFlight \ {n} /\ n \in InFlight
    BY <1>c, <1>d, <2>1 DEF InOrder, Underway, Before
  <2>3. Service!Lose(n)
    BY <2>1, <2>2 DEF Service!Lose
  <2>4. QED
    BY <1>b, <2>2, <2>3
<1>4. CASE ClientRxCallback
  <2>1. PICK n \in Nat :
          /\ Boxed = {n} \cup Boxed' /\ Before({n}, Boxed')
          /\ Queued' = Queued \cup {n} \/ UNCHANGED Queued
          /\ UNCHANGED <<Echoing, InHand, Sending, Offered, lastEcho>>
    BY <1>4, <1>a, ClientRxCallbackMoves
  <2>2. CASE Queued' = Queued \cup {n}
    BY <1>c, <2>1, <2>2
  <2>3. CASE UNCHANGED Queued
    <3>1. InFlight' = InFlight \ {n} /\ n \in InFlight
      BY <1>c, <1>d, <2>1, <2>3 DEF InOrder, Underway, Before
    <3>2. Service!Lose(n)
      BY <2>1, <3>1 DEF Service!Lose
    <3>3. QED
      BY <1>b, <3>1, <3>2
  <2>4. QED
    BY <2>1, <2>2, <2>3
<1>5. CASE GetItem
  BY <1>5, <1>a, <1>c, GetItemMoves
<1>6. CASE SendEcho
  <2>1. /\ item.n \in Nat /\ InHand = {item.n} /\ InHand' = {}
        /\ Echoing' = Echoing \cup {item.n} \/ UNCHANGED Echoing
        /\ UNCHANGED <<Queued, Boxed, Sending, Offered, lastEcho>>
    BY <1>6, <1>a, SendEchoMoves
  <2>2. CASE Echoing' = Echoing \cup {item.n}
    BY <1>c, <2>1, <2>2
  <2>3. CASE UNCHANGED Echoing
    <3>1. InFlight' = InFlight \ {item.n} /\ item.n \in InFlight
      BY <1>c, <1>d, <2>1, <2>3 DEF InOrder, Underway, Before
    <3>2. Service!Lose(item.n)
      BY <2>1, <3>1 DEF Service!Lose
    <3>3. QED
      BY <1>b, <3>1, <3>2
  <2>4. QED
    BY <2>1, <2>2, <2>3
<1>7. CASE HostRxCallback
  <2>1. PICK n \in Nat :
          /\ lastEcho' = n
          /\ Echoing = {n} \cup Echoing' /\ Before({n}, Echoing')
          /\ UNCHANGED <<InHand, Queued, Boxed, Sending, Offered>>
    BY <1>7, <1>a, HostRxCallbackMoves
  <2>2. InFlight' = InFlight \ {n} /\ n \in InFlight
    BY <1>c, <1>d, <2>1 DEF InOrder, Underway, Before
  <2>3. n > lastEcho /\ \A m \in InFlight : n <= m
    <3>1. n \in Echoing /\ n \in Underway
      BY <2>1 DEF Underway
    <3>2. n > lastEcho
      BY <2>1, <3>1 DEF InOrder
    <3>3. \A m \in Echoing : n <= m
      BY <2>1 DEF Before
    <3>4. \A m \in InHand \cup Queued \cup Boxed : n <= m
      BY <3>1 DEF InOrder, Before
    <3>5. \A m \in Sending : n <= m
      BY <1>d, <2>1, <3>1
    <3>6. QED
      BY <1>c, <3>2, <3>3, <3>4, <3>5
  <2>4. Service!Answer(n)
    BY <2>1, <2>2, <2>3 DEF Service!Answer
  <2>5. QED
    BY <1>b, <2>2, <2>4
<1>8. CASE Quiet
  BY <1>8, <1>c, QuietMoves
<1>9. QED
  BY <1>1, <1>2, <1>3, <1>4, <1>5, <1>6, <1>7, <1>8 DEF Next, Quiet

(* Strings come back in the order in which they were sent, each at most    *)
(* once, and no string comes back that was not sent: whatever is lost, and *)
(* for every size of the mailbox and of the queue.                         *)
THEOREM EchoesInOrder == Spec => EchoedInOrder
<1>1. Init => Service!Init
  <2> SUFFICES ASSUME Init PROVE Service!Init
    OBVIOUS
  <2>1. InFlight = {}
    BY TypeInit, InFlightStages, Empty DEF Underway
  <2>2. QED
    BY <2>1, Empty DEF Service!Init
<1>2. TypeOK' => InFlight' = (Underway \cup Sending)'
  <2>1. (TypeOK => InFlight = Underway \cup Sending)'
    BY InFlightStages, PTL
  <2>2. QED
    BY <2>1
<1>3. TypeOK /\ TypeOK' /\ InOrder /\ [Next]_vars
        => [Service!Next]_<<Offered, InFlight, lastEcho>>
  BY <1>2, ServiceStep
<1>4. QED
  BY <1>1, <1>3, TypeCorrect, PathInOrder, PTL
     DEF Spec, EchoedInOrder, Service!Spec
=============================================================================
