--------------------------- MODULE PingPongProofs ---------------------------
(***************************************************************************)
(* Theorems about PingPong, for every capacity of the mailbox and of the   *)
(* queues, every MTU and every even number at which seq wraps around.      *)
(***************************************************************************)
EXTENDS PingPong, QueueLemmas

LEMMA SmallSeqs == 0 \in Seq32 /\ 1 \in Seq32 /\ Seq32 \subseteq Nat
BY PingPongAssumption DEF Seq32

LEMMA NextSeq == ASSUME NEW n \in Seq32 PROVE (n + 1) % Modulus \in Seq32
BY PingPongAssumption DEF Seq32

LEMMA TypeInit == Init => TypeOK
<1> SUFFICES ASSUME Init PROVE TypeOK
  OBVIOUS
<1>1. /\ hq = <<>> /\ cq = <<>> /\ pingBox = <<>> /\ pongBox = <<>>
      /\ pingOn = FALSE /\ pongOn = FALSE
  BY DEF Init, PingChannel!Init, PongChannel!Init, HostMsgQ!Init,
     ClientMsgQ!Init
<1>2. <<>> \in Seq(Seq32) /\ Len(<<>>) = 0 /\ 0 <= Slots /\ 0 <= Depth
  BY EmptySeq, PingPongAssumption
<1>3. /\ hmain = "boot" /\ htask = "off" /\ hmsg = 0
      /\ cmain = "boot" /\ ctask = "off" /\ cmsg = 0 /\ lastPing = 0
  BY DEF Init
<1>4. led0 \in BOOLEAN /\ ledError \in BOOLEAN /\ lost \in BOOLEAN
  BY DEF Init
<1>5. QED
  BY <1>1, <1>2, <1>3, <1>4, SmallSeqs DEF TypeOK

(* send_ping() of a seq of 32 bits.                                        *)
LEMMA SendPingTypes ==
  ASSUME TypeOK, NEW seq \in Seq32, SendPing(seq)
  PROVE  /\ lastPing' \in Seq32 /\ lost' \in BOOLEAN
         /\ pingBox' \in Seq(Seq32) /\ Len(pingBox') <= Slots
         /\ pingOn' \in BOOLEAN
<1>1. CASE PingChannel!Post(seq, MsgSize) /\ UNCHANGED lost
  <2>1. /\ pingBox' \in Seq(Seq32) /\ Len(pingBox') = Len(pingBox) + 1
        /\ Len(pingBox) \in Nat
    BY <1>1, AfterAppend DEF PingChannel!Post, TypeOK
  <2>2. QED
    BY <1>1, <2>1, PingPongAssumption DEF SendPing, PingChannel!Post, TypeOK
<1>2. CASE lost' = TRUE /\ UNCHANGED pingVars
  BY <1>2 DEF SendPing, TypeOK, pingVars
<1>3. QED
  BY <1>1, <1>2 DEF SendPing

LEMMA TypeStep == TypeOK /\ [Next]_vars => TypeOK'
<1> SUFFICES ASSUME TypeOK, [Next]_vars PROVE TypeOK'
  OBVIOUS
<1> USE PingPongAssumption DEF hostVars, clientVars, pingVars, pongVars
<1>1. CASE HostMain
  BY <1>1 DEF HostMain, PongChannel!Enable, TypeOK
<1>2. CASE HostMainFails
  BY <1>2 DEF HostMainFails, TypeOK
<1>3. CASE FirstPing
  <2>1. /\ lastPing' \in Seq32 /\ lost' \in BOOLEAN
        /\ pingBox' \in Seq(Seq32) /\ Len(pingBox') <= Slots
        /\ pingOn' \in BOOLEAN
    BY <1>3, SendPingTypes, SmallSeqs DEF FirstPing
  <2>2. QED
    BY <1>3, <2>1 DEF FirstPing, TypeOK
<1>4. CASE HostRxCallback
  <2>1. PICK m \in Range(pongBox) :
          /\ PongChannel!Interrupt(m)
          /\ \/ HostMsgQ!Put(m) /\ UNCHANGED lost
             \/ HostMsgQ!PutFails /\ lost' = TRUE
          /\ UNCHANGED <<hmain, htask, hmsg, clientVars, pingVars, lastPing>>
    BY <1>4 DEF HostRxCallback
  <2>2. /\ pongBox' \in Seq(Seq32) /\ Len(pongBox) = Len(pongBox') + 1
        /\ Len(pongBox') \in Nat /\ m \in Seq32 /\ pongOn' = pongOn
    BY <2>1, AfterTail DEF PongChannel!Interrupt, TypeOK
  <2>3. hq' \in Seq(Seq32) /\ Len(hq') <= Depth
    <3>1. CASE HostMsgQ!Put(m)
      BY <2>2, <3>1, AfterAppend DEF HostMsgQ!Put, HostMsgQ!Full, TypeOK
    <3>2. CASE HostMsgQ!PutFails
      BY <3>2 DEF HostMsgQ!PutFails, TypeOK
    <3>3. QED
      BY <2>1, <3>1, <3>2
  <2>4. lost' \in BOOLEAN
    BY <2>1 DEF TypeOK
  <2>5. QED
    BY <2>1, <2>2, <2>3, <2>4 DEF TypeOK
<1>5. CASE GetPong
  <2>1. PICK m \in Range(hq) : HostMsgQ!Get(m) /\ hmsg' = m
    BY <1>5 DEF GetPong
  <2>2. /\ hq' \in Seq(Seq32) /\ Len(hq) = Len(hq') + 1 /\ Len(hq') \in Nat
        /\ m \in Seq32
    BY <2>1, AfterTail DEF HostMsgQ!Get, TypeOK
  <2>3. QED
    BY <1>5, <2>1, <2>2 DEF GetPong, TypeOK
<1>6. CASE NextPing
  <2>1. (hmsg + 1) % Modulus \in Seq32
    BY NextSeq DEF TypeOK
  <2>2. /\ lastPing' \in Seq32 /\ lost' \in BOOLEAN
        /\ pingBox' \in Seq(Seq32) /\ Len(pingBox') <= Slots
        /\ pingOn' \in BOOLEAN
    BY <1>6, <2>1, SendPingTypes DEF NextPing
  <2>3. QED
    BY <1>6, <2>2 DEF NextPing, TypeOK
<1>7. CASE ClientMain
  BY <1>7 DEF ClientMain, PingChannel!Enable, TypeOK
<1>8. CASE ClientMainFails
  BY <1>8 DEF ClientMainFails, TypeOK
<1>9. CASE StartPongTask
  BY <1>9 DEF StartPongTask, TypeOK
<1>10. CASE LosePing
  <2>1. /\ pingBox' \in Seq(Seq32) /\ Len(pingBox) = Len(pingBox') + 1
        /\ Len(pingBox') \in Nat /\ pingOn' = pingOn
    BY <1>10, AfterTail DEF LosePing, PingChannel!Discard, TypeOK
  <2>2. QED
    BY <1>10, <2>1 DEF LosePing, TypeOK
<1>11. CASE ClientRxCallback
  <2>1. PICK m \in Range(pingBox) :
          /\ PingChannel!Interrupt(m)
          /\ \/ ClientMsgQ!Put(m) /\ UNCHANGED lost
             \/ ClientMsgQ!PutFails /\ lost' = TRUE
          /\ UNCHANGED <<hostVars, cmain, ctask, cmsg, led0, ledError, pongVars,
                         lastPing>>
    BY <1>11 DEF ClientRxCallback
  <2>2. /\ pingBox' \in Seq(Seq32) /\ Len(pingBox) = Len(pingBox') + 1
        /\ Len(pingBox') \in Nat /\ m \in Seq32 /\ pingOn' = pingOn
    BY <2>1, AfterTail DEF PingChannel!Interrupt, TypeOK
  <2>3. cq' \in Seq(Seq32) /\ Len(cq') <= Depth
    <3>1. CASE ClientMsgQ!Put(m)
      BY <2>2, <3>1, AfterAppend DEF ClientMsgQ!Put, ClientMsgQ!Full, TypeOK
    <3>2. CASE ClientMsgQ!PutFails
      BY <3>2 DEF ClientMsgQ!PutFails, TypeOK
    <3>3. QED
      BY <2>1, <3>1, <3>2
  <2>4. lost' \in BOOLEAN
    BY <2>1 DEF TypeOK
  <2>5. QED
    BY <2>1, <2>2, <2>3, <2>4 DEF TypeOK
<1>12. CASE GetPing
  <2>1. PICK m \in Range(cq) : ClientMsgQ!Get(m) /\ cmsg' = m
    BY <1>12 DEF GetPing
  <2>2. /\ cq' \in Seq(Seq32) /\ Len(cq) = Len(cq') + 1 /\ Len(cq') \in Nat
        /\ m \in Seq32
    BY <2>1, AfterTail DEF ClientMsgQ!Get, TypeOK
  <2>3. QED
    BY <1>12, <2>1, <2>2 DEF GetPing, TypeOK
<1>13. CASE ToggleLed
  <2>1. led0' \in BOOLEAN /\ ledError' \in BOOLEAN
    BY <1>13 DEF ToggleLed, TypeOK
  <2>2. QED
    BY <1>13, <2>1 DEF ToggleLed, TypeOK
<1>14. CASE SendPong
  <2>1. CASE PongChannel!Post(cmsg, MsgSize) /\ UNCHANGED lost
    <3>1. /\ pongBox' \in Seq(Seq32) /\ Len(pongBox') = Len(pongBox) + 1
          /\ Len(pongBox') <= Slots /\ pongOn' = pongOn
      BY <2>1, AfterAppend DEF PongChannel!Post, TypeOK
    <3>2. QED
      BY <1>14, <2>1, <3>1 DEF SendPong, TypeOK
  <2>2. CASE lost' = TRUE /\ UNCHANGED pongVars
    BY <1>14, <2>2 DEF SendPong, TypeOK
  <2>3. QED
    BY <1>14, <2>1, <2>2 DEF SendPong
<1>15. CASE UNCHANGED vars
  BY <1>15 DEF vars, TypeOK
<1>16. CASE Rest
  BY <1>15, <1>16 DEF Rest
<1>17. QED
  BY <1>1, <1>2, <1>3, <1>4, <1>5, <1>6, <1>7, <1>8, <1>9, <1>10, <1>11, <1>12,
     <1>13, <1>14, <1>15, <1>16 DEF Next

(* Type correctness: each core's task exists exactly when its main() has   *)
(* created it, and no buffer exceeds its size.                             *)
THEOREM TypeCorrect == Spec => []TypeOK
BY TypeInit, TypeStep, PTL DEF Spec
-----------------------------------------------------------------------------
(* How a step moves the ball: by how much the counts of messages change at *)
(* the host, on the way to LED0, and at the client.                        *)
Moves(h, o, c) ==
  /\ AtHost' = AtHost + h
  /\ Outbound' = Outbound + o
  /\ AtClient' = AtClient + c

(* Where a message is in the hands of a thread.                            *)
Serving == One(hmain \in {"boot", "settle"})
HostHolds == One(htask = "send")
Toggling == One(ctask = "toggle")
ClientHolds == One(ctask = "send")

LEMMA Counts ==
  ASSUME TypeOK
  PROVE  /\ Len(hq) \in Nat /\ Len(cq) \in Nat
         /\ Len(pingBox) \in Nat /\ Len(pongBox) \in Nat
         /\ Serving \in Nat /\ HostHolds \in Nat
         /\ Toggling \in Nat /\ ClientHolds \in Nat
         /\ AtHost \in Nat /\ Outbound \in Nat /\ AtClient \in Nat
         /\ Outbound <= AtClient
<1>1. /\ Len(hq) \in Nat /\ Len(cq) \in Nat
      /\ Len(pingBox) \in Nat /\ Len(pongBox) \in Nat
  BY LenProperties DEF TypeOK
<1>2. /\ Serving \in Nat /\ HostHolds \in Nat
      /\ Toggling \in Nat /\ ClientHolds \in Nat
  BY DEF One, Serving, HostHolds, Toggling, ClientHolds
<1>3. /\ AtHost = Serving + Len(pongBox) + Len(hq) + HostHolds
      /\ Outbound = Len(pingBox) + Len(cq) + Toggling
      /\ AtClient = Outbound + ClientHolds
  BY DEF AtHost, Outbound, AtClient, Serving, HostHolds, Toggling, ClientHolds
<1>4. QED
  BY <1>1, <1>2, <1>3

LEMMA AtHostNext == AtHost' = Serving' + Len(pongBox') + Len(hq') + HostHolds'
BY DEF AtHost, Serving, HostHolds

(* The messages at the host when one of its four places has changed.       *)
LEMMA AtHostSums ==
  ASSUME TypeOK
  PROVE  /\ \A s, h \in Nat :
              s + h + 1 = Serving + HostHolds =>
                s + Len(pongBox) + Len(hq) + h = AtHost - 1
         /\ \A p \in Nat :
              p + 1 = Len(pongBox) =>
                /\ Serving + p + Len(hq) + HostHolds = AtHost - 1
                /\ Serving + p + (Len(hq) + 1) + HostHolds = AtHost
         /\ Serving + (Len(pongBox) + 1) + Len(hq) + HostHolds = AtHost + 1
         /\ \A q \in Nat :
              q + 1 = Len(hq) =>
                Serving + Len(pongBox) + q + (HostHolds + 1) = AtHost
<1>1. AtHost = Serving + Len(pongBox) + Len(hq) + HostHolds
  BY DEF AtHost, Serving, HostHolds
<1>2. /\ Serving \in Nat /\ Len(pongBox) \in Nat
      /\ Len(hq) \in Nat /\ HostHolds \in Nat
  BY Counts
<1>3. QED
  BY <1>1, <1>2

(* FirstPing and NextPing: the ball leaves the host.                       *)
LEMMA SendPingMoves ==
  ASSUME TypeOK, NEW seq \in Seq32, SendPing(seq),
         Serving' + HostHolds' + 1 = Serving + HostHolds,
         UNCHANGED <<hq, pongBox, ctask, cq>>
  PROVE  \/ Moves(-1, 1, 1) /\ UNCHANGED lost
         \/ Moves(-1, 0, 0) /\ lost' = TRUE
<1>1. AtHost' = AtHost - 1
  <2>1. PICK s \in Nat, h \in Nat :
          s = Serving' /\ h = HostHolds' /\ s + h + 1 = Serving + HostHolds
    BY DEF Serving, HostHolds, One
  <2>2. AtHost' = s + Len(pongBox) + Len(hq) + h
    BY <2>1, AtHostNext
  <2>3. s + Len(pongBox) + Len(hq) + h = AtHost - 1
    BY <2>1, AtHostSums
  <2>4. QED
    BY <2>2, <2>3
<1>2. CASE PingChannel!Post(seq, MsgSize) /\ UNCHANGED lost
  <2>1. Len(pingBox') = Len(pingBox) + 1
    BY <1>2, AfterAppend DEF PingChannel!Post, TypeOK
  <2>2. Outbound' = Outbound + 1 /\ AtClient' = AtClient + 1
    BY <2>1, Counts DEF Outbound, AtClient, One
  <2>3. QED
    BY <1>1, <1>2, <2>2, Counts DEF Moves
<1>3. CASE lost' = TRUE /\ UNCHANGED pingVars
  <2>1. Moves(-1, 0, 0)
    BY <1>1, <1>3, Counts DEF Moves, Outbound, AtClient, pingVars
  <2>2. QED
    BY <1>3, <2>1
<1>4. QED
  BY <1>2, <1>3 DEF SendPing

LEMMA FirstPingMoves ==
  ASSUME TypeOK, FirstPing
  PROVE  \/ Moves(-1, 1, 1) /\ UNCHANGED lost
         \/ Moves(-1, 0, 0) /\ lost' = TRUE
<1>1. /\ hmain = "settle" /\ hmain' = "done" /\ SendPing(1)
      /\ UNCHANGED <<htask, hq, pongBox, ctask, cq>>
  BY DEF FirstPing, clientVars, pongVars
<1>2. Serving' + HostHolds' + 1 = Serving + HostHolds
  BY <1>1 DEF Serving, HostHolds, One
<1>3. QED
  BY <1>1, <1>2, SmallSeqs, SendPingMoves

LEMMA NextPingMoves ==
  ASSUME TypeOK, NextPing
  PROVE  \/ Moves(-1, 1, 1) /\ UNCHANGED lost
         \/ Moves(-1, 0, 0) /\ lost' = TRUE
<1>1. /\ htask = "send" /\ htask' = "get" /\ SendPing((hmsg + 1) % Modulus)
      /\ UNCHANGED <<hmain, hq, pongBox, ctask, cq>>
  BY DEF NextPing, clientVars, pongVars
<1>2. Serving' + HostHolds' + 1 = Serving + HostHolds
  BY <1>1 DEF Serving, HostHolds, One
<1>3. (hmsg + 1) % Modulus \in Seq32
  BY NextSeq DEF TypeOK
<1>4. QED
  BY <1>1, <1>2, <1>3, SendPingMoves

LEMMA HostRxCallbackMoves ==
  ASSUME TypeOK, HostRxCallback
  PROVE  \/ Moves(0, 0, 0) /\ UNCHANGED lost
         \/ Moves(-1, 0, 0) /\ lost' = TRUE
<1>1. PICK m \in Range(pongBox) :
        /\ PongChannel!Interrupt(m)
        /\ \/ HostMsgQ!Put(m) /\ UNCHANGED lost
           \/ HostMsgQ!PutFails /\ lost' = TRUE
  BY DEF HostRxCallback
<1>2. UNCHANGED <<hmain, htask, ctask, cq, pingBox>>
  BY DEF HostRxCallback, clientVars, pingVars
<1>3. Len(pongBox) = Len(pongBox') + 1 /\ Len(pongBox') \in Nat /\ m \in Seq32
  BY <1>1, AfterTail DEF PongChannel!Interrupt, TypeOK
<1>4. Outbound' = Outbound /\ AtClient' = AtClient
  BY <1>2 DEF Outbound, AtClient
<1>5. CASE HostMsgQ!Put(m) /\ UNCHANGED lost
  <2>1. Len(hq') = Len(hq) + 1
    BY <1>3, <1>5, AfterAppend DEF HostMsgQ!Put, TypeOK
  <2>2. PICK p \in Nat : p = Len(pongBox') /\ Len(pongBox) = p + 1
    BY <1>3
  <2>3. AtHost' = Serving + p + (Len(hq) + 1) + HostHolds
    BY <1>2, <2>1, <2>2, AtHostNext DEF Serving, HostHolds
  <2>4. AtHost' = AtHost
    BY <2>2, <2>3, AtHostSums
  <2>5. Moves(0, 0, 0)
    BY <1>4, <2>4, Counts DEF Moves
  <2>6. QED
    BY <1>5, <2>5
<1>6. CASE HostMsgQ!PutFails /\ lost' = TRUE
  <2>1. AtHost' = AtHost - 1
    <3>1. PICK p \in Nat : p = Len(pongBox') /\ Len(pongBox) = p + 1
      BY <1>3
    <3>2. AtHost' = Serving + p + Len(hq) + HostHolds
      BY <1>2, <1>6, <3>1, AtHostNext DEF Serving, HostHolds, HostMsgQ!PutFails
    <3>3. QED
      BY <3>1, <3>2, AtHostSums
  <2>2. Moves(-1, 0, 0)
    BY <1>4, <2>1, Counts DEF Moves
  <2>3. QED
    BY <1>6, <2>2
<1>7. QED
  BY <1>1, <1>5, <1>6

LEMMA GetPongMoves ==
  ASSUME TypeOK, GetPong
  PROVE  Moves(0, 0, 0) /\ UNCHANGED lost
<1>1. Len(hq) = Len(hq') + 1 /\ Len(hq') \in Nat
  BY AfterTail DEF GetPong, HostMsgQ!Get, TypeOK
<1>2. /\ htask = "get" /\ htask' = "send"
      /\ UNCHANGED <<hmain, ctask, cq, pingBox, pongBox, lost>>
  BY DEF GetPong, clientVars, pingVars, pongVars
<1>3. HostHolds' = HostHolds + 1 /\ Serving' = Serving
  BY <1>2 DEF HostHolds, Serving, One
<1>4. AtHost' = AtHost
  <2>1. PICK q \in Nat : q = Len(hq') /\ Len(hq) = q + 1
    BY <1>1
  <2>2. AtHost' = Serving + Len(pongBox) + q + (HostHolds + 1)
    BY <1>2, <1>3, <2>1, AtHostNext
  <2>3. QED
    BY <2>1, <2>2, AtHostSums
<1>5. QED
  BY <1>2, <1>4, Counts DEF Moves, Outbound, AtClient

LEMMA LosePingMoves ==
  ASSUME TypeOK, LosePing
  PROVE  Moves(0, -1, -1) /\ lost' = TRUE
<1>1. Len(pingBox) = Len(pingBox') + 1 /\ Len(pingBox') \in Nat
  BY AfterTail DEF LosePing, PingChannel!Discard, TypeOK
<1>2. lost' = TRUE /\ UNCHANGED <<hmain, htask, hq, ctask, cq, pongBox>>
  BY DEF LosePing, hostVars, clientVars, pongVars
<1>3. QED
  BY <1>1, <1>2, Counts DEF Moves, AtHost, Outbound, AtClient, One

LEMMA ClientRxCallbackMoves ==
  ASSUME TypeOK, ClientRxCallback
  PROVE  \/ Moves(0, 0, 0) /\ UNCHANGED lost
         \/ Moves(0, -1, -1) /\ lost' = TRUE
<1>1. PICK m \in Range(pingBox) :
        /\ PingChannel!Interrupt(m)
        /\ \/ ClientMsgQ!Put(m) /\ UNCHANGED lost
           \/ ClientMsgQ!PutFails /\ lost' = TRUE
  BY DEF ClientRxCallback
<1>2. UNCHANGED <<hmain, htask, hq, ctask, pongBox>>
  BY DEF ClientRxCallback, hostVars, pongVars
<1>3. Len(pingBox) = Len(pingBox') + 1 /\ Len(pingBox') \in Nat /\ m \in Seq32
  BY <1>1, AfterTail DEF PingChannel!Interrupt, TypeOK
<1>4. AtHost' = AtHost
  BY <1>2 DEF AtHost
<1>5. CASE ClientMsgQ!Put(m) /\ UNCHANGED lost
  <2>1. Len(cq') = Len(cq) + 1
    BY <1>3, <1>5, AfterAppend DEF ClientMsgQ!Put, TypeOK
  <2>2. Outbound' = Outbound /\ AtClient' = AtClient
    BY <1>2, <1>3, <2>1, Counts DEF Outbound, AtClient, One
  <2>3. QED
    BY <1>4, <1>5, <2>2, Counts DEF Moves
<1>6. CASE ClientMsgQ!PutFails /\ lost' = TRUE
  <2>1. Outbound' = Outbound - 1 /\ AtClient' = AtClient - 1
    BY <1>2, <1>3, <1>6, Counts DEF Outbound, AtClient, One, ClientMsgQ!PutFails
  <2>2. Moves(0, -1, -1)
    <3>1. AtHost \in Nat /\ AtHost' = AtHost + 0
      BY <1>4, Counts
    <3>2. /\ Outbound' = Outbound + (-1)
          /\ AtClient' = AtClient + (-1)
      BY <2>1, Counts
    <3>3. QED
      BY <3>1, <3>2 DEF Moves
  <2>3. QED
    BY <1>6, <2>2
<1>7. QED
  BY <1>1, <1>5, <1>6

LEMMA GetPingMoves ==
  ASSUME TypeOK, GetPing
  PROVE  Moves(0, 0, 0) /\ UNCHANGED lost
<1>1. Len(cq) = Len(cq') + 1 /\ Len(cq') \in Nat
  BY AfterTail DEF GetPing, ClientMsgQ!Get, TypeOK
<1>2. /\ ctask = "get" /\ ctask' = "toggle"
      /\ UNCHANGED <<hmain, htask, hq, pingBox, pongBox, lost>>
  BY DEF GetPing, hostVars, pingVars, pongVars
<1>3. QED
  BY <1>1, <1>2, Counts DEF Moves, AtHost, Outbound, AtClient, One

LEMMA ToggleLedMoves ==
  ASSUME TypeOK, ToggleLed
  PROVE  Moves(0, -1, 0) /\ UNCHANGED lost
<1>1. /\ ctask = "toggle" /\ ctask' = "send"
      /\ UNCHANGED <<hmain, htask, hq, cq, pingBox, pongBox, lost>>
  BY DEF ToggleLed, hostVars, pingVars, pongVars
<1>2. QED
  BY <1>1, Counts DEF Moves, AtHost, Outbound, AtClient, One

LEMMA SendPongMoves ==
  ASSUME TypeOK, SendPong
  PROVE  \/ Moves(1, 0, -1) /\ UNCHANGED lost
         \/ Moves(0, 0, -1) /\ lost' = TRUE
<1>1. /\ ctask = "send" /\ ctask' = "get"
      /\ UNCHANGED <<hmain, htask, hq, cq, pingBox>>
  BY DEF SendPong, hostVars, pingVars
<1>2. Outbound' = Outbound /\ AtClient' = AtClient - 1
  BY <1>1, Counts DEF Outbound, AtClient, One
<1>3. CASE PongChannel!Post(cmsg, MsgSize) /\ UNCHANGED lost
  <2>1. Len(pongBox') = Len(pongBox) + 1
    BY <1>3, AfterAppend DEF PongChannel!Post, TypeOK
  <2>2. AtHost' = AtHost + 1
    <3>1. AtHost' = Serving + (Len(pongBox) + 1) + Len(hq) + HostHolds
      BY <1>1, <2>1, AtHostNext DEF Serving, HostHolds
    <3>2. QED
      BY <3>1, AtHostSums
  <2>3. Moves(1, 0, -1)
    BY <1>2, <2>2, Counts DEF Moves
  <2>4. QED
    BY <1>3, <2>3
<1>4. CASE lost' = TRUE /\ UNCHANGED pongVars
  <2>1. AtHost' = AtHost
    BY <1>1, <1>4 DEF AtHost, pongVars
  <2>2. Moves(0, 0, -1)
    BY <1>2, <2>1, Counts DEF Moves
  <2>3. QED
    BY <1>4, <2>2
<1>5. QED
  BY <1>3, <1>4 DEF SendPong

(* The steps of the start-ups leave every message where it is, but a host  *)
(* that fails to start will never serve the ball it holds.                 *)
LEMMA HostMainFailsMoves ==
  ASSUME TypeOK, HostMainFails
  PROVE  Moves(-1, 0, 0) /\ UNCHANGED lost
<1>1. /\ hmain = "boot" /\ hmain' = "halted"
      /\ UNCHANGED <<htask, hq, ctask, cq, pingBox, pongBox, lost>>
  BY DEF HostMainFails, clientVars, pingVars, pongVars
<1>2. QED
  BY <1>1, Counts DEF Moves, AtHost, Outbound, AtClient, One

Quiet ==
  \/ HostMain \/ ClientMain \/ ClientMainFails \/ StartPongTask
  \/ Rest \/ UNCHANGED vars

LEMMA QuietMoves ==
  ASSUME TypeOK, Quiet
  PROVE  Moves(0, 0, 0) /\ UNCHANGED <<lost, lastPing, led0, ledError>>
<1>1. /\ One(hmain' \in {"boot", "settle"}) = One(hmain \in {"boot", "settle"})
      /\ One(htask' = "send") = One(htask = "send")
      /\ One(ctask' = "toggle") = One(ctask = "toggle")
      /\ One(ctask' = "send") = One(ctask = "send")
  BY DEF Quiet, HostMain, ClientMain, ClientMainFails, StartPongTask, Rest,
     vars, hostVars, clientVars, One, TypeOK
<1>2. UNCHANGED <<hq, cq, pingBox, pongBox, lost, lastPing, led0, ledError>>
  BY DEF Quiet, HostMain, ClientMain, ClientMainFails, StartPongTask, Rest,
     vars, hostVars, clientVars, pingVars, pongVars, PingChannel!Enable,
     PongChannel!Enable
<1>3. QED
  BY <1>1, <1>2, Counts DEF Moves, AtHost, Outbound, AtClient
-----------------------------------------------------------------------------
(* The rally is over, because the ball is lost or was never served.        *)
Over == lost \/ hmain = "halted"
Balls == AtHost + AtClient

LEMMA HaltedStays ==
  ASSUME [Next]_vars, ~HostMainFails
  PROVE  hmain' = "halted" <=> hmain = "halted"
BY DEF Next, vars, hostVars, HostMain, FirstPing, HostRxCallback, GetPong,
   NextPing, ClientMain, ClientMainFails, StartPongTask, LosePing,
   ClientRxCallback, GetPing, ToggleLed, SendPong, Rest

LEMMA BallStep ==
  ASSUME TypeOK, TypeOK', [Next]_vars
  PROVE  \/ Balls' = Balls /\ (Over' <=> Over)
         \/ Balls' = Balls - 1 /\ Over'
<1>a. AtHost \in Nat /\ AtClient \in Nat
  BY Counts
<1>b. /\ Moves(0, 0, 0) => Balls' = Balls
      /\ Moves(0, -1, 0) => Balls' = Balls
      /\ Moves(-1, 1, 1) => Balls' = Balls
      /\ Moves(1, 0, -1) => Balls' = Balls
      /\ Moves(-1, 0, 0) => Balls' = Balls - 1
      /\ Moves(0, -1, -1) => Balls' = Balls - 1
      /\ Moves(0, 0, -1) => Balls' = Balls - 1
  BY <1>a DEF Moves, Balls
<1>c. ~HostMainFails => (hmain' = "halted" <=> hmain = "halted")
  BY HaltedStays
<1>1. CASE HostMainFails
  BY <1>1, <1>b, HostMainFailsMoves DEF HostMainFails, Over
<1>2. CASE ~HostMainFails /\ FirstPing
  BY <1>2, <1>b, <1>c, FirstPingMoves DEF Over
<1>3. CASE ~HostMainFails /\ HostRxCallback
  BY <1>3, <1>b, <1>c, HostRxCallbackMoves DEF Over
<1>4. CASE ~HostMainFails /\ GetPong
  BY <1>4, <1>b, <1>c, GetPongMoves DEF Over
<1>5. CASE ~HostMainFails /\ NextPing
  BY <1>5, <1>b, <1>c, NextPingMoves DEF Over
<1>6. CASE ~HostMainFails /\ LosePing
  BY <1>6, <1>b, LosePingMoves DEF Over
<1>7. CASE ~HostMainFails /\ ClientRxCallback
  BY <1>7, <1>b, <1>c, ClientRxCallbackMoves DEF Over
<1>8. CASE ~HostMainFails /\ GetPing
  BY <1>8, <1>b, <1>c, GetPingMoves DEF Over
<1>9. CASE ~HostMainFails /\ ToggleLed
  BY <1>9, <1>b, <1>c, ToggleLedMoves DEF Over
<1>10. CASE ~HostMainFails /\ SendPong
  BY <1>10, <1>b, <1>c, SendPongMoves DEF Over
<1>11. CASE ~HostMainFails /\ Quiet
  BY <1>11, <1>b, <1>c, QuietMoves DEF Over
<1>12. QED
  BY <1>1, <1>2, <1>3, <1>4, <1>5, <1>6, <1>7, <1>8, <1>9, <1>10, <1>11
     DEF Next, Quiet

OneUntilOver ==
  /\ Balls \in Nat
  /\ SingleBall <=> (Over /\ Balls = 0) \/ (~Over /\ Balls = 1)

LEMMA SingleBallIs == TypeOK => OneUntilOver
BY Counts DEF OneUntilOver, SingleBall, Balls, Over, One

LEMMA SingleBallNext == TypeOK' => OneUntilOver'
BY SingleBallIs, PTL

LEMMA SingleBallStep ==
  TypeOK /\ TypeOK' /\ SingleBall /\ [Next]_vars => SingleBall'
<1> SUFFICES ASSUME TypeOK, TypeOK', SingleBall, [Next]_vars PROVE SingleBall'
  OBVIOUS
<1>1. /\ (Over /\ Balls = 0) \/ (~Over /\ Balls = 1)
      /\ Balls \in Nat
  BY SingleBallIs DEF OneUntilOver
<1>2. /\ SingleBall' <=> (Over' /\ Balls' = 0) \/ (~Over' /\ Balls' = 1)
      /\ Balls' \in Nat
  BY SingleBallNext DEF OneUntilOver
<1>3. \/ Balls' = Balls /\ (Over' <=> Over)
      \/ Balls' = Balls - 1 /\ Over'
  BY BallStep
<1>4. QED
  BY <1>1, <1>2, <1>3

(* There is one ball in play until it is lost, for every size of mailbox   *)
(* and queues: nothing in this lab ever overflows or waits for a slot.     *)
THEOREM OneBall == Spec => []SingleBall
<1>1. Init => SingleBall
  <2> SUFFICES ASSUME Init PROVE SingleBall
    OBVIOUS
  <2>1. /\ Len(hq) = 0 /\ Len(cq) = 0 /\ Len(pingBox) = 0 /\ Len(pongBox) = 0
        /\ hmain = "boot" /\ htask = "off" /\ ctask = "off" /\ lost = FALSE
    BY EmptySeq DEF Init, HostMsgQ!Init, ClientMsgQ!Init, PingChannel!Init,
       PongChannel!Init
  <2>2. QED
    BY <2>1 DEF SingleBall, AtHost, AtClient, Outbound, One
<1>2. QED
  BY <1>1, SingleBallStep, TypeCorrect, PTL DEF Spec
-----------------------------------------------------------------------------
(* All messages under way agree on the seq, and before the first ping it   *)
(* is zero.                                                                *)
Agreement ==
  /\ SeqAgrees
  /\ hmain \in {"boot", "settle"} => lastPing = 0

(* Whoever has the ball is alone with it.                                  *)
LEMMA Alone ==
  ASSUME TypeOK, SingleBall
  PROVE  /\ AtHost > 0 => AtHost = 1 /\ AtClient = 0 /\ Outbound = 0 /\ ~Over
         /\ AtClient > 0 => AtClient = 1 /\ AtHost = 0 /\ ~Over
<1>1. Balls \in Nat /\ (Balls = 0 \/ (Balls = 1 /\ ~Over))
  BY SingleBallIs DEF OneUntilOver
<1>2. QED
  BY <1>1, Counts DEF Balls

(* send_ping() finds every queue empty and both tasks without a message.   *)
LEMMA HostAlone ==
  ASSUME TypeOK, SingleBall, hmain = "settle" \/ htask = "send"
  PROVE  /\ pingBox = <<>> /\ cq = <<>> /\ pongBox = <<>> /\ hq = <<>>
         /\ ctask \notin {"toggle", "send"}
         /\ ~(hmain = "settle" /\ htask = "send")
         /\ AtHost = 1 /\ AtClient = 0 /\ Outbound = 0 /\ ~Over
<1>1. Serving + HostHolds >= 1
      /\ (hmain = "settle" /\ htask = "send" => Serving + HostHolds = 2)
  BY DEF Serving, HostHolds, One
<1>2. AtHost = Serving + Len(pongBox) + Len(hq) + HostHolds
      /\ Outbound = Len(pingBox) + Len(cq) + Toggling
      /\ AtClient = Outbound + ClientHolds
  BY DEF AtHost, Outbound, AtClient, Serving, HostHolds, Toggling, ClientHolds
<1>3. /\ Serving \in Nat /\ HostHolds \in Nat
      /\ Toggling \in Nat /\ ClientHolds \in Nat
      /\ Len(hq) \in Nat /\ Len(cq) \in Nat
      /\ Len(pingBox) \in Nat /\ Len(pongBox) \in Nat
  BY Counts
<1>4. AtHost > 0
  BY <1>1, <1>2, <1>3
<1>5. AtHost = 1 /\ AtClient = 0 /\ Outbound = 0 /\ ~Over
  BY <1>4, Alone
<1>6. /\ Len(pongBox) = 0 /\ Len(hq) = 0 /\ Serving + HostHolds = 1
      /\ Len(pingBox) = 0 /\ Len(cq) = 0 /\ Toggling = 0 /\ ClientHolds = 0
  BY <1>1, <1>2, <1>3, <1>5
<1>7. pingBox = <<>> /\ cq = <<>> /\ pongBox = <<>> /\ hq = <<>>
  BY <1>6, EmptySeq DEF TypeOK
<1>8. ctask \notin {"toggle", "send"}
  BY <1>6 DEF Toggling, ClientHolds, One
<1>9. QED
  BY <1>1, <1>5, <1>6, <1>7, <1>8

LEMMA EmptyRange == ASSUME NEW s, s = <<>> PROVE Range(s) = {}
BY DEF Range

(* Then the new ping is the only message there is.                         *)
LEMMA SendPingAgrees ==
  ASSUME TypeOK, SingleBall, hmain = "settle" \/ htask = "send",
         NEW seq \in Seq32, SendPing(seq),
         UNCHANGED <<hq, clientVars, pongVars>>, htask' # "send"
  PROVE  SeqAgrees'
<1>1. /\ pingBox = <<>> /\ cq' = <<>> /\ pongBox' = <<>> /\ hq' = <<>>
      /\ ctask' \notin {"toggle", "send"}
  BY HostAlone DEF clientVars, pongVars
<1>2. lastPing' = seq
  BY DEF SendPing
<1>3. \A m \in Range(pingBox') : m = seq
  <2>1. CASE PingChannel!Post(seq, MsgSize)
    <3>1. pingBox' = Append(pingBox, seq) /\ Range(pingBox) = {}
      BY <1>1, <2>1, EmptyRange DEF PingChannel!Post
    <3>2. \A x \in Range(pingBox') : x \in Range(pingBox) \/ x = seq
      BY <3>1, AfterAppend DEF TypeOK
    <3>3. QED
      BY <3>1, <3>2
  <2>2. CASE UNCHANGED pingVars
    BY <1>1, <2>2, EmptyRange DEF pingVars
  <2>3. QED
    BY <2>1, <2>2 DEF SendPing
<1>4. Range(cq') = {} /\ Range(pongBox') = {} /\ Range(hq') = {}
  BY <1>1, EmptyRange
<1>5. QED
  BY <1>1, <1>2, <1>3, <1>4 DEF SeqAgrees

LEMMA AgreementStep ==
  TypeOK /\ SingleBall /\ Agreement /\ [Next]_vars => Agreement'
<1> SUFFICES ASSUME TypeOK, SingleBall, Agreement, [Next]_vars
             PROVE  Agreement'
  OBVIOUS
<1> USE DEF Agreement, hostVars, clientVars, pingVars, pongVars
<1>1. CASE HostMain
  BY <1>1 DEF HostMain, PongChannel!Enable, SeqAgrees
<1>2. CASE HostMainFails
  BY <1>2 DEF HostMainFails, SeqAgrees
<1>3. CASE FirstPing
  <2>1. htask' # "send" /\ hmain' = "done"
    BY <1>3, HostAlone DEF FirstPing
  <2>2. SeqAgrees'
    BY <1>3, <2>1, SmallSeqs, SendPingAgrees DEF FirstPing
  <2>3. QED
    BY <2>1, <2>2
<1>4. CASE HostRxCallback
  <2>1. PICK m \in Range(pongBox) :
          /\ PongChannel!Interrupt(m)
          /\ HostMsgQ!Put(m) \/ HostMsgQ!PutFails
          /\ UNCHANGED <<hmain, htask, hmsg, clientVars, pingVars, lastPing>>
    BY <1>4 DEF HostRxCallback
  <2>2. (\A x \in Range(pongBox') : x \in Range(pongBox)) /\ m \in Seq32
    BY <2>1, AfterTail DEF PongChannel!Interrupt, TypeOK
  <2>3. \A x \in Range(hq') : x \in Range(hq) \/ x = m
    BY <2>1, <2>2, AfterAppend DEF HostMsgQ!Put, HostMsgQ!PutFails, TypeOK
  <2>4. QED
    BY <2>1, <2>2, <2>3 DEF SeqAgrees
<1>5. CASE GetPong
  <2>1. PICK m \in Range(hq) : HostMsgQ!Get(m) /\ hmsg' = m
    BY <1>5 DEF GetPong
  <2>2. \A x \in Range(hq') : x \in Range(hq)
    BY <2>1, AfterTail DEF HostMsgQ!Get, TypeOK
  <2>3. QED
    BY <1>5, <2>1, <2>2 DEF GetPong, SeqAgrees
<1>6. CASE NextPing
  <2>1. htask = "send" /\ htask' = "get" /\ hmain' = hmain /\ hmain # "settle"
        /\ hmain # "boot"
    BY <1>6, HostAlone DEF NextPing, TypeOK
  <2>2. (hmsg + 1) % Modulus \in Seq32
    BY NextSeq DEF TypeOK
  <2>3. SeqAgrees'
    BY <1>6, <2>1, <2>2, SendPingAgrees DEF NextPing
  <2>4. QED
    BY <2>1, <2>3
<1>7. CASE ClientMain
  BY <1>7 DEF ClientMain, PingChannel!Enable, SeqAgrees
<1>8. CASE ClientMainFails
  BY <1>8 DEF ClientMainFails, SeqAgrees
<1>9. CASE StartPongTask
  BY <1>9 DEF StartPongTask, SeqAgrees
<1>10. CASE LosePing
  <2>1. \A x \in Range(pingBox') : x \in Range(pingBox)
    BY <1>10, AfterTail DEF LosePing, PingChannel!Discard, TypeOK
  <2>2. QED
    BY <1>10, <2>1 DEF LosePing, SeqAgrees
<1>11. CASE ClientRxCallback
  <2>1. PICK m \in Range(pingBox) :
          /\ PingChannel!Interrupt(m)
          /\ ClientMsgQ!Put(m) \/ ClientMsgQ!PutFails
          /\ UNCHANGED <<hostVars, cmain, ctask, cmsg, led0, ledError, pongVars,
                         lastPing>>
    BY <1>11 DEF ClientRxCallback
  <2>2. (\A x \in Range(pingBox') : x \in Range(pingBox)) /\ m \in Seq32
    BY <2>1, AfterTail DEF PingChannel!Interrupt, TypeOK
  <2>3. \A x \in Range(cq') : x \in Range(cq) \/ x = m
    BY <2>1, <2>2, AfterAppend DEF ClientMsgQ!Put, ClientMsgQ!PutFails, TypeOK
  <2>4. QED
    BY <2>1, <2>2, <2>3 DEF SeqAgrees
<1>12. CASE GetPing
  <2>1. PICK m \in Range(cq) : ClientMsgQ!Get(m) /\ cmsg' = m
    BY <1>12 DEF GetPing
  <2>2. \A x \in Range(cq') : x \in Range(cq)
    BY <2>1, AfterTail DEF ClientMsgQ!Get, TypeOK
  <2>3. QED
    BY <1>12, <2>1, <2>2 DEF GetPing, SeqAgrees
<1>13. CASE ToggleLed
  BY <1>13 DEF ToggleLed, SeqAgrees
<1>14. CASE SendPong
  <2>1. ctask = "send" /\ ctask' = "get" /\ cmsg \in Seq32
        /\ UNCHANGED <<hostVars, cmain, cmsg, cq, pingVars, lastPing>>
    BY <1>14 DEF SendPong, TypeOK
  <2>2. \A x \in Range(pongBox') : x \in Range(pongBox) \/ x = cmsg
    <3>1. CASE PongChannel!Post(cmsg, MsgSize)
      <4>1. pongBox \in Seq(Seq32) /\ pongBox' = Append(pongBox, cmsg)
        BY <3>1 DEF PongChannel!Post, TypeOK
      <4>2. QED
        BY <2>1, <4>1, AfterAppend
    <3>2. CASE UNCHANGED pongVars
      BY <3>2
    <3>3. QED
      BY <1>14, <3>1, <3>2 DEF SendPong
  <2>3. QED
    BY <2>1, <2>2 DEF SeqAgrees
<1>15. CASE Rest \/ UNCHANGED vars
  BY <1>15 DEF Rest, vars, SeqAgrees
<1>16. QED
  BY <1>1, <1>2, <1>3, <1>4, <1>5, <1>6, <1>7, <1>8, <1>9, <1>10, <1>11, <1>12,
     <1>13, <1>14, <1>15 DEF Next

LEMMA AgreementInit == Init => Agreement
<1> SUFFICES ASSUME Init PROVE Agreement
  OBVIOUS
<1>1. /\ Range(pingBox) = {} /\ Range(cq) = {}
      /\ Range(pongBox) = {} /\ Range(hq) = {}
  BY EmptyRange DEF Init, HostMsgQ!Init, ClientMsgQ!Init, PingChannel!Init,
     PongChannel!Init
<1>2. QED
  BY <1>1 DEF Init, Agreement, SeqAgrees

LEMMA AgreementAlways == Spec => []Agreement
BY AgreementInit, AgreementStep, TypeCorrect, OneBall, PTL DEF Spec
-----------------------------------------------------------------------------
(* LED0 after a wrap-around: an even Modulus keeps the parity.             *)
Odd(n) == n % 2 = 1

LEMMA NextSeqParity ==
  ASSUME NEW n \in Seq32
  PROVE  Odd(((n + 1) % Modulus) + 1) <=> Odd(n + 0)
<1>1. Modulus \in Nat \ {0} /\ Modulus % 2 = 0 /\ n \in 0..(Modulus - 1)
  BY PingPongAssumption DEF Seq32
<1>2. CASE n + 1 < Modulus
  <2>1. (n + 1) % Modulus = n + 1
    BY <1>1, <1>2
  <2>2. QED
    BY <1>1, <2>1 DEF Odd
<1>3. CASE n + 1 = Modulus
  <2>1. (n + 1) % Modulus = 0
    BY <1>1, <1>3
  <2>2. QED
    BY <1>1, <1>3, <2>1 DEF Odd
<1>4. QED
  BY <1>1, <1>2, <1>3

LEMMA OddFlips == ASSUME NEW n \in Nat PROVE Odd(n + 1) <=> ~Odd(n)
BY DEF Odd

LedParity == ~lost /\ ~ledError => (led0 <=> Odd(lastPing + Outbound))

(* A ping takes over the parity of the one before.                         *)
LEMMA SendPingParity ==
  ASSUME TypeOK, LedParity, Outbound = 0, Outbound' = 1,
         lastPing' = (lastPing + 1) % Modulus,
         UNCHANGED <<led0, ledError, lost>>
  PROVE  LedParity'
<1>1. Odd(((lastPing + 1) % Modulus) + 1) <=> Odd(lastPing + 0)
  BY NextSeqParity DEF TypeOK
<1>2. Odd(lastPing' + Outbound') <=> Odd(lastPing + Outbound)
  BY <1>1
<1>3. QED
  BY <1>2 DEF LedParity

LEMMA ToggleParity ==
  ASSUME TypeOK, LedParity, ToggleLed
  PROVE  LedParity'
<1>1. /\ Outbound' = Outbound - 1 /\ Outbound \in Nat /\ Outbound >= 1
      /\ lastPing \in Nat /\ lastPing' = lastPing /\ lost' = lost
  <2>1. Toggling = 1
    BY DEF ToggleLed, Toggling, One
  <2>2. Outbound = Len(pingBox) + Len(cq) + Toggling
    BY DEF Outbound, Toggling
  <2>3. Outbound >= 1
    BY <2>1, <2>2, Counts
  <2>4. QED
    BY <2>3, Counts, ToggleLedMoves, SmallSeqs DEF Moves, ToggleLed, TypeOK
<1>2. PICK n \in Nat : n = lastPing + (Outbound - 1) /\ n + 1 = lastPing + Outbound
  BY <1>1
<1>3. lastPing' + Outbound' = n
  BY <1>1, <1>2
<1>4. Odd(lastPing' + Outbound') <=> ~Odd(lastPing + Outbound)
  BY <1>2, <1>3, OddFlips
<1>5. CASE led0' = ~led0 /\ UNCHANGED ledError
  BY <1>1, <1>4, <1>5 DEF LedParity
<1>6. CASE ledError' = TRUE
  BY <1>6 DEF LedParity
<1>7. QED
  BY <1>5, <1>6 DEF ToggleLed

(* A step that leaves LED0, the seq and the ball before LED0 alone, or that*)
(* loses the ball.                                                         *)
LEMMA SameParity ==
  ASSUME LedParity,
         \/ UNCHANGED <<led0, ledError, lastPing>> /\ Outbound' = Outbound
            /\ UNCHANGED lost
         \/ lost' = TRUE
  PROVE  LedParity'
<1>1. CASE UNCHANGED <<led0, ledError, lastPing>> /\ Outbound' = Outbound
           /\ UNCHANGED lost
  BY <1>1 DEF LedParity
<1>2. CASE lost' = TRUE
  BY <1>2 DEF LedParity
<1>3. QED
  BY <1>1, <1>2

LEMMA LedParityStep ==
  TypeOK /\ SingleBall /\ Agreement /\ LedParity /\ [Next]_vars => LedParity'
<1> SUFFICES ASSUME TypeOK, SingleBall, Agreement, LedParity, [Next]_vars
             PROVE  LedParity'
  OBVIOUS
<1>a. Outbound \in Nat
  BY Counts
<1>b. \A h, c : Moves(h, 0, c) => Outbound' = Outbound
  BY <1>a DEF Moves
<1>1. CASE FirstPing
  <2>1. CASE Moves(-1, 1, 1) /\ UNCHANGED lost
    <3>1. Outbound = 0 /\ lastPing = 0 /\ lastPing' = 1
      BY <1>1, HostAlone DEF FirstPing, SendPing, Agreement
    <3>2. (lastPing + 1) % Modulus = 1 /\ Outbound' = 1
      BY <2>1, <3>1, PingPongAssumption DEF Moves
    <3>3. UNCHANGED <<led0, ledError>>
      BY <1>1 DEF FirstPing, clientVars
    <3>4. QED
      BY <2>1, <3>1, <3>2, <3>3, SendPingParity
  <2>2. QED
    BY <1>1, <2>1, FirstPingMoves, SameParity
<1>2. CASE NextPing
  <2>1. CASE Moves(-1, 1, 1) /\ UNCHANGED lost
    <3>1. Outbound = 0 /\ hmsg = lastPing /\ lastPing' = (hmsg + 1) % Modulus
      BY <1>2, HostAlone DEF NextPing, SendPing, Agreement, SeqAgrees
    <3>2. Outbound' = 1
      BY <2>1, <3>1 DEF Moves
    <3>3. UNCHANGED <<led0, ledError>>
      BY <1>2 DEF NextPing, clientVars
    <3>4. QED
      BY <2>1, <3>1, <3>2, <3>3, SendPingParity
  <2>2. QED
    BY <1>2, <2>1, NextPingMoves, SameParity
<1>3. CASE HostMainFails
  BY <1>3, <1>b, HostMainFailsMoves, SameParity DEF HostMainFails, clientVars
<1>4. CASE HostRxCallback
  BY <1>4, <1>b, HostRxCallbackMoves, SameParity DEF HostRxCallback, clientVars
<1>5. CASE GetPong
  BY <1>5, <1>b, GetPongMoves, SameParity DEF GetPong, clientVars
<1>6. CASE LosePing
  BY <1>6, LosePingMoves, SameParity
<1>7. CASE ClientRxCallback
  BY <1>7, <1>b, ClientRxCallbackMoves, SameParity DEF ClientRxCallback
<1>8. CASE GetPing
  BY <1>8, <1>b, GetPingMoves, SameParity DEF GetPing
<1>9. CASE ToggleLed
  BY <1>9, ToggleParity
<1>10. CASE SendPong
  BY <1>10, <1>b, SendPongMoves, SameParity DEF SendPong
<1>11. CASE Quiet
  BY <1>11, <1>b, QuietMoves, SameParity
<1>12. QED
  BY <1>1, <1>2, <1>3, <1>4, <1>5, <1>6, <1>7, <1>8, <1>9, <1>10, <1>11
     DEF Next, Quiet

LEMMA LedParityInit == Init => LedParity
<1> SUFFICES ASSUME Init PROVE LedParity
  OBVIOUS
<1>1. Outbound = 0
  BY EmptySeq DEF Init, Outbound, One, PingChannel!Init, ClientMsgQ!Init
<1>2. led0 = FALSE /\ lastPing = 0 /\ ~Odd(0 + 0)
  BY DEF Init, Odd
<1>3. QED
  BY <1>1, <1>2 DEF LedParity

(* The two cores agree about the seq and, by its parity, about LED0, also  *)
(* when seq wraps around, wherever the ball is.                            *)
THEOREM CoresAlwaysAgree == Spec => []CoresAgree
<1>1. Spec => []LedParity
  BY LedParityInit, LedParityStep, AgreementAlways, OneBall, TypeCorrect, PTL
     DEF Spec
<1>2. Agreement /\ LedParity => CoresAgree
  BY DEF Agreement, LedParity, Odd, CoresAgree, LedTracksSeq
<1>3. QED
  BY <1>1, <1>2, AgreementAlways, PTL
-----------------------------------------------------------------------------
(* Who has the ball, in the eyes of Rally.                                 *)
Turn ==
  IF lost \/ hmain = "halted" THEN "over"
  ELSE IF AtHost > 0 THEN "m55" ELSE "m4"

NaturalCounts == AtHost \in Nat /\ AtClient \in Nat

LEMMA NaturalCountsNext == TypeOK' => NaturalCounts'
<1>1. TypeOK => NaturalCounts
  BY Counts DEF NaturalCounts
<1>2. QED
  BY <1>1, PTL

(* What the moves of the ball mean to Rally, given that there is one.      *)
LEMMA TurnMoves ==
  ASSUME TypeOK, TypeOK', SingleBall
  PROVE  /\ Moves(-1, 1, 1) /\ (Over' <=> Over) => Turn = "m55" /\ Turn' = "m4"
         /\ Moves(1, 0, -1) /\ (Over' <=> Over) => Turn = "m4" /\ Turn' = "m55"
         /\ Moves(-1, 0, 0) /\ Over' => Turn = "m55" /\ Turn' = "over"
         /\ \A o : Moves(0, o, -1) /\ Over' => Turn = "m4" /\ Turn' = "over"
         /\ \A o : Moves(0, o, 0) /\ (Over' <=> Over) => Turn' = Turn
<1>1. /\ AtHost \in Nat /\ AtClient \in Nat
      /\ AtHost' \in Nat /\ AtClient' \in Nat
      /\ AtHost > 0 => AtHost = 1 /\ ~Over
      /\ AtClient > 0 => AtHost = 0 /\ ~Over
  BY Counts, NaturalCountsNext, Alone DEF NaturalCounts
<1>2. /\ Turn = IF Over THEN "over" ELSE IF AtHost > 0 THEN "m55" ELSE "m4"
      /\ Turn' = IF Over' THEN "over" ELSE IF AtHost' > 0 THEN "m55" ELSE "m4"
  BY DEF Turn, Over
<1>3. ASSUME Moves(-1, 1, 1), Over' <=> Over
      PROVE  Turn = "m55" /\ Turn' = "m4"
  BY <1>1, <1>2, <1>3 DEF Moves
<1>4. ASSUME Moves(1, 0, -1), Over' <=> Over
      PROVE  Turn = "m4" /\ Turn' = "m55"
  BY <1>1, <1>2, <1>4 DEF Moves
<1>5. ASSUME Moves(-1, 0, 0), Over'
      PROVE  Turn = "m55" /\ Turn' = "over"
  BY <1>1, <1>2, <1>5 DEF Moves
<1>6. ASSUME NEW o, Moves(0, o, -1), Over'
      PROVE  Turn = "m4" /\ Turn' = "over"
  BY <1>1, <1>2, <1>6 DEF Moves
<1>7. ASSUME NEW o, Moves(0, o, 0), Over' <=> Over
      PROVE  Turn' = Turn
  BY <1>1, <1>2, <1>7 DEF Moves
<1>8. QED
  BY <1>3, <1>4, <1>5, <1>6, <1>7

(* Each step of the two cores is a shot, a return or a miss, or leaves the *)
(* rally alone.                                                            *)
LEMMA RallyStep ==
  TypeOK /\ TypeOK' /\ SingleBall /\ Agreement /\ [Next]_vars
    => [Turns!Next]_<<Turn, lastPing>>
<1> SUFFICES ASSUME TypeOK, TypeOK', SingleBall, Agreement, [Next]_vars
             PROVE  Turns!Next \/ UNCHANGED <<Turn, lastPing>>
  OBVIOUS
<1>a. ~HostMainFails => (hmain' = "halted" <=> hmain = "halted")
  BY HaltedStays
<1>b. /\ lost' = TRUE => Over'
      /\ ~HostMainFails /\ UNCHANGED lost => (Over' <=> Over)
  BY <1>a DEF Over
<1>c. /\ Turn = "m55" /\ Turn' = "m4" /\ lastPing' = (lastPing + 1) % Modulus
           => Turns!Next
      /\ Turn = "m55" /\ Turn' = "over" /\ lastPing' = (lastPing + 1) % Modulus
           => Turns!Next
      /\ Turn = "m4" /\ Turn' = "m55" /\ lastPing' = lastPing => Turns!Next
      /\ Turn # "over" /\ Turn' = "over" /\ lastPing' = lastPing => Turns!Next
  BY DEF Turns!Next, Turns!HostShot, Turns!WideShot, Turns!Return, Turns!Miss,
     Turn
<1>1. CASE HostMainFails
  <2>1. Over' /\ lastPing' = lastPing
    BY <1>1 DEF HostMainFails, Over
  <2>2. QED
    BY <1>1, <1>c, <2>1, HostMainFailsMoves, TurnMoves
<1>2. CASE FirstPing \/ NextPing
  <2>1. lastPing' = (lastPing + 1) % Modulus
    <3>1. CASE FirstPing
      <4>1. lastPing = 0 /\ lastPing' = 1
        BY <3>1 DEF FirstPing, SendPing, Agreement
      <4>2. QED
        BY <4>1, PingPongAssumption
    <3>2. CASE NextPing
      BY <3>2 DEF NextPing, SendPing, Agreement, SeqAgrees
    <3>3. QED
      BY <1>2, <3>1, <3>2
  <2>2. ~HostMainFails
    BY <1>2 DEF FirstPing, NextPing, HostMainFails, TypeOK
  <2>3. \/ Moves(-1, 1, 1) /\ UNCHANGED lost
        \/ Moves(-1, 0, 0) /\ lost' = TRUE
    BY <1>2, FirstPingMoves, NextPingMoves
  <2>4. QED
    BY <1>b, <1>c, <2>1, <2>2, <2>3, TurnMoves
<1>3. CASE ~HostMainFails /\ HostRxCallback
  <2>1. lastPing' = lastPing
    BY <1>3 DEF HostRxCallback
  <2>2. QED
    BY <1>3, <1>b, <1>c, <2>1, HostRxCallbackMoves, TurnMoves
<1>4. CASE ~HostMainFails /\ GetPong
  BY <1>4, <1>b, GetPongMoves, TurnMoves DEF GetPong
<1>5. CASE ~HostMainFails /\ LosePing
  <2>1. lastPing' = lastPing
    BY <1>5 DEF LosePing
  <2>2. QED
    BY <1>5, <1>b, <1>c, <2>1, LosePingMoves, TurnMoves
<1>6. CASE ~HostMainFails /\ ClientRxCallback
  <2>1. lastPing' = lastPing
    BY <1>6 DEF ClientRxCallback
  <2>2. QED
    BY <1>6, <1>b, <1>c, <2>1, ClientRxCallbackMoves, TurnMoves
<1>7. CASE ~HostMainFails /\ GetPing
  BY <1>7, <1>b, GetPingMoves, TurnMoves DEF GetPing
<1>8. CASE ~HostMainFails /\ ToggleLed
  BY <1>8, <1>b, ToggleLedMoves, TurnMoves DEF ToggleLed
<1>9. CASE ~HostMainFails /\ SendPong
  <2>1. lastPing' = lastPing
    BY <1>9 DEF SendPong
  <2>2. QED
    BY <1>9, <1>b, <1>c, <2>1, SendPongMoves, TurnMoves
<1>10. CASE ~HostMainFails /\ Quiet
  BY <1>10, <1>b, QuietMoves, TurnMoves
<1>11. QED
  BY <1>1, <1>2, <1>3, <1>4, <1>5, <1>6, <1>7, <1>8, <1>9, <1>10
     DEF Next, Quiet

(* Lab 03 implements Rally for every size of mailbox and queues: the cores *)
(* take turns, the pings are numbered without a gap, and a lost ball ends  *)
(* the rally for good.                                                     *)
THEOREM ImplementsRally == Spec => TakesTurns
<1>1. Init => Turns!Init
  <2> SUFFICES ASSUME Init PROVE Turns!Init
    OBVIOUS
  <2>1. AtHost = 1
    <3>1. /\ hmain = "boot" /\ htask = "off"
          /\ Len(pongBox) = 0 /\ Len(hq) = 0
      BY EmptySeq DEF Init, HostMsgQ!Init, PongChannel!Init
    <3>2. QED
      BY <3>1 DEF AtHost, One
  <2>2. lost = FALSE /\ hmain = "boot" /\ lastPing = 0
    BY DEF Init
  <2>3. QED
    BY <2>1, <2>2 DEF Turns!Init
<1>2. QED
  BY <1>1, RallyStep, TypeCorrect, OneBall, AgreementAlways, PTL
     DEF Spec, TakesTurns, Turns!Spec, Turn
=============================================================================
