----------------------- MODULE StructuredCommandProofs -----------------------
(***************************************************************************)
(* Theorems about StructuredCommand, for every capacity of the mailbox and *)
(* of the queue, every number of commands and every number of presses: in  *)
(* which order commands are carried out and answered, what the LEDs are    *)
(* left in, and what a reply tells the host.                               *)
(***************************************************************************)
EXTENDS StructuredCommand, QueueLemmas, FiniteSetTheorems, FunctionTheorems

(* The stages of a command's path, the oldest first: replies on their way  *)
(* back, the command in Cmd_Task's hands (or its reply), the queued ones,  *)
(* those in the mailbox and the one that main() is about to send.          *)
Answering == {s.of : s \in Range(statusBox)}
InHand == IF tpc = "run" THEN {cmd} ELSE IF tpc = "send" THEN {status.of} ELSE {}
Queued == Range(cmd_msgq)
Boxed == Range(cmdBox)
Sending == IF hpc = "send" THEN {step} ELSE {}

Path == Answering \cup InHand \cup Queued \cup Boxed \cup Sending

(* The command that a reply answers.                                       *)
Of == [s \in Status |-> s.of]

(* No command overtakes another, and no reply does.  Only GET_STATUS is    *)
(* answered, and no question still on its way is older than the latest     *)
(* answer the host has seen.                                               *)
InOrder ==
  /\ Rising(Of, statusBox) /\ Increasing(cmd_msgq) /\ Increasing(cmdBox)
  /\ Before(Answering, InHand \cup Queued \cup Boxed)
  /\ Before(InHand, Queued \cup Boxed)
  /\ Before(Queued, Boxed)
  /\ \A n \in Answering \cup InHand \cup Queued \cup Boxed : n < step
  /\ \A n \in Answering : Asks(n)
  /\ tpc = "send" => Asks(status.of)
  /\ \A n \in Path : Asks(n) => answered < Question(n)
  /\ answered <= (step + 2) \div 5

(* The commands that were carried out.                                     *)
Settled == 0..(step - 1) \ (lost \cup CmdsUnderWay)

(* Commands are carried out in order, and what is lost does not come back. *)
SettledInOrder ==
  /\ Before(Settled, CmdsUnderWay)
  /\ \A n \in lost : n < step /\ n \notin CmdsUnderWay

(* The host cannot have noted more presses than there were.                *)
NotedPresses == \A n \in Steps : pressesAt[n] <= g_button_presses
-----------------------------------------------------------------------------
(* The host's cycle, by the place of step n in it.                         *)
LEMMA Cycle ==
  ASSUME NEW n \in Nat
  PROVE  /\ Asks(n) <=> n % 5 = 2
         /\ Sets(n, 0) <=> n % 5 \in {0, 3}
         /\ Sets(n, 1) <=> n % 5 \in {1, 4}
         /\ n % 5 \in {0, 1} => Command(n).led_state = 1
         /\ n % 5 \in {3, 4} => Command(n).led_state = 0
         /\ ~Asks(n) => Command(n).led_id \in Leds
<1>1. n % 5 \in {0, 1, 2, 3, 4}
  OBVIOUS
<1> USE DEF Asks, Sets, Command, SetLedCmd, GetStatusCmd, Leds
<1>2. CASE n % 5 = 0
  BY <1>2
<1>3. CASE n % 5 = 1
  BY <1>3
<1>4. CASE n % 5 = 2
  BY <1>4
<1>5. CASE n % 5 = 3
  BY <1>5
<1>6. CASE n % 5 = 4
  BY <1>6
<1>7. QED
  BY <1>1, <1>2, <1>3, <1>4, <1>5, <1>6

(* Questions are numbered in their order, each with a number of its own.   *)
LEMMA Questions ==
  ASSUME NEW n \in Nat
  PROVE  /\ Question(n) \in Nat \ {0}
         /\ Asks(n) => Question(n) = (n + 2) \div 5 + 1
         /\ Asks(n) => Question(n) = (n + 3) \div 5
         /\ ~Asks(n) => (n + 3) \div 5 = (n + 2) \div 5
         /\ \A m \in Nat : m < n /\ Asks(m) /\ Asks(n) =>
              Question(m) < Question(n)
         /\ \A m \in Nat : m < n /\ Asks(m) => Question(m) <= (n + 2) \div 5
<1>1. \A m \in Nat : Asks(m) => m % 5 = 2
  BY Cycle
<1>2. n % 5 = 2 => Asks(n)
  BY Cycle
<1>3. PICK q \in Nat, r \in 0..4 :
        n = 5 * q + r /\ n % 5 = r /\ n \div 5 = q
  OBVIOUS
<1>4. \A m \in Nat : Asks(m) => \E p \in Nat : m = 5 * p + 2 /\ m \div 5 = p
  BY <1>1
<1>5. QED
  BY <1>1, <1>2, <1>3, <1>4 DEF Question

LEMMA StepsAreNumbers ==
  /\ Steps \subseteq Nat
  /\ \A n \in Steps : n < MaxSteps
  /\ \A s \in Seq(Steps) : s \in Seq(Nat) /\ Len(s) \in Nat
  /\ \A s \in Status : s.of \in Steps /\ s.of \in Nat /\ s.led \in States
                       /\ s.presses \in 0..MaxPresses
BY StructuredCommandAssumption DEF Steps, Status

LEMMA OfStatus ==
  Of \in [Status -> Nat] /\ \A x \in Status : Of[x] = x.of
BY StepsAreNumbers DEF Of

LEMMA TypeInit == Init => TypeOK
<1> SUFFICES ASSUME Init PROVE TypeOK
  OBVIOUS
<1>1. /\ cmdBox = <<>> /\ statusBox = <<>> /\ cmd_msgq = <<>>
      /\ cmdOn = FALSE /\ statusOn = FALSE
  BY DEF Init, CmdChannel!Init, StatusChannel!Init, CmdMsgQ!Init
<1>2. /\ <<>> \in Seq(Steps) /\ <<>> \in Seq(Status) /\ Len(<<>>) = 0
      /\ 0 <= Slots /\ 0 <= Depth /\ 0 \in 0..MaxSteps /\ 0 \in 0..MaxPresses
  BY EmptySeq, StructuredCommandAssumption
<1>3. /\ hpc = "boot" /\ step = 0 /\ mpc = "boot" /\ tpc = "off" /\ cmd = 0
      /\ status = NoStatus /\ g_button_presses = 0 /\ lost = {}
      /\ answered = 0
  BY DEF Init
<1>4. g_led_state \in States /\ pin \in States /\ doubtful \subseteq Leds
  BY DEF Init, States
<1>5. pressesAt \in [Steps -> 0..MaxPresses]
  BY <1>2 DEF Init
<1>6. QED
  BY <1>1, <1>2, <1>3, <1>4, <1>5 DEF TypeOK

LEMMA CmdBoxMoves ==
  ASSUME TypeOK
  PROVE  /\ \A n : CmdChannel!Interrupt(n)
              => /\ cmdBox # <<>> /\ n = Head(cmdBox)
                 /\ cmdBox' = Tail(cmdBox)
                 /\ cmdBox' \in Seq(Steps) /\ Len(cmdBox') <= Slots
                 /\ cmdOn' = cmdOn
                 /\ n \in Steps /\ Boxed = {n} \cup Boxed'
         /\ CmdChannel!Discard
              => /\ cmdBox # <<>> /\ cmdBox' = Tail(cmdBox)
                 /\ cmdBox' \in Seq(Steps) /\ Len(cmdBox') <= Slots
                 /\ cmdOn' = cmdOn
                 /\ Head(cmdBox) \in Steps
                 /\ Boxed = {Head(cmdBox)} \cup Boxed'
         /\ \A n \in Steps : \A size : CmdChannel!Post(n, size)
              => /\ cmdBox' = Append(cmdBox, n)
                 /\ cmdBox' \in Seq(Steps) /\ Len(cmdBox') <= Slots
                 /\ cmdOn' = cmdOn
                 /\ Boxed' = Boxed \cup {n}
<1>1. cmdBox \in Seq(Steps) /\ Len(cmdBox) <= Slots /\ Slots \in Nat
  BY StructuredCommandAssumption DEF TypeOK
<1>2. ASSUME cmdBox # <<>>, cmdBox' = Tail(cmdBox)
      PROVE  /\ cmdBox' \in Seq(Steps) /\ Len(cmdBox') <= Slots
             /\ Head(cmdBox) \in Steps
             /\ Boxed = {Head(cmdBox)} \cup Boxed'
  BY <1>1, <1>2, Takes DEF Boxed
<1>3. ASSUME NEW n \in Steps, NEW size, CmdChannel!Post(n, size)
      PROVE  /\ cmdBox' = Append(cmdBox, n)
             /\ cmdBox' \in Seq(Steps) /\ Len(cmdBox') <= Slots
             /\ cmdOn' = cmdOn
             /\ Boxed' = Boxed \cup {n}
  <2>1. cmdBox' = Append(cmdBox, n) /\ Len(cmdBox) < Slots /\ cmdOn' = cmdOn
    BY <1>3 DEF CmdChannel!Post
  <2>2. QED
    BY <1>1, <2>1, Puts DEF Boxed
<1>4. QED
  BY <1>2, <1>3 DEF CmdChannel!Interrupt, CmdChannel!Discard

LEMMA CmdQueueMoves ==
  ASSUME TypeOK
  PROVE  /\ \A n : CmdMsgQ!Get(n)
              => /\ cmd_msgq # <<>> /\ n = Head(cmd_msgq)
                 /\ cmd_msgq' = Tail(cmd_msgq)
                 /\ cmd_msgq' \in Seq(Steps) /\ Len(cmd_msgq') <= Depth
                 /\ n \in Steps /\ Queued = {n} \cup Queued'
         /\ \A n \in Steps : CmdMsgQ!Put(n)
              => /\ cmd_msgq' = Append(cmd_msgq, n)
                 /\ cmd_msgq' \in Seq(Steps) /\ Len(cmd_msgq') <= Depth
                 /\ Queued' = Queued \cup {n}
<1>1. /\ cmd_msgq \in Seq(Steps) /\ Len(cmd_msgq) \in Nat
      /\ Len(cmd_msgq) <= Depth /\ Depth \in Nat
  BY StructuredCommandAssumption, LenProperties DEF TypeOK
<1>2. ASSUME NEW n, CmdMsgQ!Get(n)
      PROVE  /\ cmd_msgq # <<>> /\ n = Head(cmd_msgq)
             /\ cmd_msgq' = Tail(cmd_msgq)
             /\ cmd_msgq' \in Seq(Steps) /\ Len(cmd_msgq') <= Depth
             /\ n \in Steps /\ Queued = {n} \cup Queued'
  <2>1. /\ cmd_msgq # <<>> /\ n = Head(cmd_msgq)
        /\ cmd_msgq' = Tail(cmd_msgq)
    BY <1>2 DEF CmdMsgQ!Get
  <2>2. QED
    BY <1>1, <2>1, Takes DEF Queued
<1>3. ASSUME NEW n \in Steps, CmdMsgQ!Put(n)
      PROVE  /\ cmd_msgq' = Append(cmd_msgq, n)
             /\ cmd_msgq' \in Seq(Steps) /\ Len(cmd_msgq') <= Depth
             /\ Queued' = Queued \cup {n}
  <2>1. cmd_msgq' = Append(cmd_msgq, n) /\ Len(cmd_msgq) < Depth
    BY <1>1, <1>3 DEF CmdMsgQ!Put, CmdMsgQ!Full
  <2>2. QED
    BY <1>1, <2>1, Puts DEF Queued
<1>4. QED
  BY <1>2, <1>3

LEMMA StatusBoxMoves ==
  ASSUME TypeOK
  PROVE  /\ \A s : StatusChannel!Interrupt(s)
              => /\ statusBox # <<>> /\ s = Head(statusBox)
                 /\ statusBox' = Tail(statusBox)
                 /\ statusBox' \in Seq(Status) /\ Len(statusBox') <= Slots
                 /\ statusOn' = statusOn /\ s \in Status
                 /\ Range(statusBox) = {s} \cup Range(statusBox')
         /\ \A s \in Status : \A size : StatusChannel!Post(s, size)
              => /\ statusBox' = Append(statusBox, s)
                 /\ statusBox' \in Seq(Status) /\ Len(statusBox') <= Slots
                 /\ statusOn' = statusOn
                 /\ Range(statusBox') = Range(statusBox) \cup {s}
<1>1. statusBox \in Seq(Status) /\ Len(statusBox) <= Slots /\ Slots \in Nat
  BY StructuredCommandAssumption DEF TypeOK
<1>2. ASSUME NEW s, StatusChannel!Interrupt(s)
      PROVE  /\ statusBox # <<>> /\ s = Head(statusBox)
             /\ statusBox' = Tail(statusBox)
             /\ statusBox' \in Seq(Status) /\ Len(statusBox') <= Slots
             /\ statusOn' = statusOn /\ s \in Status
             /\ Range(statusBox) = {s} \cup Range(statusBox')
  <2>1. /\ statusBox # <<>> /\ s = Head(statusBox)
        /\ statusBox' = Tail(statusBox) /\ statusOn' = statusOn
    BY <1>2 DEF StatusChannel!Interrupt
  <2>2. QED
    BY <1>1, <2>1, Takes
<1>3. ASSUME NEW s \in Status, NEW size, StatusChannel!Post(s, size)
      PROVE  /\ statusBox' = Append(statusBox, s)
             /\ statusBox' \in Seq(Status) /\ Len(statusBox') <= Slots
             /\ statusOn' = statusOn
             /\ Range(statusBox') = Range(statusBox) \cup {s}
  <2>1. /\ statusBox' = Append(statusBox, s) /\ Len(statusBox) < Slots
        /\ statusOn' = statusOn
    BY <1>3 DEF StatusChannel!Post
  <2>2. QED
    BY <1>1, <2>1, Puts
<1>4. QED
  BY <1>2, <1>3

LEMMA LedsSet ==
  ASSUME NEW f \in States, NEW n \in Nat, ~Asks(n)
  PROVE  [f EXCEPT ![Command(n).led_id] = Command(n).led_state] \in States
<1>1. Command(n).led_state \in {0, 1}
  <2>1. n % 5 \in {0, 1, 3, 4}
    BY Cycle
  <2>2. QED
    BY <2>1, Cycle
<1>2. QED
  BY <1>1 DEF States

LEMMA TypeStep == TypeOK /\ [Next]_vars => TypeOK'
<1> SUFFICES ASSUME TypeOK, [Next]_vars PROVE TypeOK'
  OBVIOUS
<1> USE StructuredCommandAssumption DEF hostVars, cmdVars, statusVars,
      taskVars, ledVars
<1>1. CASE HostMain \/ HostMainFails
  BY <1>1 DEF HostMain, HostMainFails, StatusChannel!Enable, TypeOK
<1>2. CASE PrepareCmd
  <2>1. pressesAt' \in [Steps -> 0..MaxPresses]
    BY <1>2 DEF PrepareCmd, TypeOK
  <2>2. QED
    BY <1>2, <2>1 DEF PrepareCmd, TypeOK
<1>3. CASE SendCmd
  <2>1. step \in Steps /\ step + 1 \in 0..MaxSteps
    BY <1>3 DEF SendCmd, TypeOK, Steps
  <2>2. cmdBox' \in Seq(Steps) /\ Len(cmdBox') <= Slots /\ cmdOn' \in BOOLEAN
    BY <1>3, <2>1, CmdBoxMoves DEF SendCmd, TypeOK
  <2>3. lost' \subseteq Steps
    BY <1>3, <2>1 DEF SendCmd, TypeOK
  <2>4. /\ step' = step + 1 /\ hpc' = "loop"
        /\ UNCHANGED <<pressesAt, answered, statusVars, mpc, taskVars,
                       cmd_msgq, ledVars, g_button_presses>>
    BY <1>3 DEF SendCmd
  <2>5. QED
    BY <2>1, <2>2, <2>3, <2>4 DEF TypeOK
<1>4. CASE HostRxCallback
  <2>1. PICK s : /\ StatusChannel!Interrupt(s) /\ answered' = Question(s.of)
                 /\ UNCHANGED <<hpc, step, pressesAt, cmdVars, mpc, taskVars,
                                cmd_msgq, ledVars, g_button_presses, lost>>
    BY <1>4 DEF HostRxCallback
  <2>2. /\ statusBox' \in Seq(Status) /\ Len(statusBox') <= Slots
        /\ statusOn' = statusOn /\ s \in Status
    BY <2>1, StatusBoxMoves
  <2>3. answered' \in Nat
    BY <2>1, <2>2, StepsAreNumbers, Questions
  <2>4. QED
    BY <2>1, <2>2, <2>3 DEF TypeOK
<1>5. CASE ClientMain \/ ClientMainFails \/ StartCmdTask
  BY <1>5 DEF ClientMain, ClientMainFails, StartCmdTask, CmdChannel!Enable,
     TypeOK
<1>6. CASE LoseCmd
  <2>1. /\ cmdBox' \in Seq(Steps) /\ Len(cmdBox') <= Slots /\ cmdOn' = cmdOn
        /\ Head(cmdBox) \in Steps
    BY <1>6, CmdBoxMoves DEF LoseCmd
  <2>2. QED
    BY <1>6, <2>1 DEF LoseCmd, TypeOK
<1>7. CASE MboxRxCallback
  <2>1. PICK n :
          /\ CmdChannel!Interrupt(n)
          /\ \/ CmdMsgQ!Put(n) /\ UNCHANGED lost
             \/ CmdMsgQ!PutFails /\ lost' = lost \cup {n}
          /\ UNCHANGED <<hostVars, statusVars, mpc, taskVars, ledVars,
                         g_button_presses>>
    BY <1>7 DEF MboxRxCallback
  <2>2. /\ cmdBox' \in Seq(Steps) /\ Len(cmdBox') <= Slots /\ cmdOn' = cmdOn
        /\ n \in Steps
    BY <2>1, CmdBoxMoves
  <2>3. /\ cmd_msgq' \in Seq(Steps) /\ Len(cmd_msgq') <= Depth
        /\ lost' \subseteq Steps
    BY <2>1, <2>2, CmdQueueMoves DEF CmdMsgQ!PutFails, TypeOK
  <2>4. QED
    BY <2>1, <2>2, <2>3 DEF TypeOK
<1>8. CASE ButtonInputCb
  BY <1>8 DEF ButtonInputCb, TypeOK
<1>9. CASE GetCmd
  <2>1. CmdMsgQ!Get(cmd')
    BY <1>9 DEF GetCmd
  <2>2. /\ cmd_msgq' \in Seq(Steps) /\ Len(cmd_msgq') <= Depth
        /\ cmd' \in Steps
    BY <2>1, CmdQueueMoves
  <2>3. cmd' \in Nat
    BY <2>2, StepsAreNumbers
  <2>4. QED
    BY <1>9, <2>2, <2>3 DEF GetCmd, TypeOK
<1>10. CASE SetLed
  <2>1. /\ \/ pin' = pin
           \/ pin' = [pin EXCEPT ![Command(cmd).led_id] = Command(cmd).led_state]
        /\ doubtful' \subseteq doubtful \cup {Command(cmd).led_id}
        /\ g_led_state' = [g_led_state EXCEPT
                             ![Command(cmd).led_id] = Command(cmd).led_state]
    BY <1>10 DEF SetLed
  <2>2. /\ pin \in States /\ g_led_state \in States /\ doubtful \subseteq Leds
        /\ cmd \in Nat /\ ~Asks(cmd)
    BY <1>10 DEF TypeOK, SetLed
  <2>3. pin' \in States /\ g_led_state' \in States /\ doubtful' \subseteq Leds
    BY <2>1, <2>2, LedsSet, Cycle
  <2>4. /\ tpc = "run" /\ tpc' = "get"
        /\ UNCHANGED <<hostVars, cmdVars, statusVars, mpc, cmd, status,
                       cmd_msgq, g_button_presses, lost>>
    BY <1>10 DEF SetLed
  <2>5. QED
    BY <2>3, <2>4 DEF TypeOK
<1>11. CASE GetStatus
  <2>1. status' \in Status
    BY <1>11 DEF GetStatus, TypeOK, Status
  <2>2. QED
    BY <1>11, <2>1 DEF GetStatus, TypeOK
<1>12. CASE SendStatus
  <2>1. status \in Status /\ status.of \in Steps
    BY <1>12, StepsAreNumbers DEF SendStatus, TypeOK
  <2>2. /\ statusBox' \in Seq(Status) /\ Len(statusBox') <= Slots
        /\ statusOn' \in BOOLEAN
    BY <1>12, <2>1, StatusBoxMoves DEF SendStatus, TypeOK
  <2>3. lost' \subseteq Steps
    BY <1>12, <2>1 DEF SendStatus, TypeOK
  <2>4. QED
    BY <1>12, <2>2, <2>3 DEF SendStatus, TypeOK
<1>13. CASE Rest \/ UNCHANGED vars
  BY <1>13 DEF Rest, vars, TypeOK
<1>14. QED
  BY <1>1, <1>2, <1>3, <1>4, <1>5, <1>6, <1>7, <1>8, <1>9, <1>10, <1>11,
     <1>12, <1>13 DEF Next

(* The type invariant of both cores holds in every reachable state.        *)
THEOREM TypeCorrect == Spec => []TypeOK
BY TypeInit, TypeStep, PTL DEF Spec
-----------------------------------------------------------------------------
(* One lemma per action says what it does to the path of a command; the    *)
(* invariants and the refinement need no more of the actions.              *)
LEMMA StagesAreNumbers ==
  ASSUME TypeOK
  PROVE  /\ Answering \subseteq Nat /\ InHand \subseteq Nat
         /\ Queued \subseteq Nat /\ Boxed \subseteq Nat /\ Sending \subseteq Nat
         /\ step \in Nat /\ answered \in Nat /\ cmd \in Nat
         /\ cmd_msgq \in Seq(Nat) /\ cmdBox \in Seq(Nat)
         /\ statusBox \in Seq(Status) /\ Range(statusBox) \subseteq Status
         /\ tpc = "send" => status \in Status /\ status.of \in Nat
<1>1. /\ step \in Nat /\ answered \in Nat /\ cmd \in Nat
      /\ cmd_msgq \in Seq(Nat) /\ cmdBox \in Seq(Nat)
      /\ statusBox \in Seq(Status)
      /\ tpc = "send" => status \in Status
  BY StepsAreNumbers, StructuredCommandAssumption DEF TypeOK
<1>2. \A S : \A s \in Seq(S) : Range(s) \subseteq S
  BY DEF Range
<1>3. QED
  BY <1>1, <1>2, StepsAreNumbers
     DEF Answering, InHand, Queued, Boxed, Sending

(* PrepareCmd: into Sending.                                               *)
LEMMA PrepareCmdMoves ==
  ASSUME PrepareCmd
  PROVE  /\ Sending = {} /\ Sending' = {step}
         /\ hpc = "loop" /\ hpc' = "send"
         /\ UNCHANGED <<Answering, InHand, Queued, Boxed, step, answered, lost,
                        statusBox, cmd_msgq, cmdBox, tpc, cmd, status,
                        g_led_state, g_button_presses>>
BY DEF PrepareCmd, Answering, InHand, Queued, Boxed, Sending, statusVars,
   cmdVars, taskVars, ledVars

(* SendCmd: from Sending to Boxed, or lost.                                *)
LEMMA SendCmdMoves ==
  ASSUME TypeOK, Increasing(cmdBox), SendCmd
  PROVE  /\ Sending = {step} /\ Sending' = {} /\ step' = step + 1
         /\ hpc = "send" /\ hpc' = "loop" /\ step \in Steps
         /\ \/ /\ Boxed' = Boxed \cup {step} /\ lost' = lost
               /\ Before(Boxed, {step}) => Increasing(cmdBox)'
            \/ UNCHANGED <<Boxed, cmdBox>> /\ lost' = lost \cup {step}
         /\ UNCHANGED <<Answering, InHand, Queued, answered, statusBox,
                        cmd_msgq, tpc, cmd, status, g_led_state,
                        g_button_presses, pressesAt>>
<1>1. step \in Steps /\ step \in Nat
  BY StructuredCommandAssumption DEF SendCmd, TypeOK, Steps
<1>2. \/ /\ Boxed' = Boxed \cup {step} /\ lost' = lost
         /\ Before(Boxed, {step}) => Increasing(cmdBox)'
      \/ UNCHANGED <<Boxed, cmdBox>> /\ lost' = lost \cup {step}
  <2>1. CASE CmdChannel!Post(step, CmdSize) /\ UNCHANGED lost
    <3>1. cmdBox' = Append(cmdBox, step) /\ Boxed' = Boxed \cup {step}
      BY <1>1, <2>1, CmdBoxMoves
    <3>2. ASSUME Before(Boxed, {step}) PROVE Increasing(Append(cmdBox, step))
      BY <1>1, <3>2, StagesAreNumbers, IncreasingAppend DEF Before, Boxed
    <3>3. QED
      BY <2>1, <3>1, <3>2
  <2>2. CASE lost' = lost \cup {step} /\ UNCHANGED cmdVars
    BY <2>2 DEF cmdVars, Boxed
  <2>3. QED
    BY <2>1, <2>2 DEF SendCmd
<1>3. QED
  BY <1>1, <1>2 DEF SendCmd, Answering, InHand, Queued, Sending, statusVars,
     taskVars, ledVars

(* LoseCmd: the oldest out of Boxed, lost.                                 *)
LEMMA LoseCmdMoves ==
  ASSUME TypeOK, Increasing(cmdBox), LoseCmd
  PROVE  \E n \in Steps :
           /\ Boxed = {n} \cup Boxed' /\ Before({n}, Boxed')
           /\ Increasing(cmdBox)' /\ lost' = lost \cup {n}
           /\ UNCHANGED <<Answering, InHand, Queued, Sending, hpc, step,
                          answered, statusBox, cmd_msgq, tpc, cmd, status,
                          g_led_state, g_button_presses, pressesAt>>
<1>1. /\ cmdBox # <<>> /\ cmdBox' = Tail(cmdBox) /\ Head(cmdBox) \in Steps
      /\ Boxed = {Head(cmdBox)} \cup Boxed'
  BY CmdBoxMoves DEF LoseCmd
<1>2. Increasing(cmdBox)' /\ Before({Head(cmdBox)}, Boxed')
  BY <1>1, StagesAreNumbers, IncreasingTail DEF Before, Boxed
<1>3. /\ lost' = lost \cup {Head(cmdBox)}
      /\ UNCHANGED <<Answering, InHand, Queued, Sending, hpc, step, answered,
                     statusBox, cmd_msgq, tpc, cmd, status, g_led_state,
                     g_button_presses, pressesAt>>
  BY DEF LoseCmd, Answering, InHand, Queued, Sending, hostVars, statusVars,
     taskVars, ledVars
<1>4. QED
  BY <1>1, <1>2, <1>3

(* MboxRxCallback: the oldest of Boxed to Queued, or lost.                 *)
LEMMA MboxRxCallbackMoves ==
  ASSUME TypeOK, Increasing(cmdBox), Increasing(cmd_msgq), MboxRxCallback
  PROVE  \E n \in Steps :
           /\ Boxed = {n} \cup Boxed' /\ Before({n}, Boxed')
           /\ Increasing(cmdBox)'
           /\ \/ /\ Queued' = Queued \cup {n} /\ lost' = lost
                 /\ Before(Queued, {n}) => Increasing(cmd_msgq)'
              \/ UNCHANGED <<Queued, cmd_msgq>> /\ lost' = lost \cup {n}
           /\ UNCHANGED <<Answering, InHand, Sending, hpc, step, answered,
                          statusBox, tpc, cmd, status, g_led_state,
                          g_button_presses, pressesAt>>
<1>1. PICK n : /\ CmdChannel!Interrupt(n)
               /\ \/ CmdMsgQ!Put(n) /\ UNCHANGED lost
                  \/ CmdMsgQ!PutFails /\ lost' = lost \cup {n}
  BY DEF MboxRxCallback
<1>2. /\ cmdBox # <<>> /\ cmdBox' = Tail(cmdBox) /\ n = Head(cmdBox)
      /\ n \in Steps /\ Boxed = {n} \cup Boxed'
  BY <1>1, CmdBoxMoves
<1>3. Increasing(cmdBox)' /\ Before({n}, Boxed')
  BY <1>2, StagesAreNumbers, IncreasingTail DEF Before, Boxed
<1>4. \/ /\ Queued' = Queued \cup {n} /\ lost' = lost
         /\ Before(Queued, {n}) => Increasing(cmd_msgq)'
      \/ UNCHANGED <<Queued, cmd_msgq>> /\ lost' = lost \cup {n}
  <2>1. CASE CmdMsgQ!Put(n) /\ UNCHANGED lost
    <3>1. cmd_msgq' = Append(cmd_msgq, n) /\ Queued' = Queued \cup {n}
      BY <1>2, <2>1, CmdQueueMoves
    <3>2. ASSUME Before(Queued, {n}) PROVE Increasing(Append(cmd_msgq, n))
      BY <1>2, <3>2, StepsAreNumbers, StagesAreNumbers, IncreasingAppend
         DEF Before, Queued
    <3>3. QED
      BY <2>1, <3>1, <3>2
  <2>2. CASE CmdMsgQ!PutFails /\ lost' = lost \cup {n}
    BY <2>2 DEF CmdMsgQ!PutFails, Queued
  <2>3. QED
    BY <1>1, <2>1, <2>2
<1>5. UNCHANGED <<Answering, InHand, Sending, hpc, step, answered, statusBox,
                  tpc, cmd, status, g_led_state, g_button_presses, pressesAt>>
  BY DEF MboxRxCallback, Answering, InHand, Sending, hostVars, statusVars,
     taskVars, ledVars
<1>6. QED
  BY <1>2, <1>3, <1>4, <1>5

(* GetCmd: the oldest of Queued to InHand.                                 *)
LEMMA GetCmdMoves ==
  ASSUME TypeOK, Increasing(cmd_msgq), GetCmd
  PROVE  /\ cmd' \in Steps
         /\ Queued = {cmd'} \cup Queued' /\ Before({cmd'}, Queued')
         /\ Increasing(cmd_msgq)'
         /\ InHand = {} /\ InHand' = {cmd'} /\ tpc = "get" /\ tpc' = "run"
         /\ UNCHANGED <<Answering, Boxed, Sending, hpc, step, answered, lost,
                        statusBox, cmdBox, status, g_led_state,
                        g_button_presses, pressesAt>>
<1>1. CmdMsgQ!Get(cmd')
  BY DEF GetCmd
<1>2. /\ cmd_msgq # <<>> /\ cmd_msgq' = Tail(cmd_msgq)
      /\ cmd' = Head(cmd_msgq) /\ cmd' \in Steps
      /\ Queued = {cmd'} \cup Queued'
  BY <1>1, CmdQueueMoves
<1>3. Increasing(cmd_msgq)' /\ Before({cmd'}, Queued')
  BY <1>2, StagesAreNumbers, IncreasingTail DEF Before, Queued
<1>4. QED
  BY <1>2, <1>3 DEF GetCmd, Answering, InHand, Boxed, Sending, hostVars,
     statusVars, cmdVars, ledVars

(* SetLed: out of InHand, carried out.                                     *)
LEMMA SetLedMoves ==
  ASSUME SetLed
  PROVE  /\ InHand = {cmd} /\ InHand' = {} /\ tpc = "run" /\ tpc' = "get"
         /\ ~Asks(cmd)
         /\ g_led_state' = [g_led_state EXCEPT
                              ![Command(cmd).led_id] = Command(cmd).led_state]
         /\ \/ /\ pin' = [pin EXCEPT
                            ![Command(cmd).led_id] = Command(cmd).led_state]
               /\ doubtful' = doubtful \ {Command(cmd).led_id}
            \/ /\ pin' \in {pin, [pin EXCEPT ![Command(cmd).led_id]
                                            = Command(cmd).led_state]}
               /\ doubtful' = doubtful \cup {Command(cmd).led_id}
         /\ UNCHANGED <<Answering, Queued, Boxed, Sending, hpc, step, answered,
                        lost, statusBox, cmd_msgq, cmdBox, cmd, status,
                        g_button_presses, pressesAt>>
BY DEF SetLed, Answering, InHand, Queued, Boxed, Sending, hostVars,
   statusVars, cmdVars

(* GetStatus: from the command in hand to its reply.                       *)
LEMMA GetStatusMoves ==
  ASSUME GetStatus
  PROVE  /\ InHand = {cmd} /\ InHand' = {cmd} /\ tpc = "run" /\ tpc' = "send"
         /\ Asks(cmd) /\ status'.of = cmd /\ status'.led = g_led_state
         /\ status'.presses = g_button_presses
         /\ UNCHANGED <<Answering, Queued, Boxed, Sending, hpc, step, answered,
                        lost, statusBox, cmd_msgq, cmdBox, cmd, g_led_state,
                        g_button_presses, pressesAt>>
BY DEF GetStatus, Answering, InHand, Queued, Boxed, Sending, hostVars,
   statusVars, cmdVars, ledVars

(* SendStatus: from InHand to Answering, or lost.                          *)
LEMMA SendStatusMoves ==
  ASSUME TypeOK, Rising(Of, statusBox), SendStatus
  PROVE  /\ InHand = {status.of} /\ InHand' = {}
         /\ tpc = "send" /\ tpc' = "get" /\ status \in Status
         /\ \/ /\ Answering' = Answering \cup {status.of} /\ lost' = lost
               /\ Range(statusBox)' = Range(statusBox) \cup {status}
               /\ Before(Answering, {status.of}) => Rising(Of, statusBox)'
            \/ UNCHANGED <<Answering, statusBox>> /\ lost' = lost \cup {status.of}
         /\ UNCHANGED <<Queued, Boxed, Sending, hpc, step, answered, cmd_msgq,
                        cmdBox, cmd, status, g_led_state, g_button_presses,
                        pressesAt>>
<1>1. tpc = "send" /\ tpc' = "get" /\ status \in Status
  BY DEF SendStatus, TypeOK
<1>2. \/ /\ Answering' = Answering \cup {status.of} /\ lost' = lost
         /\ Range(statusBox)' = Range(statusBox) \cup {status}
         /\ Before(Answering, {status.of}) => Rising(Of, statusBox)'
      \/ UNCHANGED <<Answering, statusBox>> /\ lost' = lost \cup {status.of}
  <2>1. CASE StatusChannel!Post(status, StatusSize) /\ UNCHANGED lost
    <3>1. /\ statusBox' = Append(statusBox, status)
          /\ Range(statusBox') = Range(statusBox) \cup {status}
      BY <1>1, <2>1, StatusBoxMoves
    <3>2. ASSUME Before(Answering, {status.of})
          PROVE  Rising(Of, Append(statusBox, status))
      <4>1. \A x \in Range(statusBox) : x.of < status.of
        BY <3>2 DEF Before, Answering
      <4>2. \A x \in Range(statusBox) : Of[x] < Of[status]
        BY <1>1, <4>1, StagesAreNumbers, OfStatus
      <4>3. QED
        BY <1>1, <4>2, StagesAreNumbers, OfStatus, RisingAppend
    <3>3. Answering' = Answering \cup {status.of}
      BY <3>1 DEF Answering
    <3>4. QED
      BY <2>1, <3>1, <3>2, <3>3
  <2>2. CASE lost' = lost \cup {status.of} /\ UNCHANGED statusVars
    BY <2>2 DEF statusVars, Answering
  <2>3. QED
    BY <2>1, <2>2 DEF SendStatus
<1>3. UNCHANGED <<Queued, Boxed, Sending, hpc, step, answered, cmd_msgq,
                  cmdBox, cmd, status, g_led_state, g_button_presses,
                  pressesAt>>
  BY DEF SendStatus, Queued, Boxed, Sending, hostVars, cmdVars, ledVars
<1>4. QED
  BY <1>1, <1>2, <1>3 DEF InHand

(* HostRxCallback: the oldest of Answering becomes the latest answer.      *)
LEMMA HostRxCallbackMoves ==
  ASSUME TypeOK, Rising(Of, statusBox), HostRxCallback
  PROVE  /\ \E s \in Status :
              /\ Answering = {s.of} \cup Answering'
              /\ Before({s.of}, Answering')
              /\ answered' = Question(s.of)
              /\ Range(statusBox) = {s} \cup Range(statusBox)'
         /\ Rising(Of, statusBox)'
         /\ UNCHANGED <<InHand, Queued, Boxed, Sending, hpc, step, lost,
                        cmd_msgq, cmdBox, tpc, cmd, status, g_led_state,
                        g_button_presses, pressesAt>>
<1>1. PICK s : StatusChannel!Interrupt(s) /\ answered' = Question(s.of)
  BY DEF HostRxCallback
<1>2. /\ statusBox # <<>> /\ s = Head(statusBox) /\ s \in Status
      /\ statusBox' = Tail(statusBox)
      /\ Range(statusBox) = {s} \cup Range(statusBox')
  BY <1>1, StatusBoxMoves
<1>3. Rising(Of, statusBox)' /\ \A x \in Range(statusBox') : s.of < x.of
  <2>1. /\ Rising(Of, Tail(statusBox))
        /\ \A x \in Range(Tail(statusBox)) : Of[s] < Of[x]
    BY <1>2, StagesAreNumbers, OfStatus, RisingTail
  <2>2. Range(statusBox') \subseteq Status
    BY <1>2, StagesAreNumbers
  <2>3. QED
    BY <1>2, <2>1, <2>2, OfStatus
<1>4. Answering = {s.of} \cup Answering' /\ Before({s.of}, Answering')
  BY <1>2, <1>3 DEF Answering, Before
<1>5. UNCHANGED <<InHand, Queued, Boxed, Sending, hpc, step, lost, cmd_msgq,
                  cmdBox, tpc, cmd, status, g_led_state, g_button_presses,
                  pressesAt>>
  BY DEF HostRxCallback, InHand, Queued, Boxed, Sending, cmdVars, taskVars,
     ledVars
<1>6. QED
  BY <1>1, <1>2, <1>3, <1>4, <1>5

(* All other steps leave every command where it is.                        *)
Quiet ==
  \/ HostMain \/ HostMainFails \/ ClientMain \/ ClientMainFails
  \/ StartCmdTask \/ ButtonInputCb \/ Rest \/ UNCHANGED vars

LEMMA QuietMoves ==
  ASSUME TypeOK, Quiet
  PROVE  /\ UNCHANGED <<Answering, InHand, Queued, Boxed, Sending, step,
                        answered, lost, statusBox, cmd_msgq, cmdBox, cmd,
                        status, g_led_state, pressesAt>>
         /\ (tpc' = "run") <=> (tpc = "run")
         /\ (tpc' = "send") <=> (tpc = "send")
         /\ (hpc' = "send") <=> (hpc = "send")
         /\ g_button_presses' >= g_button_presses
<1>a. g_button_presses \in Nat
  BY StructuredCommandAssumption DEF TypeOK
<1> USE <1>a DEF Answering, InHand, Queued, Boxed, Sending, hostVars, cmdVars,
      statusVars, taskVars, ledVars
<1>1. CASE HostMain \/ HostMainFails
  BY <1>1 DEF HostMain, HostMainFails, StatusChannel!Enable
<1>2. CASE ClientMain \/ ClientMainFails
  BY <1>2 DEF ClientMain, ClientMainFails, CmdChannel!Enable
<1>3. CASE StartCmdTask
  BY <1>3 DEF StartCmdTask, TypeOK
<1>4. CASE ButtonInputCb
  BY <1>4 DEF ButtonInputCb
<1>5. CASE Rest \/ UNCHANGED vars
  BY <1>5 DEF Rest, vars
<1>6. QED
  BY <1>1, <1>2, <1>3, <1>4, <1>5 DEF Quiet
-----------------------------------------------------------------------------
LEMMA Empty ==
  ASSUME Init
  PROVE  /\ cmdBox = <<>> /\ statusBox = <<>> /\ cmd_msgq = <<>>
         /\ hpc = "boot" /\ tpc = "off" /\ step = 0 /\ answered = 0
         /\ lost = {} /\ status = NoStatus /\ g_button_presses = 0
         /\ Answering = {} /\ InHand = {} /\ Queued = {} /\ Boxed = {}
         /\ Sending = {}
<1>1. /\ cmdBox = <<>> /\ statusBox = <<>> /\ cmd_msgq = <<>>
      /\ hpc = "boot" /\ tpc = "off" /\ step = 0 /\ answered = 0
      /\ lost = {} /\ status = NoStatus /\ g_button_presses = 0
  BY DEF Init, CmdChannel!Init, StatusChannel!Init, CmdMsgQ!Init
<1>2. \A s : s = <<>> => Range(s) = {}
  BY DEF Range
<1>3. QED
  BY <1>1, <1>2 DEF Answering, InHand, Queued, Boxed, Sending

LEMMA InOrderInit == Init => InOrder
<1> SUFFICES ASSUME Init PROVE InOrder
  OBVIOUS
<1>1. \A s : s = <<>> => Increasing(s) /\ Rising(Of, s)
  BY DEF Increasing, Rising
<1>2. (0 + 2) \div 5 = 0
  OBVIOUS
<1>3. QED
  BY <1>1, <1>2, Empty DEF InOrder, Path, Before

LEMMA InOrderStep == TypeOK /\ InOrder /\ [Next]_vars => InOrder'
<1> SUFFICES ASSUME TypeOK, InOrder, [Next]_vars PROVE InOrder'
  OBVIOUS
<1>a. Rising(Of, statusBox) /\ Increasing(cmd_msgq) /\ Increasing(cmdBox)
  BY DEF InOrder
<1>b. answered <= (step + 3) \div 5
  <2>1. step \in Nat /\ answered \in Nat /\ answered <= (step + 2) \div 5
    BY StagesAreNumbers DEF InOrder
  <2>2. QED
    BY <2>1
<1>c. \A n \in Nat : Question(n) \in Nat
  BY Questions
<1>d. \A n \in Nat : n < step \/ n = step => n < step + 1
  BY StagesAreNumbers
<1>e. Asks(step) => answered < Question(step)
  <2>1. /\ step \in Nat /\ answered \in Nat
        /\ answered <= (step + 2) \div 5
    BY StagesAreNumbers DEF InOrder
  <2>2. ASSUME Asks(step)
        PROVE  Question(step) = (step + 2) \div 5 + 1
    BY <2>1, <2>2, Questions
  <2>3. (step + 2) \div 5 \in Nat
    BY <2>1
  <2>4. QED
    BY <2>1, <2>2, <2>3
<1> USE StagesAreNumbers, <1>c DEF InOrder, Path, Before
<1>1. CASE PrepareCmd
  BY <1>1, <1>e, PrepareCmdMoves
<1>2. CASE SendCmd
  <2>1. answered <= (step' + 2) \div 5
    <3>1. step' = step + 1
      BY <1>2, <1>a, SendCmdMoves
    <3>2. (step' + 2) \div 5 = (step + 3) \div 5
      BY <3>1
    <3>3. QED
      BY <1>b, <3>2
  <2>2. /\ Sending = {step} /\ Sending' = {} /\ step' = step + 1
        /\ \/ Boxed' = Boxed \cup {step} /\ Increasing(cmdBox)'
           \/ UNCHANGED <<Boxed, cmdBox>>
        /\ UNCHANGED <<Answering, InHand, Queued, answered, statusBox,
                       cmd_msgq, tpc, status>>
    BY <1>2, <1>a, SendCmdMoves
  <2>3. \A n \in Answering \cup InHand \cup Queued \cup Boxed' :
          n < step' /\ n \in Path
    <3>1. \A n \in Answering \cup InHand \cup Queued \cup Boxed \cup {step} :
            n < step + 1 /\ n \in Path
      <4>1. \A n \in Answering \cup InHand \cup Queued \cup Boxed : n < step
        OBVIOUS
      <4> HIDE DEF InOrder
      <4>2. QED
        BY <1>d, <2>2, <4>1
    <3>2. Boxed' \subseteq Boxed \cup {step}
      BY <2>2
    <3>3. QED
      BY <2>2, <3>1, <3>2
  <2>4. /\ Before(Answering, InHand \cup Queued \cup Boxed')
        /\ Before(InHand, Queued \cup Boxed') /\ Before(Queued, Boxed')
    BY <2>2
  <2>5. \A n \in Path' : Asks(n) => answered < Question(n)
    BY <2>2, <2>3
  <2>6. Rising(Of, statusBox') /\ Increasing(cmd_msgq') /\ Increasing(cmdBox')
    BY <1>a, <2>2
  <2>7. QED
    BY <2>1, <2>2, <2>3, <2>4, <2>5, <2>6
<1>3. CASE LoseCmd
  BY <1>3, <1>a, LoseCmdMoves
<1>4. CASE MboxRxCallback
  BY <1>4, <1>a, MboxRxCallbackMoves
<1>5. CASE GetCmd
  BY <1>5, <1>a, GetCmdMoves
<1>6. CASE SetLed
  BY <1>6, SetLedMoves
<1>7. CASE GetStatus
  BY <1>7, GetStatusMoves
<1>8. CASE SendStatus
  BY <1>8, <1>a, SendStatusMoves
<1>9. CASE HostRxCallback
  <2>1. PICK s \in Status :
          /\ Answering = {s.of} \cup Answering'
          /\ Before({s.of}, Answering')
          /\ answered' = Question(s.of)
    BY <1>9, <1>a, HostRxCallbackMoves
  <2>2. s.of \in Nat /\ s.of < step /\ Asks(s.of)
    BY <2>1, StepsAreNumbers
  <2>3. \A n \in Path' : s.of < n
    BY <1>9, <1>a, <2>1, <2>2, HostRxCallbackMoves DEF Sending
  <2>4. \A n \in Path' : Asks(n) => answered' < Question(n)
    <3>1. \A n \in Path' : n \in Nat
      BY <1>9, <1>a, <2>1, HostRxCallbackMoves
    <3>2. QED
      BY <2>1, <2>2, <2>3, <3>1, Questions
  <2>5. answered' <= (step + 2) \div 5
    BY <2>1, <2>2, Questions
  <2>6. QED
    BY <1>9, <1>a, <2>1, <2>4, <2>5, HostRxCallbackMoves
<1>10. CASE Quiet
  BY <1>10, QuietMoves
<1>11. QED
  BY <1>1, <1>2, <1>3, <1>4, <1>5, <1>6, <1>7, <1>8, <1>9, <1>10
     DEF Next, Quiet

(* Whatever is lost, no command and no reply ever overtakes another.       *)
THEOREM PathInOrder == Spec => []InOrder
BY InOrderInit, InOrderStep, TypeCorrect, PTL DEF Spec
-----------------------------------------------------------------------------
(* What becomes of the commands under way: they stay on their way, a new   *)
(* one is prepared, one is lost, or Cmd_Task has carried one out.  Besides,*)
(* the reply to one that was carried out may be lost.                      *)
Moving ==
  /\ CmdsUnderWay' = CmdsUnderWay /\ lost' = lost
  /\ step' = step \/ (step' = step + 1 /\ step \in CmdsUnderWay)

Preparing ==
  CmdsUnderWay' = CmdsUnderWay \cup {step} /\ lost' = lost /\ step' = step

Losing(n) ==
  /\ n \in CmdsUnderWay
  /\ CmdsUnderWay' = CmdsUnderWay \ {n} /\ lost' = lost \cup {n}
  /\ (step' = step /\ n < step) \/ (step' = step + 1 /\ n = step)

CarryingOut ==
  /\ SetLed \/ GetStatus
  /\ cmd \in CmdsUnderWay /\ cmd < step
  /\ CmdsUnderWay' = CmdsUnderWay \ {cmd} /\ \A m \in CmdsUnderWay' : cmd < m
  /\ lost' = lost /\ step' = step

ReplyLost ==
  /\ CmdsUnderWay' = CmdsUnderWay /\ lost' = lost \cup {status.of}
  /\ tpc = "send" /\ status.of < step /\ status.of \notin CmdsUnderWay
  /\ step' = step

LEMMA CarriesOut ==
  ASSUME TypeOK, InOrder, SetLed \/ GetStatus
  PROVE  CarryingOut
<1>1. /\ tpc = "run" /\ tpc' # "run" /\ InHand = {cmd}
      /\ UNCHANGED <<Queued, Boxed, Sending, lost, step>>
  BY SetLedMoves, GetStatusMoves
<1>2. cmd < step /\ \A m \in Sending \cup Boxed \cup Queued : cmd < m
  BY <1>1 DEF InOrder, Before, Sending
<1>3. /\ CmdsUnderWay = Sending \cup Boxed \cup Queued \cup {cmd}
      /\ CmdsUnderWay' = Sending \cup Boxed \cup Queued
  BY <1>1 DEF CmdsUnderWay, Sending, Boxed, Queued
<1>4. cmd \notin CmdsUnderWay'
  BY <1>2, <1>3, StagesAreNumbers
<1>5. QED
  BY <1>1, <1>2, <1>3, <1>4 DEF CarryingOut

LEMMA UnderWayMoves ==
  ASSUME TypeOK, InOrder, [Next]_vars
  PROVE  \/ Moving \/ Preparing \/ \E n \in Nat : Losing(n)
         \/ CarryingOut \/ ReplyLost
<1> DEFINE Running(t, c) == IF t = "run" THEN {c} ELSE {}
<1>a. Rising(Of, statusBox) /\ Increasing(cmd_msgq) /\ Increasing(cmdBox)
  BY DEF InOrder
<1>b. /\ CmdsUnderWay = Sending \cup Boxed \cup Queued \cup Running(tpc, cmd)
      /\ CmdsUnderWay'
           = Sending' \cup Boxed' \cup Queued' \cup Running(tpc', cmd')
  BY DEF CmdsUnderWay, Sending, Boxed, Queued
<1>c. /\ tpc = "run" => InHand = {cmd}
      /\ tpc = "send" => InHand = {status.of}
      /\ Sending \subseteq {step}
  BY DEF InHand, Sending
<1>d. /\ Before(InHand, Queued \cup Boxed) /\ Before(Queued, Boxed)
      /\ \A n \in InHand \cup Queued \cup Boxed : n < step
  BY DEF InOrder
<1>e. /\ \A n \in Boxed : n \notin Queued \cup InHand \cup {step}
      /\ \A n \in InHand : n \notin Queued \cup Boxed \cup {step}
  <2>1. \A n \in InHand \cup Queued \cup Boxed : n \in Nat /\ n # step
    BY <1>d, StagesAreNumbers
  <2>2. \A n \in Nat : ~(n < n)
    OBVIOUS
  <2>3. QED
    BY <1>d, <2>1, <2>2 DEF Before
<1> USE StagesAreNumbers
<1>1. CASE PrepareCmd
  BY <1>1, <1>b, PrepareCmdMoves DEF Preparing
<1>2. CASE SendCmd
  <2>1. /\ Sending = {step} /\ Sending' = {} /\ step' = step + 1
        /\ UNCHANGED <<Queued, tpc, cmd>>
        /\ \/ Boxed' = Boxed \cup {step} /\ lost' = lost
           \/ UNCHANGED Boxed /\ lost' = lost \cup {step}
    BY <1>2, <1>a, SendCmdMoves
  <2>2. step \in CmdsUnderWay /\ step \in Nat
    BY <1>b, <2>1
  <2>3. CASE Boxed' = Boxed \cup {step} /\ lost' = lost
    BY <1>b, <2>1, <2>2, <2>3 DEF Moving
  <2>4. CASE UNCHANGED Boxed /\ lost' = lost \cup {step}
    <3>1. step \notin Boxed \cup Queued \cup Running(tpc, cmd)
      BY <1>c, <1>d
    <3>2. CmdsUnderWay' = CmdsUnderWay \ {step}
      BY <1>b, <2>1, <2>4, <3>1
    <3>3. QED
      BY <2>1, <2>2, <2>4, <3>2 DEF Losing
  <2>5. QED
    BY <2>1, <2>3, <2>4
<1>3. CASE LoseCmd
  <2>1. PICK n \in Steps :
          /\ Boxed = {n} \cup Boxed' /\ Before({n}, Boxed')
          /\ lost' = lost \cup {n}
          /\ UNCHANGED <<Queued, Sending, step, tpc, cmd>>
    BY <1>3, <1>a, LoseCmdMoves
  <2>2. n \in Nat /\ n \in CmdsUnderWay
    BY <1>b, <2>1, StepsAreNumbers
  <2>3. n \notin Boxed' \cup Sending \cup Queued \cup Running(tpc, cmd)
    <3>1. n \in Boxed /\ n \notin Boxed'
      BY <2>1, <2>2 DEF Before
    <3>2. QED
      BY <1>c, <1>e, <3>1
  <2>4. CmdsUnderWay' = CmdsUnderWay \ {n}
    BY <1>b, <2>1, <2>3
  <2>5. QED
    BY <1>d, <2>1, <2>2, <2>4 DEF Losing
<1>4. CASE MboxRxCallback
  <2>1. PICK n \in Steps :
          /\ Boxed = {n} \cup Boxed' /\ Before({n}, Boxed')
          /\ \/ Queued' = Queued \cup {n} /\ lost' = lost
             \/ UNCHANGED Queued /\ lost' = lost \cup {n}
          /\ UNCHANGED <<Sending, step, tpc, cmd>>
    BY <1>4, <1>a, MboxRxCallbackMoves
  <2>2. n \in Nat /\ n \in CmdsUnderWay
    BY <1>b, <2>1, StepsAreNumbers
  <2>3. CASE Queued' = Queued \cup {n} /\ lost' = lost
    BY <1>b, <2>1, <2>3 DEF Moving
  <2>4. CASE UNCHANGED Queued /\ lost' = lost \cup {n}
    <3>1. n \notin Boxed' \cup Sending \cup Queued \cup Running(tpc, cmd)
      <4>1. n \in Boxed /\ n \notin Boxed'
        BY <2>1, <2>2 DEF Before
      <4>2. QED
        BY <1>c, <1>e, <4>1
    <3>2. CmdsUnderWay' = CmdsUnderWay \ {n}
      BY <1>b, <2>1, <2>4, <3>1
    <3>3. QED
      BY <1>d, <2>1, <2>2, <2>4, <3>2 DEF Losing
  <2>5. QED
    BY <2>1, <2>3, <2>4
<1>5. CASE GetCmd
  BY <1>5, <1>a, <1>b, GetCmdMoves DEF Moving
<1>6. CASE SetLed \/ GetStatus
  BY <1>6, CarriesOut
<1>7. CASE SendStatus
  <2>1. /\ tpc = "send" /\ tpc' = "get" /\ InHand = {status.of}
        /\ UNCHANGED <<Queued, Boxed, Sending, step, cmd>>
        /\ lost' = lost \/ lost' = lost \cup {status.of}
    BY <1>7, <1>a, SendStatusMoves
  <2>2. /\ CmdsUnderWay' = CmdsUnderWay
        /\ CmdsUnderWay = Sending \cup Boxed \cup Queued
    BY <1>b, <2>1
  <2>3. status.of < step /\ status.of \notin CmdsUnderWay
    BY <1>c, <1>d, <1>e, <2>1, <2>2
  <2>4. QED
    BY <2>1, <2>2, <2>3 DEF Moving, ReplyLost
<1>8. CASE HostRxCallback
  BY <1>8, <1>a, <1>b, HostRxCallbackMoves DEF Moving
<1>9. CASE Quiet
  <2>1. /\ UNCHANGED <<Queued, Boxed, Sending, step, lost, cmd>>
        /\ (tpc' = "run") <=> (tpc = "run")
    BY <1>9, QuietMoves
  <2>2. QED
    BY <1>b, <2>1 DEF Moving
<1>10. QED
  BY <1>1, <1>2, <1>3, <1>4, <1>5, <1>6, <1>7, <1>8, <1>9 DEF Next, Quiet

(* What that means for the commands that were carried out.                 *)
LEMMA Carried ==
  ASSUME TypeOK, SettledInOrder, CarryingOut
  PROVE  Settled' = Settled \cup {cmd} /\ \A m \in Settled : m < cmd
<1>1. cmd \in CmdsUnderWay /\ cmd \in 0..(step - 1)
  BY StagesAreNumbers DEF CarryingOut
<1>2. cmd \notin lost /\ \A m \in Settled : m < cmd
  BY <1>1 DEF SettledInOrder, Before
<1>3. Settled' = Settled \cup {cmd}
  BY <1>1, <1>2 DEF Settled, CarryingOut
<1>4. QED
  BY <1>2, <1>3

LEMMA SettledMoves ==
  ASSUME TypeOK, InOrder, SettledInOrder, [Next]_vars
  PROVE  /\ SettledInOrder'
         /\ \/ Settled' = Settled
            \/ /\ SetLed \/ GetStatus
               /\ Settled' = Settled \cup {cmd} /\ \A m \in Settled : m < cmd
            \/ tpc = "send" /\ Settled' = Settled \ {status.of}
<1>a. /\ Settled = 0..(step - 1) \ (lost \cup CmdsUnderWay)
      /\ Settled' = 0..(step' - 1) \ (lost' \cup CmdsUnderWay')
      /\ step \in Nat /\ (step + 1) - 1 = step
      /\ 0..step = 0..(step - 1) \cup {step}
      /\ step \notin 0..(step - 1)
  BY StagesAreNumbers DEF Settled
<1>b. /\ \A n \in Settled : n \in Nat /\ n < step
      /\ \A n \in Nat : n < step => n \in 0..(step - 1) /\ n < step + 1
      /\ step < step + 1
  BY <1>a
<1>c. /\ \A m \in Settled, n \in CmdsUnderWay : m < n
      /\ \A n \in lost : n < step /\ n \notin CmdsUnderWay
  BY DEF SettledInOrder, Before
<1>d. \A n \in lost : n \in Nat
  BY StepsAreNumbers DEF TypeOK
<1>e. CmdsUnderWay \subseteq Nat /\ \A n \in CmdsUnderWay : n <= step
  <2>1. \A n \in Queued \cup Boxed \cup InHand : n \in Nat /\ n < step
    BY StagesAreNumbers DEF InOrder
  <2>2. CmdsUnderWay \subseteq {step} \cup Queued \cup Boxed \cup InHand
    BY DEF CmdsUnderWay, Queued, Boxed, InHand
  <2>3. QED
    BY <1>a, <2>1, <2>2
<1>1. CASE Moving
  <2>1. Settled' = Settled
    BY <1>1, <1>a DEF Moving
  <2>2. SettledInOrder'
    BY <1>1, <1>b, <1>c, <1>d, <2>1 DEF Moving, SettledInOrder, Before
  <2>3. QED
    BY <2>1, <2>2
<1>2. CASE Preparing
  <2>1. Settled' = Settled
    BY <1>2, <1>a DEF Preparing
  <2>2. SettledInOrder'
    BY <1>2, <1>a, <1>b, <1>c, <1>d, <2>1 DEF Preparing, SettledInOrder, Before
  <2>3. QED
    BY <2>1, <2>2
<1>3. CASE \E n \in Nat : Losing(n)
  <2>1. PICK n \in Nat : Losing(n)
    BY <1>3
  <2>2. Settled' = Settled
    BY <2>1, <1>a DEF Losing
  <2>3. \A m \in lost' : m < step' /\ m \notin CmdsUnderWay'
    <3>1. \A m \in lost' : m \notin CmdsUnderWay'
      BY <2>1, <1>c DEF Losing
    <3>2. \A m \in lost : m < step /\ m < step + 1
      BY <1>b, <1>c, <1>d
    <3>3. n < step'
      <4>1. CASE step' = step + 1 /\ n = step
        BY <1>b, <4>1
      <4>2. CASE step' = step /\ n < step
        BY <4>2
      <4>3. QED
        BY <2>1, <4>1, <4>2 DEF Losing
    <3>4. QED
      BY <2>1, <3>1, <3>2, <3>3 DEF Losing
  <2>4. SettledInOrder'
    BY <2>1, <1>c, <2>2, <2>3 DEF Losing, SettledInOrder, Before
  <2>5. QED
    BY <2>2, <2>4
<1>4. CASE CarryingOut
  <2>1. Settled' = Settled \cup {cmd} /\ \A m \in Settled : m < cmd
    BY <1>4, Carried
  <2>2. SettledInOrder'
    BY <1>4, <1>c, <2>1 DEF CarryingOut, SettledInOrder, Before
  <2>3. QED
    BY <1>4, <2>1, <2>2 DEF CarryingOut
<1>5. CASE ReplyLost
  <2>1. Settled' = Settled \ {status.of}
    BY <1>5, <1>a DEF ReplyLost
  <2>2. SettledInOrder'
    BY <1>5, <1>c, <2>1 DEF ReplyLost, SettledInOrder, Before
  <2>3. QED
    BY <1>5, <2>1, <2>2 DEF ReplyLost
<1>6. QED
  BY <1>1, <1>2, <1>3, <1>4, <1>5, UnderWayMoves

LEMMA SettledAlways == Spec => []SettledInOrder
<1>1. Init => SettledInOrder
  <2> SUFFICES ASSUME Init PROVE SettledInOrder
    OBVIOUS
  <2>1. Settled = {} /\ lost = {}
    BY Empty DEF Settled
  <2>2. QED
    BY <2>1 DEF SettledInOrder, Before
<1>2. TypeOK /\ InOrder /\ SettledInOrder /\ [Next]_vars => SettledInOrder'
  BY SettledMoves
<1>3. QED
  BY <1>1, <1>2, TypeCorrect, PathInOrder, PTL DEF Spec
-----------------------------------------------------------------------------
(* LedsFollowHost, said of the commands that were carried out.             *)
Latest(n, led) ==
  /\ n \in Settled /\ Sets(n, led)
  /\ \A m \in Settled : Sets(m, led) => m <= n

Shown(n, led) ==
  /\ g_led_state[led] = Command(n).led_state
  /\ led \notin doubtful => pin[led] = Command(n).led_state

LatestShown ==
  \A led \in Leds : \A n \in Settled : Latest(n, led) => Shown(n, led)

LEMMA LedsBySettled == LedsFollowHost <=> LatestShown
<1> DEFINE Done(led) ==
      {n \in 0..(step - 1) : Sets(n, led)} \ (lost \cup CmdsUnderWay)
<1>1. \A led : Done(led) = {n \in Settled : Sets(n, led)}
  BY DEF Settled
<1>2. LedsFollowHost <=>
        \A led \in Leds : \A n \in Done(led) :
          (\A m \in Done(led) : m <= n) => Shown(n, led)
  BY DEF LedsFollowHost, Shown
<1> HIDE DEF Done
<1>3. QED
  BY <1>1, <1>2 DEF LatestShown, Latest

(* What SetLed does to a LED, and that nothing else touches one.           *)
LEMMA SetLedShows ==
  ASSUME TypeOK, SetLed, NEW led \in Leds
  PROVE  /\ led = Command(cmd).led_id => Shown(cmd, led)'
         /\ led # Command(cmd).led_id =>
              /\ g_led_state'[led] = g_led_state[led]
              /\ pin'[led] = pin[led]
              /\ led \in doubtful' <=> led \in doubtful
<1>1. g_led_state \in States /\ pin \in States
  BY DEF TypeOK
<1>2. cmd' = cmd
  BY DEF SetLed
<1>3. QED
  BY <1>1, <1>2, SetLedMoves DEF Shown, States

LEMMA LedsStay ==
  ASSUME [Next]_vars, ~SetLed
  PROVE  UNCHANGED ledVars
<1>1. CASE HostMain \/ HostMainFails \/ PrepareCmd \/ SendCmd \/ HostRxCallback
  BY <1>1 DEF HostMain, HostMainFails, PrepareCmd, SendCmd, HostRxCallback
<1>2. CASE ClientMain \/ ClientMainFails \/ StartCmdTask \/ LoseCmd
           \/ MboxRxCallback \/ ButtonInputCb
  BY <1>2 DEF ClientMain, ClientMainFails, StartCmdTask, LoseCmd,
     MboxRxCallback, ButtonInputCb
<1>3. CASE GetCmd \/ GetStatus \/ SendStatus
  BY <1>3 DEF GetCmd, GetStatus, SendStatus
<1>4. CASE Rest \/ UNCHANGED vars
  BY <1>4 DEF Rest, vars
<1>5. QED
  BY <1>1, <1>2, <1>3, <1>4 DEF Next

LEMMA LatestShownStep ==
  TypeOK /\ InOrder /\ SettledInOrder /\ LatestShown /\ [Next]_vars
    => LatestShown'
<1> SUFFICES ASSUME TypeOK, InOrder, SettledInOrder, LatestShown,
                    [Next]_vars, NEW led \in Leds, NEW n \in Settled',
                    Latest(n, led)'
             PROVE  Shown(n, led)'
  BY DEF LatestShown
<1>a. cmd \in Nat /\ \A m \in Settled : m \in Nat
  BY StagesAreNumbers DEF TypeOK, Settled
<1>b. /\ Sets(n, led)
      /\ \A m \in Settled' : Sets(m, led) => m <= n
  BY DEF Latest
<1>c. tpc = "send" => Asks(status.of)
  BY DEF InOrder
<1>d. \A m : Asks(m) => ~Sets(m, led)
  BY DEF Sets
<1>1. CASE SetLed
  <2>1. ~Asks(cmd) /\ cmd' = cmd
    BY <1>1 DEF SetLed
  <2>2. Settled' = Settled \cup {cmd} /\ \A m \in Settled : m < cmd
    BY <1>1, CarriesOut, Carried
  <2>3. CASE n = cmd
    <3>1. led = Command(cmd).led_id
      BY <1>b, <2>3 DEF Sets
    <3>2. QED
      BY <1>1, <2>1, <2>3, <3>1, SetLedShows DEF Shown
  <2>4. CASE n # cmd
    <3>1. n \in Settled /\ Latest(n, led)
      BY <1>b, <2>2, <2>4 DEF Latest
    <3>2. led # Command(cmd).led_id
      <4>1. ASSUME led = Command(cmd).led_id PROVE FALSE
        <5>1. cmd <= n /\ n < cmd
          BY <1>b, <2>1, <2>2, <3>1, <4>1 DEF Sets
        <5>2. QED
          BY <1>a, <3>1, <5>1
      <4>2. QED
        BY <4>1
    <3>3. Shown(n, led)
      BY <3>1 DEF LatestShown
    <3>4. QED
      BY <1>1, <3>2, <3>3, SetLedShows DEF Shown
  <2>5. QED
    BY <2>3, <2>4
<1>2. CASE ~SetLed
  <2>1. UNCHANGED <<g_led_state, pin, doubtful>>
    BY <1>2, LedsStay DEF ledVars
  <2>2. \A m \in Settled \ Settled' : ~Sets(m, led)
    BY <1>c, <1>d, SettledMoves
  <2>3. \A m \in Settled' \ Settled : ~Sets(m, led)
    BY <1>2, <1>d, SettledMoves, GetStatusMoves
  <2>4. n \in Settled /\ Latest(n, led)
    BY <1>b, <2>2, <2>3 DEF Latest
  <2>5. QED
    BY <2>1, <2>4 DEF LatestShown, Shown
<1>3. QED
  BY <1>1, <1>2

LEMMA LatestShownAlways == Spec => []LatestShown
<1>1. Init => LatestShown
  BY Empty DEF LatestShown, Settled
<1>2. QED
  BY <1>1, LatestShownStep, TypeCorrect, PathInOrder, SettledAlways, PTL
     DEF Spec

(* For every size of every buffer and whatever is lost: the state variable *)
(* of each LED tells the latest command for it that was carried out, and   *)
(* the LED itself shows it, unless that command's transfer failed.         *)
THEOREM LedsFollow == Spec => []LedsFollowHost
BY LatestShownAlways, LedsBySettled, PTL
-----------------------------------------------------------------------------
(* A reply comes into being in GetStatus and nowhere else; what it is      *)
(* measured by never goes back.                                            *)
LEMMA RepliesMoves ==
  ASSUME TypeOK, InOrder, [Next]_vars
  PROVE  /\ lost \subseteq lost'
         /\ g_button_presses <= g_button_presses'
         /\ \/ pressesAt' = pressesAt
            \/ PrepareCmd /\ UNCHANGED g_button_presses
         /\ \/ Replies' \subseteq Replies
            \/ GetStatus /\ Replies' \subseteq Replies \cup {status'}
<1>a. Rising(Of, statusBox) /\ Increasing(cmd_msgq) /\ Increasing(cmdBox)
  BY DEF InOrder
<1>b. g_button_presses \in Nat /\ g_button_presses <= g_button_presses
  BY StructuredCommandAssumption DEF TypeOK
<1>c. /\ UNCHANGED <<statusBox, status>> /\ (tpc' = "send" => tpc = "send")
           => Replies' \subseteq Replies
      /\ Range(statusBox) \subseteq Replies
      /\ tpc = "send" => status \in Replies
  BY DEF Replies
<1>1. CASE PrepareCmd
  BY <1>1, <1>b, <1>c, PrepareCmdMoves
<1>2. CASE SendCmd \/ LoseCmd
  BY <1>2, <1>a, <1>b, <1>c, SendCmdMoves, LoseCmdMoves
<1>3. CASE MboxRxCallback
  BY <1>3, <1>a, <1>b, <1>c, MboxRxCallbackMoves
<1>4. CASE GetCmd
  BY <1>4, <1>a, <1>b, <1>c, GetCmdMoves
<1>5. CASE SetLed
  BY <1>5, <1>b, <1>c, SetLedMoves
<1>6. CASE GetStatus
  BY <1>6, <1>b, GetStatusMoves DEF Replies
<1>7. CASE SendStatus
  <2>1. Range(statusBox)' \subseteq Range(statusBox) \cup {status}
    BY <1>7, <1>a, SendStatusMoves
  <2>2. Replies' \subseteq Replies
    BY <1>7, <1>a, <1>c, <2>1, SendStatusMoves DEF Replies
  <2>3. QED
    BY <1>7, <1>a, <1>b, <2>2, SendStatusMoves
<1>8. CASE HostRxCallback
  <2>1. Range(statusBox)' \subseteq Range(statusBox)
    BY <1>8, <1>a, HostRxCallbackMoves
  <2>2. Replies' \subseteq Replies
    BY <1>8, <1>a, <2>1, HostRxCallbackMoves DEF Replies
  <2>3. QED
    BY <1>8, <1>a, <1>b, <2>2, HostRxCallbackMoves
<1>9. CASE Quiet
  BY <1>9, <1>c, QuietMoves
<1>10. QED
  BY <1>1, <1>2, <1>3, <1>4, <1>5, <1>6, <1>7, <1>8, <1>9 DEF Next, Quiet

(* Replies answer earlier steps.                                           *)
LEMMA RepliesOfPath ==
  ASSUME TypeOK, InOrder, NEW s \in Replies
  PROVE  /\ s \in Status /\ s.of \in Nat /\ s.of \in Steps /\ s.of < step
         /\ Asks(s.of)
<1>1. CASE s \in Range(statusBox)
  BY <1>1, StagesAreNumbers, StepsAreNumbers DEF InOrder, Answering
<1>2. CASE tpc = "send" /\ s = status
  BY <1>2, StagesAreNumbers, StepsAreNumbers DEF InOrder, InHand
<1>3. QED
  BY <1>1, <1>2 DEF Replies

FreshPresses == PressesAreFresh /\ NotedPresses

LEMMA FreshPressesStep ==
  TypeOK /\ InOrder /\ FreshPresses /\ [Next]_vars => FreshPresses'
<1> SUFFICES ASSUME TypeOK, InOrder, FreshPresses, [Next]_vars
             PROVE  FreshPresses'
  OBVIOUS
<1>a. /\ g_button_presses \in Nat /\ g_button_presses' \in Nat
      /\ pressesAt \in [Steps -> 0..MaxPresses]
      /\ \A n \in Steps : pressesAt[n] \in Nat
      /\ \A n \in Steps : pressesAt[n] <= g_button_presses
      /\ step \in Nat /\ MaxPresses \in Nat
  <2>1. TypeOK'
    BY TypeStep
  <2>2. g_button_presses \in Nat /\ pressesAt \in [Steps -> 0..MaxPresses]
        /\ step \in Nat
    BY StructuredCommandAssumption DEF TypeOK
  <2>3. g_button_presses' \in Nat
    BY <2>1, StructuredCommandAssumption DEF TypeOK
  <2>4. QED
    BY <2>2, <2>3, StructuredCommandAssumption DEF FreshPresses, NotedPresses
<1>b. g_button_presses <= g_button_presses'
  BY RepliesMoves
<1>1. ASSUME NEW n \in Steps
      PROVE  /\ pressesAt'[n] \in Nat /\ pressesAt'[n] <= g_button_presses'
             /\ n < step => pressesAt'[n] = pressesAt[n]
  <2>1. CASE pressesAt' = pressesAt
    BY <1>a, <1>b, <2>1
  <2>2. CASE PrepareCmd
    <3>1. \/ pressesAt' = pressesAt
          \/ pressesAt' = [pressesAt EXCEPT ![step] = g_button_presses]
      BY <2>2 DEF PrepareCmd
    <3>2. g_button_presses' = g_button_presses
      BY <2>2, PrepareCmdMoves
    <3>3. QED
      BY <1>a, <3>1, <3>2
  <2>3. QED
    BY <2>1, <2>2, RepliesMoves
<1>2. ASSUME NEW s \in Replies'
      PROVE  s.presses \in pressesAt'[s.of]..g_button_presses'
  <2>1. CASE s \in Replies
    <3>1. s.of \in Steps /\ s.of < step
      BY <2>1, RepliesOfPath
    <3>2. s.presses \in pressesAt[s.of]..g_button_presses
      BY <2>1 DEF FreshPresses, PressesAreFresh
    <3>3. pressesAt[s.of] \in Nat /\ pressesAt'[s.of] = pressesAt[s.of]
      BY <1>a, <1>1, <3>1
    <3>4. QED
      BY <1>a, <1>b, <3>2, <3>3
  <2>2. CASE GetStatus /\ s = status'
    <3>1. /\ s.of = cmd /\ s.presses = g_button_presses
          /\ g_button_presses' = g_button_presses /\ pressesAt' = pressesAt
      BY <2>2, GetStatusMoves
    <3>2. cmd \in Steps
      BY <2>2 DEF GetStatus, TypeOK
    <3>3. pressesAt[cmd] \in Nat /\ pressesAt[cmd] <= g_button_presses
      BY <1>a, <3>2
    <3>4. QED
      BY <1>a, <3>1, <3>3
  <2>3. QED
    BY <2>1, <2>2, RepliesMoves
<1>3. QED
  BY <1>1, <1>2 DEF FreshPresses, PressesAreFresh, NotedPresses

LEMMA NoReplies == Init => Replies = {}
BY Empty DEF Replies, Answering, Range

(* However late the client is and whatever is lost: a reply tells at least *)
(* the presses there were when the host asked, and at most those of now.   *)
THEOREM FreshAnswers == Spec => []PressesAreFresh
<1>1. Init => FreshPresses
  <2> SUFFICES ASSUME Init PROVE FreshPresses
    OBVIOUS
  <2>1. \A n \in Steps : pressesAt[n] = 0
    BY DEF Init
  <2>2. QED
    BY <2>1, NoReplies, Empty DEF FreshPresses, PressesAreFresh, NotedPresses
<1>2. FreshPresses => PressesAreFresh
  BY DEF FreshPresses
<1>3. QED
  BY <1>1, <1>2, FreshPressesStep, TypeCorrect, PathInOrder, PTL DEF Spec
-----------------------------------------------------------------------------
(* When Cmd_Task fills a reply, the commands of this cycle that came before*)
(* the question are lost or carried out, and those that are carried out    *)
(* are the latest for their LEDs.                                          *)
LEMMA CycleSettled ==
  ASSUME TypeOK, InOrder, SettledInOrder, tpc = "run", Asks(cmd)
  PROVE  /\ cmd - 2 \in lost \/ Latest(cmd - 2, 0)
         /\ cmd - 1 \in lost \/ Latest(cmd - 1, 1)
         /\ Command(cmd - 2).led_state = 1 /\ Command(cmd - 1).led_state = 1
<1>a. cmd \in Nat /\ cmd % 5 = 2 /\ step \in Nat
  BY Cycle, StagesAreNumbers
<1>b. InHand = {cmd}
  BY DEF InHand
<1>c. cmd < step /\ \A m \in Boxed \cup Queued : cmd < m
  BY <1>b DEF InOrder, Before
<1>d. CmdsUnderWay \subseteq {step, cmd} \cup Boxed \cup Queued
      /\ cmd \in CmdsUnderWay
  BY DEF CmdsUnderWay, Boxed, Queued
<1>e. \A m \in CmdsUnderWay : cmd <= m
  BY <1>a, <1>c, <1>d
<1>1. PICK q \in Nat : cmd = 5 * q + 2
  BY <1>a
<1>2. /\ cmd - 2 \in Nat /\ cmd - 1 \in Nat /\ cmd - 2 < cmd /\ cmd - 1 < cmd
      /\ (cmd - 2) % 5 = 0 /\ (cmd - 1) % 5 = 1
      /\ cmd - 2 \in 0..(step - 1) /\ cmd - 1 \in 0..(step - 1)
  BY <1>a, <1>c, <1>1
<1>3. /\ cmd - 2 \notin CmdsUnderWay /\ cmd - 1 \notin CmdsUnderWay
  BY <1>a, <1>2, <1>e
<1>4. \A m \in Settled : m \in Nat /\ m < cmd
  BY <1>a, <1>d DEF SettledInOrder, Before, Settled
<1>5. /\ Sets(cmd - 2, 0) /\ Sets(cmd - 1, 1)
      /\ Command(cmd - 2).led_state = 1 /\ Command(cmd - 1).led_state = 1
  BY <1>2, Cycle
<1>6. \A m \in Settled : Sets(m, 0) => m <= cmd - 2
  <2>1. ~Sets(cmd - 1, 0)
    BY <1>2, Cycle
  <2>2. \A m \in Settled : m # cmd - 1 => m <= cmd - 2
    BY <1>a, <1>4
  <2>3. QED
    BY <2>1, <2>2
<1>7. \A m \in Settled : Sets(m, 1) => m <= cmd - 1
  BY <1>a, <1>4
<1>8. QED
  BY <1>2, <1>3, <1>5, <1>6, <1>7 DEF Latest, Settled

LEMMA StatusTellsLossesStep ==
  TypeOK /\ InOrder /\ SettledInOrder /\ LatestShown /\ StatusTellsLosses
    /\ [Next]_vars => StatusTellsLosses'
<1> SUFFICES ASSUME TypeOK, InOrder, SettledInOrder, LatestShown,
                    StatusTellsLosses, [Next]_vars, NEW s \in Replies'
             PROVE  /\ s.led[0] = 0 => s.of - 2 \in lost'
                    /\ s.led[1] = 0 => s.of - 1 \in lost'
  BY DEF StatusTellsLosses
<1>1. CASE s \in Replies
  BY <1>1, RepliesMoves DEF StatusTellsLosses
<1>2. CASE GetStatus /\ s = status'
  <2>1. /\ tpc = "run" /\ Asks(cmd) /\ s.of = cmd /\ s.led = g_led_state
        /\ lost' = lost
    BY <1>2, GetStatusMoves
  <2>2. Latest(cmd - 2, 0) => g_led_state[0] = 1
    BY <2>1, CycleSettled DEF LatestShown, Shown, Latest, Leds
  <2>3. Latest(cmd - 1, 1) => g_led_state[1] = 1
    BY <2>1, CycleSettled DEF LatestShown, Shown, Latest, Leds
  <2>4. QED
    BY <2>1, <2>2, <2>3, CycleSettled
<1>3. QED
  BY <1>1, <1>2, RepliesMoves

(* For every size of every buffer: a LED that a reply calls off is one     *)
(* whose command of this very cycle was lost.                              *)
THEOREM LossesAreTold == Spec => []StatusTellsLosses
<1>1. Init => StatusTellsLosses
  BY NoReplies DEF StatusTellsLosses
<1>2. QED
  BY <1>1, StatusTellsLossesStep, TypeCorrect, PathInOrder, SettledAlways,
     LatestShownAlways, PTL DEF Spec
-----------------------------------------------------------------------------
(* Replies in order.  Of the first k steps of the host's cycle every fifth *)
(* is a question, so that counting questions is a division.                *)
LEMMA QuestionCount ==
  ASSUME NEW k \in Nat
  PROVE  Cardinality({n \in 0..(k - 1) : Asks(n)}) = (k + 2) \div 5
<1> DEFINE S == {n \in 0..(k - 1) : Asks(n)}
           q == (k + 2) \div 5
           f == [j \in 1..q |-> 5 * j - 3]
<1>1. q \in Nat /\ 5 * q <= k + 2 /\ k + 2 < 5 * q + 5
  OBVIOUS
<1>2. ASSUME NEW j \in 1..q PROVE 5 * j - 3 \in S
  <2>1. 5 * j - 3 \in 0..(k - 1) /\ 5 * j - 3 \in Nat
    BY <1>1
  <2>2. (5 * j - 3) % 5 = 2
    OBVIOUS
  <2>3. QED
    BY <2>1, <2>2, Cycle
<1>3. ASSUME NEW n \in S PROVE \E j \in 1..q : 5 * j - 3 = n
  <2>1. n \in Nat /\ n < k /\ n % 5 = 2
    BY Cycle
  <2>2. PICK p \in Nat : n = 5 * p + 2
    BY <2>1
  <2>3. p + 1 \in 1..q /\ 5 * (p + 1) - 3 = n
    BY <1>1, <2>1, <2>2
  <2>4. QED
    BY <2>3
<1>4. \A i, j \in 1..q : 5 * i - 3 = 5 * j - 3 => i = j
  BY <1>1
<1> HIDE DEF S, q
<1>5. f \in Bijection(1..q, S)
  <2>1. f \in [1..q -> S]
    BY <1>2
  <2>2. \A i, j \in 1..q : f[i] = f[j] => i = j
    BY <1>4
  <2>3. \A n \in S : \E j \in 1..q : f[j] = n
    BY <1>3
  <2>4. QED
    BY <2>1, <2>2, <2>3, Fun_IsBij
<1>6. ExistsBijection(1..q, S)
  BY <1>5, Fun_ExistsBij
<1>7. Cardinality(S) = q
  BY <1>1, <1>6, FS_CountingElements
<1>8. QED
  BY <1>7 DEF S, q

(* The steps whose command was prepared.                                   *)
Prepared == IF hpc = "send" THEN step + 1 ELSE step

LEMMA AskedCount ==
  TypeOK /\ InOrder => Cardinality(Asked) = (Prepared + 2) \div 5
<1> SUFFICES ASSUME TypeOK, InOrder
             PROVE  Cardinality(Asked) = (Prepared + 2) \div 5
  OBVIOUS
<1>1. step \in Nat /\ Prepared \in Nat
  BY StagesAreNumbers DEF Prepared
<1>2. \A n \in InHand \cup Queued \cup Boxed : n \in 0..(step - 1)
  BY StagesAreNumbers DEF InOrder
<1>3. /\ hpc = "send" => step \in CmdsUnderWay
      /\ \A n \in CmdsUnderWay :
           n \in InHand \cup Queued \cup Boxed \/ (hpc = "send" /\ n = step)
  BY DEF CmdsUnderWay, InHand, Queued, Boxed
<1>4. 0..((step + 1) - 1) = 0..(step - 1) \cup {step}
  BY <1>1
<1>5. 0..(Prepared - 1) = 0..(step - 1) \cup CmdsUnderWay
  BY <1>2, <1>3, <1>4 DEF Prepared
<1>6. QED
  BY <1>1, <1>5, QuestionCount DEF Asked

(* The questions on their way, whether not answered yet or in a reply.     *)
Open == {n \in Path : Asks(n)}

LEMMA PendingIsOpen ==
  TypeOK /\ InOrder => Pending = {Question(n) : n \in Open}
<1> SUFFICES ASSUME TypeOK, InOrder
             PROVE  Pending = {Question(n) : n \in Open}
  OBVIOUS
<1>1. \A n : n \in Open <=> \/ n \in CmdsUnderWay /\ Asks(n)
                            \/ \E s \in Replies : n = s.of
  BY DEF Open, Path, CmdsUnderWay, Replies, Answering, InHand, Queued, Boxed,
     Sending, InOrder
<1>2. QED
  BY <1>1 DEF Pending

(* What a step does to the path as a whole.                                *)
Still == Path' = Path /\ answered' = answered /\ Prepared' = Prepared

Leaves(n) ==
  /\ n \in Path /\ Path' = Path \ {n}
  /\ answered' = answered /\ Prepared' = Prepared

Answers(n) ==
  /\ n \in Path /\ Path' = Path \ {n} /\ Asks(n) /\ \A m \in Path : n <= m
  /\ answered' = Question(n) /\ Prepared' = Prepared

LEMMA PathMoves ==
  ASSUME TypeOK, InOrder, [Next]_vars
  PROVE  \/ /\ PrepareCmd /\ Path' = Path \cup {step} /\ answered' = answered
            /\ Prepared = step /\ Prepared' = step + 1
         \/ Still
         \/ \E n \in Nat : Leaves(n) \/ Answers(n)
<1>a. Rising(Of, statusBox) /\ Increasing(cmd_msgq) /\ Increasing(cmdBox)
  BY DEF InOrder
<1>b. /\ \A n \in Boxed :
           n \notin Answering \cup Queued \cup InHand \cup {step}
      /\ \A n \in InHand :
           n \notin Answering \cup Queued \cup Boxed \cup {step}
      /\ \A n \in Answering, m \in InHand \cup Queued \cup Boxed \cup {step} :
           n < m
      /\ Sending \subseteq {step}
  <2>1. \A n \in Answering \cup InHand \cup Queued \cup Boxed :
          n \in Nat /\ n # step
    BY StagesAreNumbers DEF InOrder
  <2>2. \A n \in Nat : ~(n < n)
    OBVIOUS
  <2>3. Sending \subseteq {step}
    BY DEF Sending
  <2>4. \A n \in Answering, m \in InHand \cup Queued \cup Boxed \cup {step} :
          n < m
    BY DEF InOrder, Before
  <2>5. QED
    BY <2>1, <2>2, <2>3, <2>4 DEF InOrder, Before
<1> USE StagesAreNumbers DEF Path
<1>1. CASE PrepareCmd
  BY <1>1, PrepareCmdMoves DEF Prepared
<1>2. CASE SendCmd
  <2>1. /\ Sending = {step} /\ Sending' = {}
        /\ Boxed' = Boxed \cup {step} \/ UNCHANGED Boxed
        /\ UNCHANGED <<Answering, InHand, Queued, answered>>
        /\ hpc = "send" /\ hpc' = "loop" /\ step' = step + 1
    BY <1>2, <1>a, SendCmdMoves
  <2>2. Prepared' = Prepared
    BY <2>1 DEF Prepared
  <2>3. CASE Boxed' = Boxed \cup {step}
    BY <2>1, <2>2, <2>3 DEF Still
  <2>4. CASE UNCHANGED Boxed
    <3>1. step \notin Answering \cup InHand \cup Queued \cup Boxed
      BY DEF InOrder
    <3>2. Path' = Path \ {step} /\ step \in Path
      BY <2>1, <2>4, <3>1
    <3>3. QED
      BY <2>1, <2>2, <3>2 DEF Leaves
  <2>5. QED
    BY <2>1, <2>3, <2>4
<1>3. CASE LoseCmd
  <2>1. PICK n \in Steps :
          /\ Boxed = {n} \cup Boxed' /\ Before({n}, Boxed')
          /\ UNCHANGED <<Answering, InHand, Queued, Sending, hpc, step,
                         answered>>
    BY <1>3, <1>a, LoseCmdMoves
  <2>2. n \in Nat /\ n \in Boxed /\ n \notin Boxed'
    BY <2>1, StepsAreNumbers DEF Before
  <2>3. Path' = Path \ {n} /\ n \in Path
    BY <1>b, <2>1, <2>2
  <2>4. QED
    BY <2>1, <2>2, <2>3 DEF Leaves, Prepared
<1>4. CASE MboxRxCallback
  <2>1. PICK n \in Steps :
          /\ Boxed = {n} \cup Boxed' /\ Before({n}, Boxed')
          /\ Queued' = Queued \cup {n} \/ UNCHANGED Queued
          /\ UNCHANGED <<Answering, InHand, Sending, hpc, step, answered>>
    BY <1>4, <1>a, MboxRxCallbackMoves
  <2>2. n \in Nat /\ n \in Boxed /\ n \notin Boxed'
    BY <2>1, StepsAreNumbers DEF Before
  <2>3. Prepared' = Prepared
    BY <2>1 DEF Prepared
  <2>4. CASE Queued' = Queued \cup {n}
    BY <2>1, <2>3, <2>4 DEF Still
  <2>5. CASE UNCHANGED Queued
    <3>1. Path' = Path \ {n} /\ n \in Path
      BY <1>b, <2>1, <2>2, <2>5
    <3>2. QED
      BY <2>1, <2>2, <2>3, <3>1 DEF Leaves
  <2>6. QED
    BY <2>1, <2>4, <2>5
<1>5. CASE GetCmd
  BY <1>5, <1>a, GetCmdMoves DEF Still, Prepared
<1>6. CASE SetLed
  <2>1. /\ InHand = {cmd} /\ InHand' = {}
        /\ UNCHANGED <<Answering, Queued, Boxed, Sending, hpc, step, answered>>
    BY <1>6, SetLedMoves
  <2>2. Path' = Path \ {cmd} /\ cmd \in Path
    BY <1>b, <2>1
  <2>3. QED
    BY <2>1, <2>2 DEF Leaves, Prepared
<1>7. CASE GetStatus
  BY <1>7, GetStatusMoves DEF Still, Prepared
<1>8. CASE SendStatus
  <2>1. /\ InHand = {status.of} /\ InHand' = {} /\ status.of \in Nat
        /\ Answering' = Answering \cup {status.of} \/ UNCHANGED Answering
        /\ UNCHANGED <<Queued, Boxed, Sending, hpc, step, answered>>
    BY <1>8, <1>a, SendStatusMoves
  <2>2. Prepared' = Prepared
    BY <2>1 DEF Prepared
  <2>3. CASE Answering' = Answering \cup {status.of}
    BY <2>1, <2>2, <2>3 DEF Still
  <2>4. CASE UNCHANGED Answering
    <3>1. Path' = Path \ {status.of} /\ status.of \in Path
      BY <1>b, <2>1, <2>4
    <3>2. QED
      BY <2>1, <2>2, <3>1 DEF Leaves
  <2>5. QED
    BY <2>1, <2>3, <2>4
<1>9. CASE HostRxCallback
  <2>1. PICK s \in Status :
          /\ Answering = {s.of} \cup Answering'
          /\ Before({s.of}, Answering')
          /\ answered' = Question(s.of)
          /\ UNCHANGED <<InHand, Queued, Boxed, Sending, hpc, step>>
    BY <1>9, <1>a, HostRxCallbackMoves
  <2>2. s.of \in Nat /\ s.of \in Answering /\ s.of \notin Answering'
    BY <2>1, StepsAreNumbers DEF Before
  <2>3. \A m \in Path : m = s.of \/ s.of < m
    BY <1>b, <2>1, <2>2 DEF Before
  <2>4. s.of \notin Answering' \cup InHand \cup Queued \cup Boxed \cup Sending
    BY <1>b, <2>1, <2>2
  <2>5. Path' = Path \ {s.of} /\ s.of \in Path
    BY <2>1, <2>2, <2>4
  <2>6. \A m \in Path : s.of <= m
    <3>1. Path \subseteq Nat
      OBVIOUS
    <3>2. \A k, m \in Nat : m = k \/ k < m => k <= m
      OBVIOUS
    <3> HIDE DEF Path
    <3>3. QED
      BY <2>2, <2>3, <3>1, <3>2
  <2>7. Asks(s.of)
    BY <2>2 DEF InOrder
  <2>8. QED
    BY <2>1, <2>2, <2>5, <2>6, <2>7 DEF Answers, Prepared
<1>10. CASE Quiet
  BY <1>10, QuietMoves DEF Still, Prepared
<1>11. QED
  BY <1>1, <1>2, <1>3, <1>4, <1>5, <1>6, <1>7, <1>8, <1>9, <1>10
     DEF Next, Quiet

(* One question fewer on its way is one pending number fewer.              *)
LEMMA OneFewer ==
  ASSUME TypeOK, InOrder, NEW n \in Path, Asks(n)
  PROVE  {Question(m) : m \in Open \ {n}}
           = {Question(m) : m \in Open} \ {Question(n)}
<1>1. Path \subseteq Nat
  BY StagesAreNumbers DEF Path
<1>2. \A m \in Open : m # n => Question(m) # Question(n)
  <2> SUFFICES ASSUME NEW m \in Open, m # n PROVE Question(m) # Question(n)
    OBVIOUS
  <2>1. m \in Nat /\ n \in Nat /\ Asks(m) /\ (m < n \/ n < m)
    BY <1>1 DEF Open
  <2>2. Question(m) < Question(n) \/ Question(n) < Question(m)
    BY <2>1, Questions
  <2>3. QED
    BY <2>1, <2>2, Questions
<1>3. QED
  BY <1>2 DEF Open

LEMMA ServiceStep ==
  TypeOK /\ InOrder /\ [Next]_vars
    => [Service!Next]_<<Cardinality(Asked), Pending, answered>>
<1> SUFFICES ASSUME TypeOK, InOrder, [Next]_vars
             PROVE  \/ Service!Next
                    \/ UNCHANGED <<Cardinality(Asked), Pending, answered>>
  OBVIOUS
<1>a. TypeOK' /\ InOrder'
  BY TypeStep, InOrderStep
<1>b. /\ Cardinality(Asked) = (Prepared + 2) \div 5
      /\ Cardinality(Asked)' = (Prepared' + 2) \div 5
  <2>1. (TypeOK /\ InOrder => Cardinality(Asked) = (Prepared + 2) \div 5)'
    BY AskedCount, PTL
  <2>2. QED
    BY <1>a, <2>1, AskedCount
<1>c. /\ Pending = {Question(n) : n \in Open}
      /\ Pending' = {Question(n) : n \in Open'}
      /\ Open' = {n \in Path' : Asks(n)}
  <2>1. (TypeOK /\ InOrder => Pending = {Question(n) : n \in Open})'
    BY PendingIsOpen, PTL
  <2>2. QED
    BY <1>a, <2>1, PendingIsOpen DEF Open
<1>d. Path \subseteq Nat /\ step \in Nat
  BY StagesAreNumbers DEF Path
<1>e. \A k \in Pending : Service!Lose(k) \/ Service!Answer(k) => Service!Next
  BY DEF Service!Next
<1>1. CASE /\ PrepareCmd /\ Path' = Path \cup {step} /\ answered' = answered
           /\ Prepared = step /\ Prepared' = step + 1
  <2>1. CASE Asks(step)
    <3>1. Question(step) = (step + 2) \div 5 + 1
          /\ Question(step) = (step + 3) \div 5
      BY <1>d, <2>1, Questions
    <3>2. Cardinality(Asked)' = Cardinality(Asked) + 1
          /\ Question(step) = Cardinality(Asked) + 1
      BY <1>b, <1>d, <1>1, <3>1
    <3>3. Open' = Open \cup {step}
      BY <1>c, <1>1, <2>1 DEF Open
    <3>4. Pending' = Pending \cup {Question(step)}
      BY <1>c, <3>3
    <3>5. Service!Offer
      BY <1>1, <3>2, <3>4 DEF Service!Offer
    <3>6. QED
      BY <3>5 DEF Service!Next
  <2>2. CASE ~Asks(step)
    <3>1. Cardinality(Asked)' = Cardinality(Asked)
      BY <1>b, <1>d, <1>1, <2>2, Questions
    <3>2. Open' = Open
      BY <1>c, <1>1, <2>2 DEF Open
    <3>3. QED
      BY <1>c, <1>1, <3>1, <3>2
  <2>3. QED
    BY <2>1, <2>2
<1>2. CASE Still
  BY <1>2, <1>b, <1>c DEF Still, Open
<1>3. ASSUME NEW n \in Nat, Leaves(n)
      PROVE  \/ Service!Next
             \/ UNCHANGED <<Cardinality(Asked), Pending, answered>>
  <2>1. /\ n \in Path /\ Open' = Open \ {n} /\ answered' = answered
        /\ Cardinality(Asked)' = Cardinality(Asked)
    BY <1>3, <1>b, <1>c DEF Leaves, Open
  <2>2. CASE Asks(n)
    <3>1. Pending' = Pending \ {Question(n)} /\ Question(n) \in Pending
      BY <1>c, <2>1, <2>2, OneFewer DEF Open
    <3>2. Service!Lose(Question(n))
      BY <2>1, <3>1 DEF Service!Lose
    <3>3. QED
      BY <1>e, <3>1, <3>2
  <2>3. CASE ~Asks(n)
    <3>1. Open' = Open
      BY <2>1, <2>3 DEF Open
    <3>2. QED
      BY <1>c, <2>1, <3>1
  <2>4. QED
    BY <2>2, <2>3
<1>4. ASSUME NEW n \in Nat, Answers(n) PROVE Service!Next
  <2>1. /\ n \in Path /\ Asks(n) /\ Open' = Open \ {n}
        /\ answered' = Question(n)
        /\ Cardinality(Asked)' = Cardinality(Asked)
    BY <1>4, <1>b, <1>c DEF Answers, Open
  <2>2. Pending' = Pending \ {Question(n)} /\ Question(n) \in Pending
    BY <1>c, <2>1, OneFewer DEF Open
  <2>3. Question(n) > answered
    BY <2>1, <1>d, Questions, StagesAreNumbers DEF InOrder
  <2>4. \A k \in Pending : Question(n) <= k
    <3> SUFFICES ASSUME NEW m \in Open PROVE Question(n) <= Question(m)
      BY <1>c
    <3>1. m \in Nat /\ Asks(m) /\ n <= m
      BY <1>4, <1>d DEF Answers, Open
    <3>2. n < m => Question(n) < Question(m)
      BY <2>1, <3>1, Questions
    <3>3. Question(n) \in Nat /\ Question(m) \in Nat
      BY <3>1, Questions
    <3>4. QED
      BY <3>1, <3>2, <3>3
  <2>5. Service!Answer(Question(n))
    BY <2>1, <2>2, <2>3, <2>4 DEF Service!Answer
  <2>6. QED
    BY <1>e, <2>2, <2>5
<1>5. QED
  BY <1>1, <1>2, <1>3, <1>4, PathMoves

(* Replies carry no number, and yet they come in the order of the host's   *)
(* questions, each at most once: for every size of every buffer, and       *)
(* whatever is lost on either way.                                         *)
THEOREM AnsweredInOrder == Spec => RepliesInOrder
<1>1. Init => Service!Init
  <2> SUFFICES ASSUME Init PROVE Service!Init
    OBVIOUS
  <2>1. TypeOK /\ InOrder
    BY TypeInit, InOrderInit
  <2>2. Cardinality(Asked) = (0 + 2) \div 5
    BY <2>1, AskedCount, Empty DEF Prepared
  <2>3. Pending = {}
    BY <2>1, PendingIsOpen, Empty DEF Open, Path
  <2>4. (0 + 2) \div 5 = 0
    OBVIOUS
  <2>5. QED
    BY <2>2, <2>3, <2>4, Empty DEF Service!Init
<1>2. QED
  BY <1>1, ServiceStep, TypeCorrect, PathInOrder, PTL
     DEF Spec, RepliesInOrder, Service!Spec
=============================================================================
