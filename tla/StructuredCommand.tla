-------------------------- MODULE StructuredCommand --------------------------
(***************************************************************************)
(* Lab 06: the host repeats a cycle of five commands over one mailbox      *)
(* direction: both LEDs on, GET_STATUS, both LEDs off.  The client's       *)
(* callback queues them, its Cmd_Task carries them out and answers         *)
(* GET_STATUS alone.  Neither commands nor replies carry a number.         *)
(*                                                                         *)
(* A command is represented by the step at which the host sends it.        *)
(***************************************************************************)
EXTENDS Queues, Integers, FiniteSets

CONSTANTS
  Slots, Mtu,   (* of each direction of the mailbox                        *)
  Depth,        (* of cmd_msgq; 4 in the code                              *)
  MaxSteps,     (* the bound of the model: the host's steps                *)
  MaxPresses    (* the bound of the model: presses of the button           *)

ASSUME StructuredCommandAssumption ==
  /\ Slots \in Nat \ {0}
  /\ Depth \in Nat \ {0}
  /\ Mtu \in Nat /\ Mtu >= 12
  /\ MaxSteps \in Nat /\ MaxPresses \in Nat

CmdSize == 12     (* sizeof(struct ipc_command_msg)                        *)
StatusSize == 12  (* sizeof(struct ipc_status_msg)                         *)

SetLedCmd(led, state) == [cmd |-> "SET_LED", led_id |-> led, led_state |-> state]
GetStatusCmd == [cmd |-> "GET_STATUS"]

\* Fault: the cycle asks for the status before it has switched LED1 on.
Command_AsksEarly(step) ==
  <<SetLedCmd(0, 1), GetStatusCmd, SetLedCmd(1, 1),
    SetLedCmd(0, 0), SetLedCmd(1, 0)>>[(step % 5) + 1]

(* The host's cycle.                                                       *)
Command(step) ==
  <<SetLedCmd(0, 1), SetLedCmd(1, 1), GetStatusCmd,
    SetLedCmd(0, 0), SetLedCmd(1, 0)>>[(step % 5) + 1]

Leds == {0, 1}
Steps == 0..(MaxSteps - 1)
Asks(n) == Command(n).cmd = "GET_STATUS"
Sets(n, led) == ~Asks(n) /\ Command(n).led_id = led

VARIABLES
  hpc,                   (* host main: "boot", "loop", "send", "halted"    *)
  step,
  cmdBox, cmdOn,         (* mailbox direction M55 -> M4                    *)
  statusBox, statusOn,   (* mailbox direction M4 -> M55                    *)
  mpc,                   (* client main: "boot", "enabled", "ready",       *)
                         (* "halted"                                       *)
  tpc,                   (* Cmd_Task: "off", "get", "run", "send"          *)
  cmd_msgq,
  cmd,                   (* the command in Cmd_Task's hands                *)
  status,                (* its reply; of is the step it answers, which    *)
                         (* the message itself does not tell               *)
  g_led_state,           (* g_led0_state and g_led1_state                  *)
  pin,                   (* what the LEDs really show                      *)
  g_button_presses,
  \* History, never read by actions.
  doubtful,              (* LEDs whose latest gpio_pin_set_dt() failed     *)
  lost,                  (* steps whose command or reply did not get through*)
  pressesAt,             (* the presses when each GET_STATUS was prepared   *)
  answered               (* the number of the latest answered GET_STATUS   *)

hostVars == <<hpc, step, pressesAt, answered>>
cmdVars == <<cmdBox, cmdOn>>
statusVars == <<statusBox, statusOn>>
taskVars == <<tpc, cmd, status>>
ledVars == <<g_led_state, pin, doubtful>>
vars == <<hostVars, cmdVars, statusVars, mpc, taskVars, cmd_msgq, ledVars,
          g_button_presses, lost>>

CmdChannel == INSTANCE Mailbox WITH box <- cmdBox, enabled <- cmdOn
StatusChannel == INSTANCE Mailbox WITH box <- statusBox, enabled <- statusOn
CmdMsgQ == INSTANCE MsgQ WITH q <- cmd_msgq

NoStatus == [of |-> 0, led |-> [l \in Leds |-> 0], presses |-> 0]

Init ==
  /\ hpc = "boot" /\ step = 0
  /\ CmdChannel!Init
  /\ StatusChannel!Init
  /\ mpc = "boot"
  /\ tpc = "off" /\ cmd = 0 /\ status = NoStatus
  /\ CmdMsgQ!Init
  /\ g_led_state = [l \in Leds |-> 0] /\ pin = [l \in Leds |-> 0]
  /\ doubtful = {}
  /\ g_button_presses = 0
  /\ lost = {} /\ answered = 0
  /\ pressesAt = [n \in Steps |-> 0]
-----------------------------------------------------------------------------
(* The M55 host.                                                           *)

\* Fault: the channel is registered, but never enabled.
HostMain_NoEnable ==
  /\ hpc = "boot"
  /\ hpc' = "loop"
  /\ UNCHANGED <<step, pressesAt, answered, cmdVars, statusVars, mpc, taskVars,
                 cmd_msgq, ledVars, g_button_presses, lost>>

HostMain ==
  /\ hpc = "boot"
  /\ StatusChannel!Enable
  /\ hpc' = "loop"
  /\ UNCHANGED <<step, pressesAt, answered, cmdVars, mpc, taskVars, cmd_msgq,
                 ledVars, g_button_presses, lost>>

HostMainFails ==
  /\ hpc = "boot"
  /\ hpc' = "halted"
  /\ UNCHANGED <<step, pressesAt, answered, cmdVars, statusVars, mpc, taskVars,
                 cmd_msgq, ledVars, g_button_presses, lost>>

(* The switch: the next command of the cycle is in main()'s hands.         *)
PrepareCmd ==
  /\ hpc = "loop"
  /\ step < MaxSteps
  /\ hpc' = "send"
  /\ pressesAt' = IF Asks(step)
                  THEN [pressesAt EXCEPT ![step] = g_button_presses]
                  ELSE pressesAt
  /\ UNCHANGED <<step, answered, cmdVars, statusVars, mpc, taskVars, cmd_msgq,
                 ledVars, g_button_presses, lost>>

(* send_cmd(), which only logs a failure; then step++ and a sleep.         *)
SendCmd ==
  /\ hpc = "send"
  /\ \/ CmdChannel!Post(step, CmdSize) /\ UNCHANGED lost
     \/ lost' = lost \cup {step} /\ UNCHANGED cmdVars
  /\ step' = step + 1
  /\ hpc' = "loop"
  /\ UNCHANGED <<pressesAt, answered, statusVars, mpc, taskVars, cmd_msgq,
                 ledVars, g_button_presses>>

Question(n) == n \div 5 + 1   (* which GET_STATUS step n is                *)

HostRxCallback ==
  \E s \in Range(statusBox) :
    /\ StatusChannel!Interrupt(s)
    /\ answered' = Question(s.of)
    /\ UNCHANGED <<hpc, step, pressesAt, cmdVars, mpc, taskVars, cmd_msgq,
                   ledVars, g_button_presses, lost>>
-----------------------------------------------------------------------------
(* The M4 client: main() and the callbacks.                                *)

(* LEDs ready and configured, callback registered, channel enabled.  The   *)
(* result of configuring a LED is ignored: a pin that could not be         *)
(* configured is one that no later call moves.                             *)
ClientMain ==
  /\ mpc = "boot"
  /\ CmdChannel!Enable
  /\ mpc' = "enabled"
  /\ UNCHANGED <<hostVars, statusVars, taskVars, cmd_msgq, ledVars,
                 g_button_presses, lost>>

ClientMainFails ==
  /\ mpc = "boot"
  /\ mpc' = "halted"
  /\ UNCHANGED <<hostVars, cmdVars, statusVars, taskVars, cmd_msgq, ledVars,
                 g_button_presses, lost>>

StartCmdTask ==
  /\ mpc = "enabled"
  /\ mpc' = "ready"
  /\ tpc' = "get"
  /\ UNCHANGED <<hostVars, cmdVars, statusVars, cmd, status, cmd_msgq, ledVars,
                 g_button_presses, lost>>

LoseCmd ==
  /\ CmdChannel!Discard
  /\ lost' = lost \cup {Head(cmdBox)}
  /\ UNCHANGED <<hostVars, statusVars, mpc, taskVars, cmd_msgq, ledVars,
                 g_button_presses>>

(* The result of k_msgq_put() is ignored.                                  *)
MboxRxCallback ==
  \E n \in Range(cmdBox) :
    /\ CmdChannel!Interrupt(n)
    /\ \/ CmdMsgQ!Put(n) /\ UNCHANGED lost
       \/ CmdMsgQ!PutFails /\ lost' = lost \cup {n}
    /\ UNCHANGED <<hostVars, statusVars, mpc, taskVars, ledVars,
                   g_button_presses>>

(* INPUT_CALLBACK_DEFINE: active before main().  A release is ignored.     *)
ButtonInputCb ==
  /\ g_button_presses < MaxPresses
  /\ g_button_presses' = g_button_presses + 1
  /\ UNCHANGED <<hostVars, cmdVars, statusVars, mpc, taskVars, cmd_msgq,
                 ledVars, lost>>
-----------------------------------------------------------------------------
(* The M4 client: Cmd_Task.                                                *)

GetCmd ==
  /\ tpc = "get"
  /\ \E n \in Range(cmd_msgq) : CmdMsgQ!Get(n) /\ cmd' = n
  /\ tpc' = "run"
  /\ UNCHANGED <<hostVars, cmdVars, statusVars, mpc, status, ledVars,
                 g_button_presses, lost>>

\* Fault: the branch of led_id 1, a copy of the other, still drives led0.
SetLed_CopiedBranch ==
  /\ tpc = "run" /\ ~Asks(cmd)
  /\ LET c == Command(cmd) IN
       /\ \/ /\ pin' = [pin EXCEPT ![0] = c.led_state]
             /\ doubtful' = doubtful \ {c.led_id}
          \/ /\ pin' \in {pin, [pin EXCEPT ![0] = c.led_state]}
             /\ doubtful' = doubtful \cup {c.led_id}
       /\ g_led_state' = [g_led_state EXCEPT ![c.led_id] = c.led_state]
  /\ tpc' = "get"
  /\ UNCHANGED <<hostVars, cmdVars, statusVars, mpc, cmd, status, cmd_msgq,
                 g_button_presses, lost>>

\* Fault: SET_LED falls through to GET_STATUS.
SetLed_NoBreak ==
  /\ tpc = "run" /\ ~Asks(cmd)
  /\ LET c == Command(cmd) IN
       /\ \/ /\ pin' = [pin EXCEPT ![c.led_id] = c.led_state]
             /\ doubtful' = doubtful \ {c.led_id}
          \/ /\ pin' \in {pin, [pin EXCEPT ![c.led_id] = c.led_state]}
             /\ doubtful' = doubtful \cup {c.led_id}
       /\ g_led_state' = [g_led_state EXCEPT ![c.led_id] = c.led_state]
  /\ status' = [of |-> cmd, led |-> g_led_state', presses |-> g_button_presses]
  /\ tpc' = "send"
  /\ UNCHANGED <<hostVars, cmdVars, statusVars, mpc, cmd, cmd_msgq,
                 g_button_presses, lost>>

(* gpio_pin_set_dt() moves the pin, or fails, and then nobody knows whether*)
(* it moved; its result is ignored.                                        *)
SetLed ==
  /\ tpc = "run" /\ ~Asks(cmd)
  /\ LET c == Command(cmd) IN
       /\ \/ /\ pin' = [pin EXCEPT ![c.led_id] = c.led_state]
             /\ doubtful' = doubtful \ {c.led_id}
          \/ /\ pin' \in {pin, [pin EXCEPT ![c.led_id] = c.led_state]}
             /\ doubtful' = doubtful \cup {c.led_id}
       /\ g_led_state' = [g_led_state EXCEPT ![c.led_id] = c.led_state]
  /\ tpc' = "get"
  /\ UNCHANGED <<hostVars, cmdVars, statusVars, mpc, cmd, status, cmd_msgq,
                 g_button_presses, lost>>

\* Fault: the presses of the previous status are sent, not the present ones.
GetStatus_OldPresses ==
  /\ tpc = "run" /\ Asks(cmd)
  /\ status' = [of |-> cmd, led |-> g_led_state, presses |-> status.presses]
  /\ tpc' = "send"
  /\ UNCHANGED <<hostVars, cmdVars, statusVars, mpc, cmd, cmd_msgq, ledVars,
                 g_button_presses, lost>>

(* The reply is filled.  Of its three variables only g_button_presses, read*)
(* last, is written by anybody else, so one step will do.                  *)
GetStatus ==
  /\ tpc = "run" /\ Asks(cmd)
  /\ status' = [of |-> cmd, led |-> g_led_state, presses |-> g_button_presses]
  /\ tpc' = "send"
  /\ UNCHANGED <<hostVars, cmdVars, statusVars, mpc, cmd, cmd_msgq, ledVars,
                 g_button_presses, lost>>

(* The result of mbox_send_dt() is ignored.  The host has enabled its      *)
(* channel before it asked, so no reply goes unheard.                      *)
SendStatus ==
  /\ tpc = "send"
  /\ \/ StatusChannel!Post(status, StatusSize) /\ UNCHANGED lost
     \/ lost' = lost \cup {status.of} /\ UNCHANGED statusVars
  /\ tpc' = "get"
  /\ UNCHANGED <<hostVars, cmdVars, mpc, cmd, status, cmd_msgq, ledVars,
                 g_button_presses>>
-----------------------------------------------------------------------------
(* Both cores have done what they will ever do.                            *)
AtRest ==
  /\ g_button_presses = MaxPresses
  /\ \/ hpc = "halted"
     \/ hpc = "loop" /\ step = MaxSteps /\ statusBox = <<>>
  /\ \/ mpc = "halted"
     \/ mpc = "ready" /\ tpc = "get" /\ cmdBox = <<>> /\ cmd_msgq = <<>>

Rest == AtRest /\ UNCHANGED vars

Next ==
  \/ HostMain \/ HostMainFails \/ PrepareCmd \/ SendCmd \/ HostRxCallback
  \/ ClientMain \/ ClientMainFails \/ StartCmdTask \/ LoseCmd
  \/ MboxRxCallback \/ ButtonInputCb
  \/ GetCmd \/ SetLed \/ GetStatus \/ SendStatus
  \/ Rest

Spec == Init /\ [][Next]_vars

(* Both cores run, interrupts are served, a send that finds a free slot    *)
(* returns.  Nobody has to press the button, and no send has to fail.      *)
Fairness ==
  /\ WF_vars(HostMain \/ HostMainFails)
  /\ WF_vars(PrepareCmd)
  /\ WF_vars(SendCmd /\ ~UNCHANGED cmdBox)
  /\ WF_vars(HostRxCallback)
  /\ WF_vars(ClientMain \/ ClientMainFails)
  /\ WF_vars(StartCmdTask)
  /\ WF_vars(MboxRxCallback)
  /\ WF_vars(GetCmd)
  /\ WF_vars(SetLed \/ GetStatus)
  /\ WF_vars(SendStatus /\ ~UNCHANGED statusBox)

FairSpec == Spec /\ Fairness
-----------------------------------------------------------------------------
(* Type invariant of both cores.                                           *)
States == [Leds -> {0, 1}]
Status == [of : Steps, led : States, presses : 0..MaxPresses]

TypeOK ==
  /\ hpc \in {"boot", "loop", "send", "halted"} /\ step \in 0..MaxSteps
  /\ hpc = "send" => step < MaxSteps
  /\ cmdBox \in Seq(Steps) /\ Len(cmdBox) <= Slots /\ cmdOn \in BOOLEAN
  /\ statusBox \in Seq(Status) /\ Len(statusBox) <= Slots
  /\ statusOn \in BOOLEAN
  /\ mpc \in {"boot", "enabled", "ready", "halted"}
  /\ tpc \in {"off", "get", "run", "send"}
  /\ tpc = "off" <=> mpc # "ready"
  /\ cmd_msgq \in Seq(Steps) /\ Len(cmd_msgq) <= Depth
  /\ cmd \in Nat /\ (tpc = "run" => cmd \in Steps)
  /\ status \in Status \cup {NoStatus} /\ (tpc = "send" => status \in Status)
  /\ g_led_state \in States /\ pin \in States /\ doubtful \subseteq Leds
  /\ g_button_presses \in 0..MaxPresses
  /\ lost \subseteq Steps /\ answered \in Nat
  /\ pressesAt \in [Steps -> 0..MaxPresses]

Replies == Range(statusBox) \cup IF tpc = "send" THEN {status} ELSE {}

CmdsUnderWay ==
  (IF hpc = "send" THEN {step} ELSE {}) \cup Range(cmdBox) \cup Range(cmd_msgq)
    \cup IF tpc = "run" THEN {cmd} ELSE {}

(* The host asks just after it has switched both LEDs on.  If a reply says *)
(* that a LED is off, then it was this cycle's command for that LED that   *)
(* got lost: nothing older or newer shows through, however late M4 is.     *)
StatusTellsLosses ==
  \A s \in Replies :
    /\ s.led[0] = 0 => s.of - 2 \in lost
    /\ s.led[1] = 0 => s.of - 1 \in lost

(* The presses in a reply are not older than the question: they are between*)
(* what they were when the host asked and what they are now.               *)
PressesAreFresh ==
  \A s \in Replies : s.presses \in pressesAt[s.of]..g_button_presses

(* Losses do not leave a LED behind: once a SET_LED is done, its state     *)
(* variable tells the latest one that got through, and so does the LED,    *)
(* unless the transfer of that very command failed.  An earlier failure is *)
(* made good, and the other LED is not touched.                            *)
LedsFollowHost ==
  \A led \in Leds :
    LET done == {n \in 0..(step - 1) : Sets(n, led)} \ (lost \cup CmdsUnderWay)
    IN  \A n \in done :
          (\A m \in done : m <= n)
            => /\ g_led_state[led] = Command(n).led_state
               /\ led \notin doubtful => pin[led] = Command(n).led_state

(* Replies carry no number, and yet the host may count them: they come in  *)
(* the order of the questions, each at most once, and only to questions.   *)
Asked == {n \in 0..(step - 1) \cup CmdsUnderWay : Asks(n)}
Pending == {Question(n) : n \in {m \in CmdsUnderWay : Asks(m)}}
             \cup {Question(s.of) : s \in Replies}
Service == INSTANCE InOrderDelivery
             WITH offered <- Cardinality(Asked), pending <- Pending,
                  last <- answered
RepliesInOrder == Service!Spec

(* Every question is answered, unless it, or its answer, is lost or a core *)
(* has given up: M4 never waits for a host that waits for M4.              *)
EveryQuestionSettles ==
  \A n \in {m \in Steps : Asks(m)} :
    (hpc = "send" /\ step = n) ~>
      answered >= Question(n) \/ n \in lost \/ mpc = "halted"

(* remote/src/main.c:3-4: SET_LED physically drives the LED and GET_STATUS *)
(* replies with the current state.                                         *)
StatusShowsLeds == [][status' # status => status'.led = pin]_vars
=============================================================================
