----------------------------- MODULE EchoService -----------------------------
(***************************************************************************)
(* Lab 07: the host sends one test string every two seconds; the client's  *)
(* callback queues it, its Echo_Task sends it back, and the host's         *)
(* callback compares the echo with g_last_sent - the string of the latest  *)
(* send, which main() may have begun to overwrite by then.                 *)
(*                                                                         *)
(* A text stands for a C string: a number that names it, and its length.   *)
(* Texts of different names differ in every prefix that is not empty.      *)
(***************************************************************************)
EXTENDS Queues

CONSTANTS
  Slots, Mtu,   (* of each direction of the mailbox                        *)
  Depth,        (* of echo_msgq; 4 in the code                             *)
  ECHO_MAX_LEN, (* of g_last_sent, buf and echo_item.data; 64 in the code  *)
  TestStrings,  (* test_strings, a sequence of texts                       *)
  MaxSent       (* the bound of the model: the host stops after MaxSent    *)

ASSUME EchoServiceAssumption ==
  /\ Slots \in Nat \ {0}
  /\ Depth \in Nat \ {0}
  /\ ECHO_MAX_LEN \in Nat /\ ECHO_MAX_LEN > 1
  /\ Mtu \in Nat /\ Mtu >= ECHO_MAX_LEN
  /\ TestStrings \in Seq([name : Nat, len : Nat \ {0}])
  /\ TestStrings # <<>>
  /\ MaxSent \in Nat

Smaller(a, b) == IF a <= b THEN a ELSE b

(* The text left when only the first k bytes of it are kept.               *)
Cut(text, k) == [text EXCEPT !.len = Smaller(@, k)]

\* Fault: strncpy() may fill all of g_last_sent; the NUL is forgotten.
Sent_NoNul(n) ==
  Cut(TestStrings[((n - 1) % Len(TestStrings)) + 1], ECHO_MAX_LEN)

(* The n-th string sent, n = 1, 2, ..., as strncpy() leaves it.            *)
Sent(n) ==
  Cut(TestStrings[((n - 1) % Len(TestStrings)) + 1], ECHO_MAX_LEN - 1)

VARIABLES
  hpc,          (* host main: "boot", "copy", "copying", "send", "halted"   *)
  idx,
  g_last_sent,  (* a text; meaningless while hpc = "copying"                *)
  sendBox, sendOn,  (* mailbox direction M55 -> M4                          *)
  echoBox, echoOn,  (* mailbox direction M4 -> M55                          *)
  cmain,        (* client main: "boot", "enabled", "ready", "halted"        *)
  ctask,        (* Echo_Task: "off", "get", "send"                          *)
  item, echo_msgq,
  \* History, never read by actions.  A message has the number n of its send.
  lastEcho,     (* the number of the latest echo the host has judged        *)
  verdict       (* its verdict: "none", "ok" or "mismatch"                  *)

hostVars == <<hpc, idx, g_last_sent>>
sendVars == <<sendBox, sendOn>>
echoVars == <<echoBox, echoOn>>
clientVars == <<cmain, ctask, item, echo_msgq>>
verdictVars == <<lastEcho, verdict>>
vars == <<hostVars, sendVars, echoVars, clientVars, verdictVars>>

SendChannel == INSTANCE Mailbox WITH box <- sendBox, enabled <- sendOn
EchoChannel == INSTANCE Mailbox WITH box <- echoBox, enabled <- echoOn
EchoMsgQ == INSTANCE MsgQ WITH q <- echo_msgq

NoText == [name |-> 0, len |-> 0]
NoItem == [n |-> 0, data |-> NoText, len |-> 0]

Init ==
  /\ hpc = "boot" /\ idx = 0 /\ g_last_sent = NoText
  /\ SendChannel!Init /\ EchoChannel!Init
  /\ cmain = "boot" /\ ctask = "off" /\ item = NoItem /\ EchoMsgQ!Init
  /\ lastEcho = 0 /\ verdict = "none"
-----------------------------------------------------------------------------
(* The M55 host.                                                           *)

HostMain ==
  /\ hpc = "boot"
  /\ EchoChannel!Enable
  /\ hpc' = "copy"
  /\ UNCHANGED <<idx, g_last_sent, sendVars, clientVars, verdictVars>>

HostMainFails ==
  /\ hpc = "boot"
  /\ hpc' = "halted"
  /\ UNCHANGED <<idx, g_last_sent, sendVars, echoVars, clientVars, verdictVars>>

(* k_msleep(2000) is over (or the loop begins): strncpy() overwrites       *)
(* g_last_sent byte by byte, and the callback may interrupt it.            *)
BeginCopy ==
  /\ hpc = "copy"
  /\ idx < MaxSent
  /\ hpc' = "copying"
  /\ UNCHANGED <<idx, g_last_sent, sendVars, echoVars, clientVars, verdictVars>>

EndCopy ==
  /\ hpc = "copying"
  /\ g_last_sent' = Sent(idx + 1)
  /\ hpc' = "send"
  /\ UNCHANGED <<idx, sendVars, echoVars, clientVars, verdictVars>>

(* mbox_send_dt() takes g_last_sent with its NUL, or fails; nobody asks.   *)
SendString ==
  /\ hpc = "send"
  /\ LET size == g_last_sent.len + 1 IN
       \/ SendChannel!Post([n |-> idx + 1, data |-> g_last_sent, len |-> size],
                           size)
       \/ UNCHANGED sendVars
  /\ idx' = idx + 1
  /\ hpc' = "copy"
  /\ UNCHANGED <<g_last_sent, echoVars, clientVars, verdictVars>>

\* Fault: strncmp(buf, g_last_sent, strlen(buf)).
Judge_Prefix(m) ==
  LET buf == Cut(m.data, Smaller(m.len, ECHO_MAX_LEN - 1)) IN
    IF hpc = "copying" THEN verdict' \in {"ok", "mismatch"}
    ELSE verdict' = IF buf = Cut(g_last_sent, buf.len) THEN "ok" ELSE "mismatch"

(* The callback: buf gets at most sizeof(buf) - 1 bytes, the rest of it is *)
(* zero.  What strcmp() finds in a half-copied g_last_sent is anybody's    *)
(* guess.                                                                  *)
Judge(m) ==
  LET buf == Cut(m.data, Smaller(m.len, ECHO_MAX_LEN - 1)) IN
    IF hpc = "copying" THEN verdict' \in {"ok", "mismatch"}
    ELSE verdict' = IF buf = g_last_sent THEN "ok" ELSE "mismatch"

HostRxCallback ==
  \E m \in Range(echoBox) :
    /\ EchoChannel!Interrupt(m)
    /\ Judge(m)
    /\ lastEcho' = m.n
    /\ UNCHANGED <<hostVars, sendVars, clientVars>>
-----------------------------------------------------------------------------
(* The M4 client.                                                          *)

\* Fault: the callback is registered, but the channel is never enabled.
ClientMain_NoEnable ==
  /\ cmain = "boot"
  /\ cmain' = "enabled"
  /\ UNCHANGED <<hostVars, sendVars, echoVars, ctask, item, echo_msgq,
                 verdictVars>>

ClientMain ==
  /\ cmain = "boot"
  /\ SendChannel!Enable
  /\ cmain' = "enabled"
  /\ UNCHANGED <<hostVars, echoVars, ctask, item, echo_msgq, verdictVars>>

ClientMainFails ==
  /\ cmain = "boot"
  /\ cmain' = "halted"
  /\ UNCHANGED <<hostVars, sendVars, echoVars, ctask, item, echo_msgq,
                 verdictVars>>

StartEchoTask ==
  /\ cmain = "enabled"
  /\ cmain' = "ready"
  /\ ctask' = "get"
  /\ UNCHANGED <<hostVars, sendVars, echoVars, item, echo_msgq, verdictVars>>

LoseString ==
  /\ SendChannel!Discard
  /\ UNCHANGED <<hostVars, echoVars, clientVars, verdictVars>>

\* Fault: sizeof(item.data) - 2 bytes.
Bounded_OffByTwo(m) ==
  LET len == Smaller(m.len, ECHO_MAX_LEN - 2)
  IN [n |-> m.n, data |-> Cut(m.data, len), len |-> len]

(* The callback: at most sizeof(item.data) bytes are queued; when the      *)
(* queue is full the string is gone without a trace.                       *)
Bounded(m) ==
  LET len == Smaller(m.len, ECHO_MAX_LEN)
  IN [n |-> m.n, data |-> Cut(m.data, len), len |-> len]

ClientRxCallback ==
  \E m \in Range(sendBox) :
    /\ SendChannel!Interrupt(m)
    /\ EchoMsgQ!Put(Bounded(m)) \/ EchoMsgQ!PutFails
    /\ UNCHANGED <<hostVars, echoVars, cmain, ctask, item, verdictVars>>

GetItem ==
  /\ ctask = "get"
  /\ \E m \in Range(echo_msgq) : EchoMsgQ!Get(m) /\ item' = m
  /\ ctask' = "send"
  /\ UNCHANGED <<hostVars, sendVars, echoVars, cmain, verdictVars>>

\* Fault: an echo that did not get through is queued behind later strings.
SendEcho_Requeues ==
  /\ ctask = "send"
  /\ \/ EchoChannel!Post(item, item.len) /\ UNCHANGED echo_msgq
     \/ EchoMsgQ!Put(item) /\ UNCHANGED echoVars
  /\ ctask' = "get"
  /\ UNCHANGED <<hostVars, sendVars, cmain, item, verdictVars>>

SendEcho ==
  /\ ctask = "send"
  /\ EchoChannel!Post(item, item.len) \/ UNCHANGED echoVars
  /\ ctask' = "get"
  /\ UNCHANGED <<hostVars, sendVars, cmain, item, echo_msgq, verdictVars>>
-----------------------------------------------------------------------------
AtRest ==
  /\ \/ hpc = "halted"
     \/ hpc = "copy" /\ idx = MaxSent
  /\ cmain \in {"ready", "halted"} /\ ctask \in {"off", "get"}
  /\ echo_msgq = <<>> /\ echoBox = <<>>
  /\ sendBox = <<>> \/ cmain = "halted"

Rest == AtRest /\ UNCHANGED vars

Next ==
  \/ HostMain \/ HostMainFails \/ BeginCopy \/ EndCopy \/ SendString
  \/ HostRxCallback
  \/ ClientMain \/ ClientMainFails \/ StartEchoTask \/ LoseString
  \/ ClientRxCallback \/ GetItem \/ SendEcho
  \/ Rest

Spec == Init /\ [][Next]_vars

(* Both cores run, sleeps and boots end, interrupts are served, and a send *)
(* that finds a free slot returns.  A send never has to fail.              *)
Fairness ==
  /\ WF_vars(HostMain \/ HostMainFails)
  /\ WF_vars(BeginCopy)
  /\ WF_vars(EndCopy)
  /\ WF_vars(SendString /\ ~UNCHANGED sendBox)
  /\ WF_vars(HostRxCallback)
  /\ WF_vars(ClientMain \/ ClientMainFails)
  /\ WF_vars(StartEchoTask)
  /\ WF_vars(ClientRxCallback)
  /\ WF_vars(GetItem)
  /\ WF_vars(SendEcho /\ ~UNCHANGED echoBox)

FairSpec == Spec /\ Fairness
-----------------------------------------------------------------------------
(* The strings between the call of mbox_send_dt() and their fate.          *)
Messages ==
  Range(sendBox) \cup Range(echo_msgq) \cup Range(echoBox)
    \cup IF ctask = "send" THEN {item} ELSE {}

InFlight == {m.n : m \in Messages} \cup IF hpc = "send" THEN {idx + 1} ELSE {}

(* How many strings the host has begun to send, and the number of the one  *)
(* that g_last_sent holds.                                                 *)
Offered == IF hpc = "send" THEN idx + 1 ELSE idx

(* Type invariant of both cores, and no buffer beyond its size.            *)
Text == [name : Nat, len : 0..(ECHO_MAX_LEN - 1)]
Item == [n : 0..MaxSent, data : Text, len : 0..ECHO_MAX_LEN]

TypeOK ==
  /\ hpc \in {"boot", "copy", "copying", "send", "halted"}
  /\ idx \in 0..MaxSent /\ g_last_sent \in Text
  /\ hpc \in {"copying", "send"} => idx < MaxSent
  /\ sendBox \in Seq(Item) /\ Len(sendBox) <= Slots /\ sendOn \in BOOLEAN
  /\ echoBox \in Seq(Item) /\ Len(echoBox) <= Slots /\ echoOn \in BOOLEAN
  /\ cmain \in {"boot", "enabled", "ready", "halted"}
  /\ ctask \in {"off", "get", "send"} /\ item \in Item
  /\ ctask = "off" <=> cmain # "ready"
  /\ echo_msgq \in Seq(Item) /\ Len(echo_msgq) <= Depth
  /\ lastEcho \in 0..MaxSent /\ verdict \in {"none", "ok", "mismatch"}

(* The path keeps every string intact, up to the longest one that fits     *)
(* g_last_sent: whatever is on its way is the string that was sent.        *)
PathIntact == \A m \in Messages : m.data = Sent(m.n) /\ m.len = m.data.len + 1

(* So a verdict says nothing of the path: unless it interrupted the copying *)
(* (then it may be either), it only tells whether the echoed string equals *)
(* the one that was sent last.  A mismatch means a late echo, never a      *)
(* damaged one, and an OK may be the answer to an earlier, equal string.   *)
Judged == lastEcho' # lastEcho

VerdictTellsLateness ==
  [][Judged /\ hpc # "copying"
       => (verdict' = "ok" <=> Sent(lastEcho') = Sent(Offered))]_vars

(* Strings are echoed at most once, in the order in which they were sent,  *)
(* and nothing is echoed that was not sent.                                *)
Service == INSTANCE InOrderDelivery
             WITH offered <- Offered, pending <- InFlight, last <- lastEcho
EchoedInOrder == Service!Spec

(* The host never hangs in mbox_send_dt() and no string stays on its way   *)
(* for ever, unless the client's main() has returned.                      *)
EveryStringSettles ==
  \A n \in 1..MaxSent :
    n \in InFlight ~> n \notin InFlight \/ cmain = "halted"

=============================================================================
