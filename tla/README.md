# TLA+ models of the SR110 IPC labs

The repository is a course of ten Zephyr labs for the SR110, a chip with two
cores that share no kernel: the **M55 host** (`NN_x/lab/src/main.c`) and the
**M4 client** (`NN_x/lab/remote/src/main.c`).  They exchange the messages of
`lab/include/ipc_common.h` through a mailbox.  This directory holds TLA+
models of the labs, TLC configurations that check them on small instances, and
TLAPS proofs for every instance.

Run `tlc -config X.cfg M` for the runs listed below and `tlapm M.tla` for the
proof modules.

## The system

Every lab is a pair of programs built from the same four parts.

| part | where | state | operations |
|---|---|---|---|
| mailbox, one per direction | Zephyr's mbox driver (not in the repository) | messages posted and not yet fetched; enabled or not | `mbox_send_dt`, `mbox_set_enabled_dt`, the interrupt |
| `k_msgq` | Zephyr's kernel (not in the repository) | a bounded FIFO | `k_msgq_put(K_NO_WAIT)`, `k_msgq_get` |
| callback | `mbox_rx_callback`, `button_input_cb` | none | copies the message into the queue, or logs it; must not block |
| worker thread | `toggle_task_entry`, `pong_task_entry`, ... | its local message | takes a message, touches LED or sensor, sends an answer |

and `main()`, which registers the callback, enables the channel, creates the
worker, and on the host also sends in a loop with `k_msleep`.

What makes them hard is the same everywhere: two cores that boot at any time
relative to each other; a callback that interrupts threads; `mbox_send_dt`,
which may fail, or wait until the other core has drained the mailbox; bounded
queues whose overflow is often ignored; and local copies that are stale by the
time they are used.

### Components

| component | what it does | what makes it correct | module |
|---|---|---|---|
| lab 01 `hello_ipc` | host pings once a second; M4 toggles LED0 and acks | every ping accounted for; acks in order, at most once; the console tells the LED; no cross-core deadlock | `HelloIpc` |
| lab 02 `button_pong` | M4 sends a numbered event per button press | the host sees the same as in lab 05; LED1 agrees with the console | `ButtonPong` |
| lab 03 `full_duplex_ping_pong` | one message is passed to and fro | exactly one ball; both cores agree on its number and on the LED; it goes on unless it is lost | `PingPong` |
| lab 04 `shared_counter` | host counts; M4 blinks (counter mod 5)+1 times | the display keeps up although single counters take too long; the LED tells the counter | `SharedCounter` |
| lab 05 `button_press_counter` | M4 sends a running total of presses | presses accounted for; any total makes good for lost ones; the console counts upwards | `ButtonPressCounter` |
| lab 06 `structured_command` | host sets LEDs and asks for a status | replies in order and fresh; a status reflects the commands before it | `StructuredCommand` |
| lab 07 `echo_service` | host compares echoed strings with what it sent | strings intact and in order; what a verdict really tells | `EchoService` |
| lab 08 `message_queue` | bursts of LED patterns | no pattern is lost to the queue; the backlog of a late boot clears; no LED stays lit | `MessageQueue` |
| lab 09 `accel_telemetry` | M4 sends every sample | a gap means a loss and nothing else; a row is the sample of its number | `AccelTelemetry` |
| lab 10 `threshold_event` | M4 sends samples over a threshold | events mean motion; the right threshold in force; polling never stops | `ThresholdEvent` |
| overlays, Kconfig, CMake | configuration | - | not modelled: no behaviour |
| documents | prose; labs 11-18 exist only there | - | not modelled; its claims are compared with the code |

## Modules

- `Mailbox`: one direction of the mailbox, from what the labs rely on
  (external).  A bounded FIFO: `Post` is a send that succeeds and waits for a
  free slot, `Interrupt` the receiver's callback.  A message to a direction
  that is not enabled is kept or lost (`Discard`), for the sources fear the loss
  but do not know it.
- `MsgQ`: a `k_msgq` (external).
- `Queues`: vocabulary for FIFO chains; `QueueLemmas`: lemmas about it, proved.
- `HelloIpc`, `ButtonPong`, `PingPong`, `SharedCounter`, `ButtonPressCounter`,
  `StructuredCommand`, `EchoService`, `MessageQueue`, `AccelTelemetry`,
  `ThresholdEvent` (labs 01 to 10): one lab each, both cores, instancing `Mailbox`
  once per direction and `MsgQ` once per queue.
- `InOrderDelivery`: what a request and reply path promises (in order, at most
  once, nothing invented); labs 01, 05, 06, 07 and 10 are shown to implement it.
- `Rally`: what lab 03 promises; `PingPong` is shown to implement it.
- `ButtonPressCounter` is also the abstract specification of lab 02: to the host,
  `ButtonPong` is a press counter, and so what holds of the totals holds of its seqs.
- `MC...`: instances for TLC.
- `HelloIpcProofs`, `PingPongProofs`, `ButtonPressCounterProofs`,
  `StructuredCommandProofs`, `EchoServiceProofs`, `SharedCounterProofs`,
  `ThresholdEventProofs`: theorems about these labs.  Three of the modules are about two
  labs each, of which they instance the second: `ButtonPressCounterProofs` also about
  `ButtonPong`, as `Pong`, for the two share most of their state; `SharedCounterProofs`
  also about `MessageQueue`, as `Bursts`, for both have a clock; `ThresholdEventProofs`
  also about `AccelTelemetry`, as `Accel`, for both read the sensor.

A definition whose name has the form `Action_Fault`, introduced by a comment
that begins with `Fault:`, is a plausible bug in the action; nothing in the
specification uses it.  Each documents which property notices that bug.

### State and actions

In every lab module a core's control is one `pc` per thread (`hpc` or `hmain`
for the host's `main`, `mpc` or `cmain` for the client's, `tpc` or `ctask` for
the worker), a callback is an action of its own that may come between any two
steps of a thread, and variables with the source's names hold the source's
globals and locals.  Variables under "History" are never read by an action.

A thread's step ends where another actor can tell the difference: before and
after a blocking call (`mbox_send_dt`, `k_msgq_get`, `k_msleep`), and in between
where a callback reads what the thread is writing.

| module | host | client |
|---|---|---|
| `HelloIpc` | `HostMain` (register, enable), `HostPing` (`++seq`), `SendPing` / `SendPingFails`, `MboxAckRxCallback` | `M4Main`, `StartToggleTask`, `MboxRxCallback` (queue or count the drop), `GetPing`, `ToggleLed`, `SendAck` / `SendAckFails` |
| `ButtonPong` | `HostMain`, `HostRxCallback` | `ButtonInputCb`, `ClientMain`, `GetPress` (count), `ToggleLed`, `SendEvt` |
| `PingPong` | `HostMain`, `FirstPing`, `HostRxCallback`, `GetPong`, `NextPing` | `ClientMain`, `StartPongTask`, `ClientRxCallback`, `GetPing`, `ToggleLed`, `SendPong` |
| `SharedCounter` | `Count`, `SendCounter` | `ClientMain`, `StartBlinkTask`, `MboxRxCallback`, `GetCounter`, `LedOn`, `LedOff`, `NextBlink`, `EndBlinking` |
| `ButtonPressCounter` | `HostMain`, `HostRxCallback` | `ButtonInputCb`, `StartSendTask`, `GetPress`, `SendTotal` |
| `StructuredCommand` | `HostMain`, `PrepareCmd` (the switch), `SendCmd`, `HostRxCallback` | `ClientMain`, `StartCmdTask`, `MboxRxCallback`, `ButtonInputCb`, `GetCmd`, `SetLed`, `GetStatus`, `SendStatus` |
| `EchoService` | `HostMain`, `BeginCopy` and `EndCopy` (`strncpy`, which the callback may interrupt), `SendString`, `HostRxCallback` (the verdict) | `ClientMain`, `StartEchoTask`, `ClientRxCallback`, `GetItem`, `SendEcho` |
| `MessageQueue` | `BeginBurst`, `SendPattern` | `ClientMain`, `StartPatternTask`, `MboxRxCallback`, `GetPattern`, `FirstStep`, `SecondStep`, `NextStep`, `EndPattern` |
| `AccelTelemetry` | `HostMain`, `RxCb` | `ClientMain` (either attribute may fail), `FetchSample`, `FetchFails`, `SendSample`, `Wake` |
| `ThresholdEvent` | `HostMain`, `SendThreshold`, `HostRxCb` | `ClientMain`, `StartTask`, `ClientRxCb`, `CalibrateBaseline`, `EndNap`, `FinishCalibration`, `GetCmd`, `PollTimeout`, `SampleFails`, `SampleIsQuiet`, `SampleIsEvent`, `SendEvent`, `DebounceElapses` |

An action whose name ends in `Fails` is the error path: `main()` returns, or a
send returns an error.  `Lose...` is a doorbell nobody had enabled.  `Tick` lets
time pass in the two modules with a clock.  `Rest`
states where a lab may stop; TLC reports any other state without a successor as
a deadlock.

## Runs

| run | instance | shows |
|---|---|---|
| `hello` | one slot each way, queue of 1, 6 pings, fair | `Accounted`: every ping acked, counted as dropped, lost or on its way; `AcksAreHeard`: no ack goes to a direction the host has not enabled; `ConsoleShowsLed`, until an ack is lost or a toggle fails; `ServiceSpec`: lab 01 implements `InOrderDelivery`; `EveryPingSettles`: no mix of full buffers and late boots makes the cores wait for each other |
| `button_pong` | one slot, queue of 2, 7 presses | `CounterSpec`: to the host it is lab 05, though a toggle comes between counting and sending and `main()` may fail; `LedMatchesConsole`: the latest event that got through tells LED1, whatever was lost before |
| `ping_pong` | seq modulo 8, room for two balls everywhere, fair | `SingleBall`; `CoresAgree` on the seq and, across the wrap, on LED0; `RallyGoesOn`: a loss ends the rally, and nothing else does; `TakesTurns`: implements `Rally` |
| `shared_counter` | one slot, queue of 4, a counter of 4 bits, sleeps up to 10 ms too long | `DisplayKeepsUp`: LED0 is at most three counts behind and the queue never full; `LedTellsCounter`: as many flashes as it should, also across the wrap |
| `press_counter` | one slot, queue of 4, 8 presses, fair | `PressesAccounted`, `TotalResyncs`, `TotalsInOrder`, `PressesAreTaken` |
| `command` | one slot each way, queue of 1, 8 steps (two questions), 1 press, fair | a LED reported off betrays a lost command of the same cycle; presses are fresh; `LedsFollowHost`: state variables and LEDs show the latest command carried out, a LED not if that command's transfer failed; replies in order; every question settles |
| `command_leds` | the same, queue of 2 | violated: `StatusShowsLeds` |
| `echo` | buffers of 4 bytes, strings that fill, just miss and exceed them, queue of 2, 7 sends, fair | strings intact; `VerdictTellsLateness`; echoes in order; every string settles |
| `message_queue` | four slots, queue of 8, sleeps up to 50 ms too long, 2 faults, fair | `EveryPatternFits`: after a boot of any length nothing is dropped; `BacklogClears` for good; `NoLedLeftOn` |
| `accel` | one slot, readings of both signs, 4 samples, fair | `GapsTellLosses`: the gaps in the console's seqs are the lost messages, and a failed fetch leaves none; `RowsAreTrue`; `SamplingGoesOn` |
| `threshold` | noise, motion, 3 calibration samples, 3 events, fair | events mean motion, whatever reads failed and however the baseline was rounded; a timely threshold rules; events in order; the threshold takes effect; polling goes on |
| `threshold_still` | a board with a single reading | violated: `StillBoardIsSilent` |

**Bounds.**  One slot per direction makes the sender wait as soon as anything is
under way, which is the case the sources fear.  The numbers of pings, presses,
steps, samples and strings are large enough to fill every place between the cores
and to drop or follow up one more; the MC modules state this as `ASSUME`s.
Queues are smaller than the code's 4 where that lets the same overflow happen
earlier; labs 04, 05 and 08 keep theirs, for they are what the question is about.
`PingPong` and `SharedCounter` need no bound on their length, for their counters
wrap; `SharedCounter` wraps at 2^4, which leaves the same remainder by five as
2^32, and the theorems are about any modulus.  `MessageQueue` repeats its burst for ever; only the number of faults
(failed sends, unheard doorbells, failed I2C transfers) is bounded, by two.
In `PingPong`, `HostMsgQ!PutFails` and `ClientMsgQ!PutFails` are modelled and never
happen: that is what `SingleBall` says.  So does `PatternMsgQ!PutFails` in
`MessageQueue` (`EveryPatternFits`) and `RxMsgQ!PutFails` in `SharedCounter`.

**Fairness.**  Weak fairness of every step of a thread that can run, of every
enabled interrupt and of the end of every sleep: both cores run preemptive
kernels, and no thread of a lab spins.  A send is fair when it finds a free slot
and its message fits.  Nothing is assumed of failures: neither a send, nor a
read, nor a `main()` has to fail or to succeed for ever; nobody has to press
the button, and no doorbell has to be lost.  In `MessageQueue` it is enough that
M4 boots in the end and that work or the clock goes on.

**Time.**  Labs 04 and 08 only work because of how long things take, so their
modules have a clock.  It counts in units of 10 ms (lab 04) and 50 ms (lab 08).  A
sleep begins with what it asks for plus at most `Slack` units; `Tick` lets time
jump to the end of the next sleep, and only when no thread and no interrupt can
run.  `Slack` stands for the time that everything around the sleep takes: I2C
transfers, the call itself, the rounding to a kernel tick.  M4's boot takes as
long as it likes; until then time passes unit by unit, so that it may end at any
moment of the host's cycle.  The host's sends wait for a late M4, and so its
period begins anew when M4 drains the mailbox.

How much room there is shows when the constants are changed:
- Lab 04: five counters take 15 flashes of 300 ms, 4.5 s, and come in 5 s.  With 10 ms
  too much per sleep it is 4.8 s; with 20 ms it is 5.1 s, the mean exceeds the
  period, and any queue overflows in the end.  With two or more slots in the
  mailbox a late M4 meets several counters at once; for an unlucky remainder the
  queue of 4 then overflows, so `DisplayKeepsUp` rests on one slot, and the theorem
  `DisplayIsTimely` says so.
- Lab 08: a burst takes 22 steps of 200 ms, 4.4 s, and comes every 6 s, which leaves
  room for 50 ms per step (5.5 s) but not for 100 ms (6.6 s).  After a late boot all
  that waited in the mailbox comes at once, together with the rest of the burst
  and, six seconds later, the next.  The theorem `EveryBurstFits` needs a queue with
  room for a burst of four beyond the mailbox's slots: four slots for the code's queue
  of 8.  With five slots TLC finds an overflow as soon as three sends may fail, and
  the callback drops a pattern unnoticed.

Time is left out of the other labs: a sleep, the poll timeout and the debounce
period may end at any moment after they began.  So a property that holds there does
not rest on the code's delays (`k_msleep(500)`, `k_msleep(200)`).

## Findings

- `command_leds`: the result of `gpio_pin_set_dt()` is ignored and the state
  variable is set anyway, so `GET_STATUS` may report a state the LED is not in
  (`06.../remote/src/main.c:3`).
- `threshold_still`: when every read of the calibration fails the baseline is 0
  and gravity alone exceeds the threshold, so a still board sends events;
  `10_threshold_event_en.md:168` expects silence.

Two more claims hold only with a reservation, which the runs state as what is true:
- `07_echo_service_en.md:25` concludes from a mismatch that the IPC path is at fault.
  The callback compares an echo with `g_last_sent`, the string of the *latest* send;
  `PathIntact` and `VerdictTellsLateness` say that the path never damages a string and
  that a mismatch means an echo that came after `main()` had gone on.
- `05.../remote/src/main.c:3` says that every press increments the total.  A press that
  finds `press_msgq` full does not, and the total stays behind for good;
  `PressesAccounted` says by how much.  The same is true of lab 02.

## Proofs

The theorems hold for every value of the constants that satisfies the module's
named assumption (positive sizes; an MTU that holds the request, which the code
checks or the lab needs; an even modulus of the counters; strings that are not
empty; for lab 09 what Zephyr says of a
`struct sensor_value`: both parts have the same sign, and the second is less than a
unit).  Where a theorem states what a run checks, the run shows it on a small
instance.

`HelloIpcProofs`:
- `TypeCorrect`: `TypeOK` is inductive as it stands.
- `NothingUnaccounted`: `Accounted`, inductive together with `TypeOK`: each action
  moves one ping from one place of the sum to another.
- `NoAckUnheard`: `AcksAreHeard` is not inductive, because it says nothing of the
  pings that are still to become acks.  `HostListens` (no ping before the
  channel is enabled) is; with `Accounted` it implies the property: a host that
  has sent nothing has no ack under way.
- `PathInOrder`: `InOrder` orders all stages of the path at once, so it is inductive
  with `TypeOK`.  For each action that moves a ping one lemma (`...Moves`) says
  from which stage to which; the steps need no more of the actions.
- `DeliveredInOrder`: the refinement of `InOrderDelivery`, from the same lemmas.
- `ConsoleTellsLed`: `ConsoleShowsLed` speaks of an idle path only.  `LedTold` says of
  every state that console and LED0 agree exactly if the number of acks still to be
  logged (`Untold`) is even, unless LED0 never worked, and that all of them report
  the same result.  Both hold whatever pings are lost or dropped, but only as long as no
  ack is lost and no toggle fails (`~blurred`): nothing makes good for either.

`PingPongProofs`:
- `TypeCorrect`: inductive as it stands.
- `OneBall`: one lemma per action (`...Moves`) says what it adds to or takes from the
  balls of the host, of the client, and of those on their way to LED0; the sum
  stays one until a loss ends the rally, and is nothing from then on (`OneUntilOver`).
- `CoresAlwaysAgree`: the host computes the next seq from the pong it took, so the seqs
  agree only because no other message can be under way (`Alone`, `HostAlone`, from
  `OneBall`).  `LedParity` counts a ping as yet to come until `ToggleLed`; it needs an even
  modulus, or else the wrap would keep the parity.
- `ImplementsRally`: by the place of the one ball, each action is a shot, a return, a
  miss or a stutter of `Rally` (`Turn`, `RallyStep`).

`ButtonPressCounterProofs`, lab 05:
- `TypeCorrect`, `NoPressUnaccounted`: `TypeOK` is not inductive, for only the
  account of the presses keeps the total within the presses.  `IInv` joins the
  two, and that a total being sent is positive.
- `ConsoleResyncs`: `TotalResyncs` speaks of an empty mailbox only; `Latest` also says
  what the youngest message of a non-empty one is.
- `CountsUpwards`: the refinement of `InOrderDelivery`, from `PathOrdered`.

and lab 02, whose properties appear there as `Pong!TypeOK`, `Pong!CounterSpec` and
`Pong!LedMatchesConsole`:
- `PongTypeCorrect`: like lab 05's, with the toggle between counting and sending.
- `ImplementsCounter`: each step is a step of `ButtonPressCounter` or leaves its state
  alone.  Counting and toggling together are its `GetPress`; a client whose `main()`
  failed is one that never starts.
- `LedFollowsConsole`: two invariants.  `LedParity`: LED1 has the parity of the toggles,
  unless one failed.  `LatestEvt`: the youngest event that was not lost is on the
  console or the last in the mailbox.

`StructuredCommandProofs`:
- `TypeCorrect`: `TypeOK` is inductive, for it says which locals are meaningful when.
- `PathInOrder`: `InOrder` orders the stages of the path from the latest answer back
  to the host's step, and says that nothing but questions is answered.
- `LedsFollow`: `LedsFollowHost` is rephrased by the commands that were carried out
  (`Settled`, `LatestShown`).  It is inductive only with `SettledInOrder`: commands are
  carried out in order, so the one carried out now is the latest.  It speaks of
  `g_led_state` and of `pin`, the LED itself, which a failed `gpio_pin_set_dt()` may
  leave behind; `doubtful`, a history variable, holds the LEDs whose latest transfer
  failed, so that a later one makes good for it.
- `FreshAnswers`: with `NotedPresses`, the host cannot have noted more presses than
  there were.
- `LossesAreTold`: when `GetStatus` runs, the two commands before it are settled or
  lost, since the queue is in order; if they are settled, `LatestShown` says that the
  LED is on.
- `AnsweredInOrder`: the refinement.  Statuses carry no number; that of a question is
  found by division, for every fifth step of the host's cycle is one.  The count of the
  questions asked (`Cardinality`) is that same quotient.

`EchoServiceProofs`:
- `TypeCorrect`: in particular, no copy exceeds its buffer.
- `StringsStayIntact`: `PathIntact` needs `HoldsSent`: whenever `main()` is not copying,
  `g_last_sent` is the string of the latest send.
- `PathInOrder`, `EchoesInOrder`: as in lab 01.
- `VerdictsTellLateness`: an action property.  The callback compares the echo with
  `g_last_sent`; `PathIntact` says what the one is, `HoldsSent` the other, and both are
  cut by the same bound before they are compared.

`ThresholdEventProofs`:
- `TypeCorrect`: inductive as it stands; sums and averages are whole numbers.
- `TimelyRules`: an action property.  `CommandsAreHosts`: whatever is on its way to
  Threshold_Task is the host's threshold.  `TimelyWaits`: a command that was queued
  when calibration ended is in force, or still queued while the thread is in
  `k_msgq_get()`, which cannot time out then.
- `EventsMeanMotion`: an action property.  `SumFollowsSamples`, inductive through
  calibration: what is within some distance of each sample is, `good_samples` times
  over, within as many distances of their sum (the triangle inequality, `AddSample`).
  `BaseIsAverage` and `AverageIsNear` carry that over to the baseline: the three
  truncated quotients cost less than one unit per axis.
- `EventsComeInOrder`: the refinement, from `PathOrdered`.

and lab 09, whose properties appear there as `Accel!TypeOK`, `Accel!GapsTellLosses` and
`Accel!RowsAreTrue`, with all values that Zephyr allows a sensor (`SensorReadings`) for
its readings:
- `AccelTypeCorrect`, with `Numbered`: samples are numbered from 1 as they are measured.
- `GapsAreLosses`: three invariants.  `InOrder`: numbers rise from the console through
  the mailbox to `main()`, and none is lost at the same time.  `Spent`: between the
  latest row and the latest sample each number is lost, in the mailbox or in hand.
  So the numbers between two rows are lost, and the set of losses grows by
  exactly their interval; its cardinality is the only counting needed.
- `RowsAreSamples`: `Faithful` says that hand, mailbox and console hold the value
  measured for their number (the sensor is set up only while there is none);
  `MilliTruncates` is the arithmetic of the conversion, for either sign.

`SharedCounterProofs`, lab 04:
- `TypeCorrect`, `FlashesTellCounter`: type correctness with `FlashesCounted`, which
  ties the flashes so far to `i`.  Neither looks at the clock.
- `DisplayIsTimely`: `Timely => (Spec => []DisplayKeepsUp)`; `Timely` is one slot, at most
  one unit too much per sleep, a queue of at least three and a modulus of at least
  five.  Time is measured by the host's counting: a counter is `Lag` counts old, and
  `Left` units remain until the next.  Counters whose remainders are 0 to 4 are
  displayed for up to 32, 64, 96, 128 and 160 units, and one comes every 100; so their
  displays may begin up to 148, 80, 60, 60 and 88 units late (`Delay`).  A delay
  and the display exceed the next counter's delay by 100 at most (`DelayBounds`): what the
  long displays fall behind, the short ones make up for.  The largest delay is that
  of remainder 0, and so the wrap to 0, which may follow any remainder, does no harm.
  `Pace` adds the counter that the mailbox may hold back until M4 boots: it comes
  without notice of the time, but alone, so that the others (`Fresh`) wait for one
  display of at most 160 units.  What is in time is young, and so few
  (`LagsAreSmall`, `FewAreFresh`).

and lab 08, whose properties appear there as `Bursts!TypeOK`, `Bursts!NoLedLeftOn` and
`Bursts!EveryPatternFits`:
- `BurstsTypeCorrect`, with `Iterating`: in the middle of a pattern at least one
  iteration is not over.
- `NoPatternLeavesLeds`: `StepLights` says of every LED that is lit that the step in
  which the thread is lights it, unless a transfer failed.
- `EveryBurstFits`: `Roomy => (Bursts!Spec => []Bursts!EveryPatternFits)`; `Roomy` is at
  most one unit too much per sleep and `Depth >= Slots + 4`.  `Load` is the time that
  all patterns in mailbox, queue and hand will take, each counted as three iterations
  of ten units.  The pause after a burst, 120 units, is as long as its four patterns
  take by that count: `Demand` is what has been sent of this burst, or what is left of the
  pause.  `Backlog` says `Load <= 30 * Slots + Demand`: on top of a burst there is no more
  than what waited in the mailbox for M4 to boot.

`QueueLemmas` holds what they need of sequences: what a put and a get do to the
elements of a queue and to its length (`Puts`, `Takes`); that they keep rising
numbers rising (`Increasing...`, and `Rising...` for records with a number); that
the record that leaves has the smallest number (`OldestLeaves`) and one with the
greatest may enter (`NewestEnters`).

Only model-checked:
- Liveness (`EveryPingSettles`, `PressesAreTaken`, `EveryQuestionSettles`,
  `EveryStringSettles`, `RallyGoesOn`, `SamplingGoesOn`, `BacklogClears`,
  `ThresholdTakesEffect`, `PollingGoesOn`): the prover handles neither fairness nor
  `ENABLED`.
  `BacklogClears`, in particular, says that the backlog of a late boot is gone for good
  one day; what is proved is that it never exceeds a bound.

Every safety property of a passing run, invariant, action property or refinement, is
proved; those of labs 04 and 08 that depend on time, under `Timely` and `Roomy`.  The two
violated ones are refuted by their runs.

## Not modelled

- The overlays, Kconfig and CMake files: configuration without behaviour.
- The documents; labs 11 to 18 exist only there.
- `data->size < sizeof(msg)`: both cores share one header and every message has its
  full size, so the branch is dead; in lab 07, where sizes differ, it is modelled.
- Logging, and the uptime and counters that only feed it.
- The wrap of 32-bit counters, except in `PingPong` and `SharedCounter`, which run for
  ever; the other labs would need decades.  The 32-bit sums of lab 10 stay far from
  overflow.
- The I2C drivers: a call that sets or toggles a LED succeeds or fails at will, and so
  do `sensor_attr_set()` and `sensor_sample_fetch()`.  `sensor_channel_get()`, whose
  result labs 09 (`remote/src/main.c:94-96`) and 10 (`remote/src/main.c:89-91`) ignore,
  is taken to succeed after a successful fetch: it only copies out what was fetched,
  and fails for a channel that the driver does not support, which the three
  acceleration channels are not.  With another driver a row or an event could hold
  values that were never written.
- Lab 09's three axes are read and converted alike; one stands for all.
