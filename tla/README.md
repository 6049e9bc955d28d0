# AgentFactory Gateway: TLA+ model, checks and proofs

The gateway is a Go process that connects Slack (Socket Mode) to a Python agent
core. A user mentions the bot; the gateway runs `worker.py` for the task,
streams the worker's JSONL events to a Slack card, keeps a record of the task in
a SQLite store, and queues mentions of channels that are busy. This directory
models that control logic in TLA+, checks it with TLC on small instances and
proves its safety properties, of the task queue, the event loop over it, the
streams, the records, the reviews and the process around them, for every
instance with TLAPS.

Source paths are relative to the repository's root (`src/` in `PROJECT.json`).

## 1. Inventory

| Part | State it keeps | Operations | Hard behaviour | What makes it correct |
|---|---|---|---|---|
| **TaskQueue** `gateway/task_queue.go`, `queued_task.go` | `waiting` (FIFO), `running` (map), `channels` (counter per channel), status of each task | Enqueue, MarkRunning, MarkDispatched, MarkRunningDirect, MarkDone/MarkError, releaseTerminalTask, tryDequeue with a callback | methods called from several goroutines; the ends of a task take the lock twice; the callback runs outside the lock | limits kept, no task lost or run twice, FIFO per channel, waiting tasks get their turn, counter and gauges mean what they say |
| **Metrics** `gateway/metrics.go` | process-wide atomic counters and gauges | atomic adds beside the queue's updates | updates before, under and after the lock | a gauge equals what it counts |
| **Event loop** `gateway/slack.go` | `taskQueue`, stack of executions (Go call stack), message reference per execution, connection status, channel of Socket Mode events | handleEvent, handleMentionStream, dispatchQueuedTask, stream callbacks, buttons (stop, retry), ReconcileAfterRecovery, Start, Stop | one goroutine blocks in Execute; the dequeue callback nests executions; worker failures of all kinds | one task per channel, mentions in order, slots given back, the loop always returns to its events and loses none; connection status and alarm follow the link |
| **Stream** `worker/stream_worker.go`, `throttler.go` | process, buffer of one event, timer, flags | Execute, ExecuteDispatch, executeCline, Push, Flush, Stop, timer's flush | timers and the Cline adapter call back in goroutines of their own, beside the reader | no update doubled or late, none given up but for a newer one; one card per task; the end is the last thing a user sees |
| **Cline adapter** `worker/cline_adapter.go` | start time | Stream, parseLine | a goroutine that nobody joins; the order of its rules | every line becomes at most one event |
| **Crash recovery** `gateway/recovery.go` | none (reads and writes the store) | RecoverActiveTasks at startup | a time limit, failures in the middle, a crash during recovery | every interrupted task is settled and registered under its channel |
| **State store** `state/` | one record per task: channel, message, user, prompt, status, time | Set, Get, ListActive, GetByChannel, HasActiveTask | partial records; two implementations of one interface; writes from several goroutines | a partial Set keeps the rest; what retry, stop and recovery read is there |
| **HITL handler** `gateway/interaction_handler.go`, review cards `gateway/renderer_hitl.go` | none (buttons carry the task id, modals task id and mode) | approve, reject, feedback, git buttons, modal submissions, resume goroutines | resumes run concurrently; clicks on old cards | each decision reaches the core with its task and text, and fits the checkpoint |
| **PythonWorker** `worker/python_worker.go` | `cmd`, `stopped`, shared without a lock | Execute, CheckStatus, Stop | concurrent Execute calls; Stop races with them | Stop ends what runs |
| **Startup/shutdown** `main.go`, `scripts/stop-gateway.sh` | contexts, error channel | recovery, reconcile, Start, two-phase shutdown | signals at any time, timeouts | workers drained, records marked, store closed last |
| Rest of the renderer, protocol, config, schema, start script, mock worker | none or constants | layout, data types | none | out of scope, see section 7 |

Interactions: the event loop calls the queue; the queue calls back into the loop
(`dispatchQueuedTask`) when it dequeues; the loop and the throttler's timers call
the stream callbacks, which write the card, the store and the queue; main calls
recovery and reconcile before the loop starts; the HITL handler starts
goroutines that use the PythonWorker and writes the store from the loop; Socket
Mode feeds the loop through one channel with changes of the link and envelopes.

`PROJECT.json` lists the hazards of this code, each at its line, with the
properties that watch it.

## 2. Modules

| Module | Role |
|---|---|
| `TaskLifecycle` | abstract specification: a task is accepted once, waits at most once, runs at most once, is never lost |
| `TaskQueue` | the queue with any number of calling goroutines, the gauges included |
| `MCTaskQueue` (`.cfg`) | its instance: two goroutines, four tasks, three channels, limit 2 |
| `TaskQueueProofs` | theorems about `TaskQueue` |
| `Gateway` | the event loop over `TaskQueue`: recovery's results, mentions, nested executions, worker events and failures |
| `MCGateway` (`.cfg`, `MCQueuedTaskStarts.cfg`) | its instance: two channels, five mentions, two recovered tasks of one channel |
| `GatewayProofs` | theorems about `Gateway` |
| `UpdateChannel` | abstract specification: updates are offered in order, delivered at most once, given up only for a newer one until the channel is closed |
| `TaskStream` (`MCTaskStream.cfg`, `MCEndStays.cfg`) | one execution, of the Python worker, a dispatch or Cline: reader, adapter, throttler, timers, callbacks |
| `TaskStreamProofs`, `TaskStreamCardProofs` | theorems about `TaskStream`: the events on their way, and what becomes of the card |
| `TaskRecords` | the records of either store through executions, buttons, Stop, crashes, restarts and recovery |
| `MCTaskRecords` (`.cfg`, `MCNotBypassed.cfg`) | its instance: two tasks of one channel |
| `TaskRecordsProofs` | theorems about `TaskRecords` |
| `PythonWorker` | `Execute`, called by many goroutines, and `Stop`, over two unlocked fields |
| `Cards` | which buttons and dialogs a paused task offers, as constants |
| `Review` | the cards, buttons and dialogs of reviews over `PythonWorker` |
| `MCReview` (`.cfg`, and two cfgs of violations) | its instance: two tasks, two texts, two pauses, two clicks, two executions |
| `ReviewProofs` | theorems about `Review` and its worker |
| `Service` | main, Start, Stop, the event loop, the connection and its monitor as goroutines; signals and kills |
| `MCService` (`.cfg`, `MCSignalStops.cfg`) | its instance: two envelopes, one fault of the link |
| `ServiceProofs` | theorems about `Service` |

Definitions marked "faulty variant" model plausible mistakes in the code. They
are used nowhere; each shows, put in place of the definition it follows, that
one of the properties notices the mistake.

### TaskQueue

`waiting`, `running`, `channels`, `status` are the fields of `TaskQueue` and the
status of the `QueuedTask` objects; `queuedTasks`, `activeTasks` the gauges.
Every method that holds `tq.mu` for its whole body is one action. `MarkDone` and
`MarkError` have the same body and are three actions (gauge; delete; tryDequeue),
`releaseTerminalTask` is two or three; `pc[g]` and `arg[g]` say what goroutine
`g` still has to do. Nothing in the code follows the dequeue callback, so it is
a tail call: `g` is idle again and what the callback does are further calls.
`entry`, `finishes`, `misses` are history variables. `finishes` also bounds the
calls of MarkDone (`MaxFinishes`), since the code lets any id be ended any number
of times. Task ids are fresh when they enter (`generateTaskID` counts; recovered
ids are keys of the store).

### Gateway

`stack` is the Go call stack of the event goroutine as far as it executes tasks:
`handleMentionStream` blocks in `Execute`, the callback's `MarkDone` calls
`dispatchQueuedTask`, which blocks in an `Execute` of its own. An element says
which task it executes, who started it and how far the worker has come. Each
action is, by the way it is written, an action of `TaskQueue` joined with a step
of the stack, or leaves the queue alone, so the queue's theorems apply
(`QueueTheoremsApply`). `unreported` remembers the tasks whose worker exited with
status 0 before an end: nothing gives their slots back. That callbacks run in the
loop's goroutine holds for the Python worker; a Cline worker cannot be reached
from main, which never calls `WithCline`. A done and an error event have
the same effect on the queue and are one action. `ReconcileAfterRecovery` starts
from any outcome of recovery and may miss some tasks, because
`RecoverActiveTasks` stops when its context ends and skips tasks whose record
cannot be written; several of its tasks may be of one channel, as
`MarkRunningDirect` refuses none, and the properties about one task per channel
leave such pairs out. A retry button is a mention (`handleRetryTask` calls
`handleMentionStream`). Progress and paused events do not touch the queue and
appear in `TaskStream`.

### TaskStream

`reader` is the goroutine of `Execute`; `worker` says which one. The Python
worker's lines are read by it; a dispatch task first announces itself; with
Cline the reader waits for the process while the adapter's goroutine reads the
lines (`AdapterLine`) and may go on after the return. (main builds no Cline
worker; that part of the model is about `StreamWorker` as it can be configured.) `ParseLine` keeps the
order of the adapter's rules over what a line mentions. `buffer`, `timer`,
`orphans`, `flushes` are the throttler: `orphans` counts timers that were reset
after they had expired and then forgotten by `flush`, `flushes` the timer
goroutines that wait for the lock. `callbacks` holds the stream callbacks in
progress, of the reader, the adapter and timers; each first updates the card,
for which it may have to post a message (`messages`, `step` "post"), and then
the record, so that any two may interleave. Stop calls back under its lock;
goroutines waiting for the lock then find nothing buffered and drop what they
push (`PushBuffered` after `Stopped`: only the adapter gets that far), and the
model leaves the wait out. Whatever type is not immediate is bufferable, so an
event of an unknown type ("other") takes the buffer as progress does and then
shows nothing (`HasCard`). A line that has been scanned when the worker is
stopped or times out is thrown away (`Interrupted` takes it into `output` all the
same); `cutoff` remembers how much of the output came before that. Time is abstract: an armed timer may
expire at any moment, and the ten-second cooldown of `progressCache` may have
passed or not after the first progress event. Assumed of Python workers: start
comes first, nothing follows done or error (`worker.py`), events carry a task id
(without one the record is not written). Nothing is assumed of Cline's text.
Calls of Slack succeed; a failed post would leave the next callback to post.

`ImplementsChannel` maps each event to "new", "waiting" (buffered or in a
callback), "delivered" (its callback ran), "replaced" or "dropped" and says that
every step is one of `UpdateChannel` or a stutter. The channel is open until the
reader is stopped or timed out or the throttler stopped; afterwards an update
may be dropped unheard (`Missed`), as the code does, but none is replaced any
more and what waited is still delivered. `UpdateChannel` leaves the order of
delivery open on purpose: callbacks overtake each other.

### TaskRecords

`store` never changes: it says which implementation of `StateManager` the
process uses, so that each property speaks of SQLite, of the JSON store or of
both. `records` is what is stored and survives `Exit`, which stands for a crash
as well as for the end of main; `exec`, `pending`, `todo`, `tracked` belong to a
process. A callback reads an event and later calls Set: the reader waits for the
Set of a start, done or error event; a progress or paused event goes through the
throttler and its Set may come at any later time, after done as well (see
`TaskStream`). Buttons are handled only while the event loop is free
(`LoopFree`), since it blocks in Execute. Channel and message reference are
written together and are one field; user, time stamps, the order of
GetByChannel and HasActiveTask (never called) are left out.

### PythonWorker, Cards and Review

An element of `Executions` is a goroutine started by `go sendResume`, with its
`exec.Cmd` and the channel it makes. Each access to `w.cmd` or `w.stopped` is a
step: Execute stores the command, stores the channel, starts the process, and
evaluates `<-w.stopped` once, in its select; Stop reads `w.cmd` for each of its
conditions and for the signal, and `w.stopped` for the check and the close. A nil
dereference in Stop is the state "panicked", in which nothing moves. SIGTERM may
be ignored by a process, SIGKILL may not.

In `Review`, `pauses` holds the paused events of each task, one after the other:
at which checkpoint each came, and whether it names its task. Each makes a card
(`ButtonsOf`), whose buttons either decide at once or open a dialog. Buttons and
dialogs carry the task id and no more, so a click or a submission may belong to
any card the task ever had, and what it decides is sent to the task wherever
that is by now. `origin` and the "card" of a dialog are history: the card behind
a request. A dialog is closed by its submission, which looks for its text as
`HandleViewSubmission` does. Cancelled dialogs are dialogs that stay open for
ever. A card may be clicked again, whether it has been replaced or not.

### Service

`main`, `waiter`, `timedOut`, `store` belong to the goroutines of main; `start`,
`errCh`, `cancelled`, `marked` to the goroutine that calls `g.Start`, with Stop at
its end; `loop`, `inbox`, `acked`, `connected` to the event loop; `monitor`,
`streak` to the monitor of the connection. `link` and the deliveries `sent` stand
for Socket Mode and Slack: changes of the link and envelopes go through one
bounded channel, in order, and an envelope is delivered again until it is
acknowledged. What handlers do is abstract (they return or panic), and so is
recovery, which need not end (`GoStart` is not fair). A handler's panic ends the loop, a panic of Stop the process;
`stop-gateway.sh` may kill at any time after its signal. Events of Socket Mode
that the loop only acknowledges are left out. `connectionStatus` of the metrics
always equals `connected` and is the same variable.

## 3. Runs

| Run | What it shows |
|---|---|
| `queue` | for every order of calls: the counter counts waiting tasks plus directly registered ones never released; gauges are exact up to calls in flight; dequeued tasks keep both limits; completions keep the queue moving; a task is overtaken only while its channel is busy; the queue implements `TaskLifecycle` |
| `gateway` | one running task per channel, tasks of recovery apart, although `MarkRunningDirect` checks nothing; one directly executed mention per channel in the life of the process (the price of that); callbacks that look their task up by channel find the right one; executions nest only inside finished ones; when the loop is back, no slot of the running map is held but by recovered tasks that run and by tasks whose worker exited well without an end; mentions of a channel start in order; the loop always comes back |
| `stream` | for all three workers: no update is shown twice, none is stranded in the buffer, each reaches the callback, is replaced by a later one, or comes when the reader or the throttler has been stopped (in the end, and step by step as `UpdateChannel` says), a task has one card per start event, a recorded end is taken back only by an update from before it, and after Execute has returned no new callback starts (Cline's adapter apart) |
| `records` | for both stores: through any crash, every running record is accounted for by the process that recovers or serves; recovery never takes an end back; with the JSON store records stay complete and no mention is executed beside a recovered task |
| `review` | with overlapping executions: `w.cmd` never outlives its Execute, no execution is killed by a Stop that came before it, Stop reaches an execution that no other overlaps; feedback reaches the core with its task, decision and text; every decision sent is one that the card it was made on offers, however old the card is |
| `service` | the store is closed only after Stop has marked the records, or after the time limit; a signal ends the process once recovery is over; `connected` differs from the link only by events still in the channel; a delivered envelope is handled unless the loop died; the monitor's alarm ends once the link stays up |
| `not_bypassed` | **violated**: with SQLite a progress event blanks the record's channel, so that recovery tracks the task under no channel and a mention is executed beside it |
| `submissions_reach_core` | **violated**: the rebase dialog can never be confirmed and the manual git commands are dropped, because their text is looked for in the block of another dialog |
| `stop_reaches_all` | **violated**: of two overlapping resume commands Stop reaches at most one |
| `queued_task_starts` | **violated**: after a directly executed task has ended, its channel's counter stays up; the next mention is queued with "your task will start automatically" and never starts |
| `signal_stops` | **violated**: nothing tells Start of a signal, so Stop is never called; main waits out its ten seconds, closes the store and exits |
| `end_stays` | **violated**: the buffered last progress event is delivered after done; the record of a finished task is running again. `worker.py` emits its last progress event 0.1 s before done, and the debounce is 1 s; its events carry no task id, so with this mock only the card goes back, with a worker that names its task the record does as well |

Bounds. `queue`: four tasks, two of them in one channel, are enough for a task
that waits behind a running one of its channel while others overtake it, and for
three dequeues at once to exceed the limit; two goroutines give every race of
two calls; limit 2 is reached and left; three finishes include a double one.
`gateway`: three mentions in one channel give a direct task, a dequeued one and
one nested inside that; the second channel holds two recovered tasks, which run
side by side and make limit 2 bind; `MaxFinishes` = 18 is never reached (each of
the five executions calls MarkDone at most three times). `stream`: four events, made-up ones included, let the buffer be
replaced, a timer be reset after it expired, an orphan fire and the adapter
report an end of its own, with and without an end event; with five the
run does not finish in five minutes. `records`: two tasks of one channel are the
fewest for one that bypasses the other; the number of processes is not bounded.
`review`: two executions are the fewest that overlap; `MaxClicks` = 2 lets both
come from approvals, from dialogs or from one of each, of one task or of two;
`MaxPauses` = 2 gives one task an old and a new card of different checkpoints, or
two tasks one each.
`service`: a channel of four holds a lost link, its recovery and an envelope
between them; two deliveries are one and its repetition; one fault is enough
because the link's events are the same each time; `MaxStreak` = 1 keeps only
whether the monitor counts. Symmetry is used only in `queue`, `records` and
`review`, which check no liveness.

`review` reaches 3 783 672 states, `queue` 215 536, `service` 170 125, `stream`
128 047, `gateway` 64 324, `records` 46 089.

Deadlock is not checked: each system may stop (no more tasks, users or events;
an execution that has returned).

## 4. Fairness

`Gateway`: weak fairness of the goroutine's own steps (`Continue`,
`DispatchQueuedTask`) and of the return of `Execute`, which the five-minute
context of `executePython` enforces: it kills the worker, and the read of its
output ends with it. That is not so if the worker has left a child of its own
that keeps stdout open; the models assume it does not. No fairness of mentions,
worker events or failures, nor of `Start`: recovery need not end, since
`CheckStatus` runs a command without a context (`python_worker.go:125`) and
`RecoverActiveTasks` looks at its own only between two tasks. `TaskStream`: weak fairness of the goroutines, of timers and
of the end of the output (the context kills the process); none of the emission
of events. `Service`: weak fairness of main, Start, Stop, the loop (every handler
returns, see `LoopComesBack`, or panics) and the monitor's ticker; `RunContext`
returns when its context is cancelled. None of the signal, of the link, of
deliveries, or of the end of recovery (`GoStart`). `TaskRecords` and `Review` check safety only and assume no fairness.

## 5. Proofs

`TaskQueueProofs` proves, for any finite sets of tasks and goroutines, any
channels and any positive limit (`QueueAssumption`):

| Theorem | Statement |
|---|---|
| `TypeCorrect` | `Spec => []TypeOK` |
| `ChannelAccountingHolds` | `Spec => []ChannelAccounting` |
| `GaugesExactHold` | `Spec => []GaugesExact` |
| `DequeuedLimitsHold` | `Spec => []DequeuedWithinLimits` |
| `QueueKeepsMoving` | `Spec => CompletionKeepsQueueMoving` |
| `OvertakingNeedsBusyChannel` | `Spec => OvertakenOnlyWhenBusy` |
| `QueueImplementsLifecycle` | `Spec => ImplementsLifecycle` |

The inductive invariant is `IInv == TypeOK /\ Placement`: no task waits twice,
waiting and running are disjoint, and status and `entry` tell where a task is.
None of the other invariants is inductive without it: that a dequeue lowers the
counter by exactly one waiting task needs the tasks of `waiting` to be distinct,
and that a direct task counts once needs `entry`. The accounting proofs then
follow how one step changes the cardinality of `WaitingIn`, `DirectIn`,
`running` and the sets of goroutines at a step (`Account*`, `CallersAt`,
`StepGauges`). The refinement maps a task to "waiting", "running", "new" or
"gone" by the set it is in (`PhaseMove`).

`TaskRecordsProofs` proves, for any tasks and channels (`RecordsAssumption`):
`TypeCorrect`, `RunningAccountedHolds`, `JsonCompleteHolds`,
`JsonNotBypassedHolds` and `EndsStayHolds`, each for the property it is named
after. Its `IInv` adds to the types what an event that has been read but not
recorded can still do: `PendingFit` (the start is recorded before anything else
is read, the end once), `ExecutionsFit` (no execution of an earlier process
goes on), `ListsFit` (recovery works through running records only) and
`ChannelsFit` (a record has its own channel or none). Without `PendingFit` a
late Set could revive any record; without `ListsFit` recovery could mark what it
was never given. `SetFacts` and `WrittenFacts` say once what the two stores do
to a record.

`ReviewProofs` proves, for any number of reviewers, tasks and executions
(`WorkerAssumption`, `ReviewAssumption`): `TypeCorrect`, `CmdIsLiveHolds`,
`KilledOnlyByLaterStopHolds`, `StopWorksAloneHolds`, `DecisionsFitCardHolds` and
`FeedbackReachesCoreHolds`. `ChannelsFit` says that a channel is closed only
after it was made and that what an execution may find in `w.stopped` was not
closed when it began, `AloneFits` what the fields hold for an execution that no other overlaps, `StopFits` how far Stop has come with it.
`RInv` adds that an open dialog was offered by the card it was opened from,
without which a submission could carry any decision, and the two reviews'
properties; cards stay what they are while new ones come (`CardsStay`), and that what was sent stays sent (`SentStays`) needs that SendResume
takes an unused execution.

`GatewayProofs` proves, for any tasks, channels, recovered tasks and limits
(`QueueAssumption`, `GatewayAssumption`):

| Theorem | Statement |
|---|---|
| `GTypeCorrect` | `GSpec => []GTypeOK` |
| `QueueTheoremsApply` | `GSpec =>` every theorem about the queue |
| `OneRunningPerChannelHolds` | `GSpec => []OneRunningPerChannel` |
| `OneDirectPerChannelHolds` | `GSpec => []OneDirectPerChannel` |
| `EventsReachOwnTaskHolds` | `GSpec => []EventsReachOwnTask` |
| `OneUnfinishedExecutionHolds` | `GSpec => []OneUnfinishedExecution` |
| `SlotsAreReturnedHolds` | `GSpec => []SlotsAreReturned` |
| `MentionsStartInOrder` | `GSpec => StartsInMentionOrder` |

That a channel runs one task is no check of the code: `MarkRunningDirect` looks at
nothing, and the counter that decides between queue and direct start does not
count what runs. It holds because the counter never returns to zero. `GInv`
says so: `ChannelAccounting`, proved of the queue, tells what the counter counts,
and `Rooted` that a channel with a mention has a direct task, which is counted for
ever; so a later mention always waits, and what waits is dequeued only into an
idle channel. `InOrder` carries the mention order from the counter to the queue.
`StackFits` says that only the innermost execution is unfinished, that its task
then runs, and that none is while a call of the queue is under way, which is why
the lookup by channel finds the callback's own task (`OwnTaskAlone`). The steps
of the loop are first reduced to what they call (`QueueCalls`, `QueueStep`), then
proved kind by kind: mentions (`QueueMentionKeeps`, `ExecuteMentionKeeps`),
dispatch (`DispatchKeeps`), recovery (`ReconcileKeeps`), and the quiet ones that
start nothing (`QuietKeeps`). For the slots, `SlotsHeld` says that a mention in
the running map is the task of the unfinished execution, is about to be deleted by
MarkDone, or was never reported finished. It rests on `EndsOwnTask`: an end, a
scan error or a failing Execute calls MarkDone for the execution's own task as
long as that is unfinished, though the callback of a direct task asks for any
task of the channel, and a scan error even for a waiting one.

`TaskStreamProofs` proves, for any number of events (`StreamAssumption`):
`TypeCorrect`, `ShownOnceHolds`, `BufferIsWatchedHolds` and
`QuietAfterReturnHolds`. The invariant is that an event is in one place only: in
the buffer, with one callback that has yet to show it, or on the card
(`Placement`), and that the numbers given out so far bound them all
(`Numbers`), so that the next event is in none. `ShownOnce` is not inductive
without it: the buffered event could be one that a callback is about to show.
One lemma per building block (`PushKeeps`, `TakenKeeps`, `ReportKeeps`,
`StepKeeps`, `DisplayedKeeps`) says what it does to the one place. `Room` keeps
the events that the gateway makes up within `MaxEvents`; `Silent`, that Stop
leaves the buffer empty for good, is why nothing starts after the return.

`TaskStreamCardProofs` goes on from that invariant, under the same assumption:
`OneCardHolds`, `StreamImplementsChannel` (`Spec => ImplementsChannel`),
`NoUpdateLost` and `EndUndoneByOlderUpdateHolds`. Two callbacks that find no message would both post one;
`OneCard` holds because of `CardInv`: the start event is the first, its callback
is the reader's and is alone until it has posted (`CardPosted`), and before any
event only the reader has something to report (`NoCardYet`). Each start event
then pays for one post (`StartsCounted`). For the refinement an event is in hand
while it is in the buffer or with a callback; a Push offers the next one and, if
it takes the place of a buffered one, replaces that (`PushOffers`), a displayed
one is delivered (`DisplayedDelivers`), and all other steps leave what is in hand
alone (`PhaseKept`), which needs that a callback with only the record left has
delivered its event (`PersistDelivered`). The channel closes where the output is
cut (`Cut`, `StepCut`), with the line that is lost then (`LineDropped`).
`NothingLost` is the safety side of `EveryUpdateDelivered`: what is neither
delivered nor in hand was superseded or came too late. The last
theorem says exactly how `EndStays` fails: callbacks know their event and record
only what has a number (`EventsFit`), and as the reader waits for the callback of
an immediate event, that event is the last one, as is the end (`EndsFit`); so the
only callbacks that can still write the record are those of buffered updates.

`ServiceProofs` proves, for any envelopes and bounds (`ServiceAssumption`),
`TypeCorrect`, `ClosedAfterMarkingHolds`, `ConnectedLagsInboxHolds` and
`NoEnvelopeLost`. Main learns that Stop is over only
through `errCh`, which its select or its waiting goroutine takes; `Handover`
follows the error from the end of Start to phase 2, and `Marking` says that Stop
marked the records unless it found the store closed, which then was the time
limit's doing. `ConnectedLagsInbox` needs that nothing has happened before the
loop starts (`Unserved`); then an event of the link comes last and tells what the
link is (`EmitLinkEvent`), an envelope changes nothing (`EmitEnvelope`), and what
the loop takes either is the last of the link's events or leaves that one waiting
(`TakeEvent`). That envelopes differ from the events of the link is assumed: they
come with types of their own. `NoneLost` is the safety side of
`EnvelopesHandled`.

Every safety and action property that a passing run checks, and both
refinements (`ImplementsLifecycle`, `ImplementsChannel`), are theorems. Only model-checked are the liveness properties,
`LoopComesBack`, `EveryUpdateDelivered`, `SignalEndsProcess`, `EnvelopesHandled` and
`AlarmEnds`: they rest on fairness, which is out of the prover's reach.
Induction over data and recursive operators are out of its reach too; no module
uses either. The violated properties are about what the code does, and have
counterexamples in place of proofs.

## 6. Observations without a property

* `handleInteractiveCallback` expects `evt.Data` to be `[]byte`, as the tests
  send it; whether the Socket Mode library delivers that type cannot be seen in
  this repository.
* `slack.go:217-218` says of a recovered task that ended in done, error or
  stopped that its release triggers `tryDequeue`; `task_queue.go:131-134` says, and
  the code does, that only a done one does. Recovery releases before the loop
  serves, so nothing waits then. `CompletionKeepsQueueMoving` follows the code
  (`ReleaseWithoutDequeue`).
* Cards and dialogs of an earlier pause of a task stay usable and carry only its
  id: an APPROVE from an old design review can reach a task that by now asks
  about a push. `DecisionsFitCard` says only that the card of the click offered
  the decision.
* Recovery may hang in `CheckStatus`, and main has caught the signals before
  (`main.go:54`): then only SIGKILL ends the process. `SignalEndsProcess` and
  `SignalStops` speak of the time after recovery.
* An update is lost if its line has been scanned when the worker is stopped or
  times out (`stream_worker.go:115-121`), if it comes to a stopped throttler
  (`throttler.go:56-58`), or if an event of an unknown type replaces it in the
  buffer, which then shows nothing.
* Queue ids (`task-1`, ...) start again with every process and never reach the
  store; the store's keys are the ids that workers put in their events.
* `MarkRunningDirect` looks at no limit (`task_queue.go:174`): a mention executed
  directly may exceed the global limit that `task_queue.go:16-18` documents.
* `MarkError` lowers `activeTasks` before it knows whether the task runs
  (`task_queue.go:114`): an end event followed by a failing Execute uncounts the
  task twice; `GaugesExact` counts these misses.
* A queued "/dispatch" mention loses its mode: `dispatchQueuedTask` sends the
  text with its prefix and without `Dispatch` (`slack.go:201`); only direct
  executions look for the prefix.
* `FeedbackRequired` is shown on the card ("before approving") but nothing
  enforces it.
* A paused event without a task id has a card whose buttons lead nowhere:
  `sendResume` refuses the empty id.
* Each lost connection is counted twice in `disconnectionCount`, by `setConnected`
  and by the loop (`slack.go:280-289`); an attempt counts too.
* `docs/DEVELOPER_GUIDE.md:83` names a `TaskQueue.Stop()` that does not exist.
* `SQLiteStore.ListActive` returns running records only, while
  `docs/ARCHITECTURE.md:271` says running and paused: a restart does not look at
  a paused or resuming task.
* The retry button is rendered with the value "" (`renderer_done.go:144,160`)
  while `handleInteractiveCallback` switches on `action.Value`
  (`slack.go:445`), and no card renders `stop_task`: neither handler is reached
  from the gateway's own cards.
* A done or error event blanks the prompt of an SQLite record, so
  `handleRetryTask` would find none.
* Waiting mentions live only in memory and are lost by a crash.
* A decision sets its record to "resuming" before its command has been sent; if
  the worker cannot be started, the record stays so.

## 7. Not modelled

The layout of cards (pure functions; which buttons a review card has is in
`Cards`), configuration (read once), the schema and the start script; Slack's
and SQLite's own behaviour, failing calls of Slack included; the fallback to the
non-streaming worker, which main never takes; `CheckStatus`, `GetByChannel`,
`HasActiveTask` and other readers, which change no state.

## 8. Plan

1. The rest of the order of events that `TaskRecords` assumes of a stream's
   callbacks, proved of `TaskStream` (so far: what may follow a recorded end).
2. The process as one: that `Service`'s handlers return is `Gateway`'s
   `LoopComesBack`, and so far each module assumes what the other shows.
