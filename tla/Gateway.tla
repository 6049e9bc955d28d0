------------------------------ MODULE Gateway ------------------------------
(***************************************************************************)
(* The event loop of the gateway (gateway/slack.go) over the task queue,   *)
(* from ReconcileAfterRecovery to the end of every task it executes.       *)
(*                                                                         *)
(* One goroutine ranges over the socketmode events.  handleMentionStream   *)
(* blocks in StreamWorker.Execute until the worker process ends, and with  *)
(* the Python worker the stream callback runs in that same goroutine (main *)
(* builds no Cline worker: nothing calls WithCline).  So does the dequeue  *)
(* callback: MarkDone and MarkError call dispatchQueuedTask, which blocks  *)
(* in an Execute of its own.  The executions in progress are therefore a   *)
(* stack, of which only the top one makes steps, and while it is not empty *)
(* no event is handled.  Main's goroutine uses the queue only before the   *)
(* loop starts (ReconcileAfterRecovery), so it is the same caller here.    *)
(*                                                                         *)
(* Every action is an action of TaskQueue or leaves the queue alone, by    *)
(* the way they are written; what is proved of every use of the queue is   *)
(* so of this one.                                                         *)
(***************************************************************************)
EXTENDS TaskQueue

CONSTANTS EventLoop,   \* the one goroutine that calls the queue
          Recovered    \* tasks of the state store that recovery reports

\* Tasks are numbered in the order of generateTaskID within each channel.
ASSUME GatewayAssumption ==
    /\ Callers = {EventLoop}
    /\ Tasks \subseteq Nat
    /\ Recovered \subseteq Tasks

VARIABLES serving,     \* Start has been called: the loop handles events
          outcome,     \* RecoveryResult.FinalStatus of the recovered tasks
          stack,       \* executions in progress, the innermost last
          unreported   \* history: tasks whose worker exited with status 0
                       \* before it had reported an end

loopVars    == <<serving, outcome, unreported>>
gatewayVars == <<loopVars, stack>>
gvars == <<vars, gatewayVars>>

\* An execution: its task, whether handleMentionStream started it itself
\* (else dispatchQueuedTask did), and how far the worker's output has come:
\* nothing yet, the start event, a done or error event, a scan error.
Progress   == {"spawned", "started", "ended", "broken"}
Unfinished == {"spawned", "started"}
Executions == [task : Tasks, direct : BOOLEAN, output : Progress]

Top  == stack[Len(stack)]
Idle == pc[EventLoop] = "idle"

SetTop(output) == stack' = [stack EXCEPT ![Len(stack)].output = output]
Push(t, direct) ==
    stack' = Append(stack, [task |-> t, direct |-> direct, output |-> "spawned"])
Pop == stack' = SubSeq(stack, 1, Len(stack) - 1)

-----------------------------------------------------------------------------
\* The queue's lookups by channel, as sets of possible results: ListRunning
\* and FindByChannel iterate over a Go map, whose order is random.
RunningIn(c) == {t \in running : ChannelOf[t] = c}

FindRunningTaskID(c) == IF RunningIn(c) # {} THEN RunningIn(c) ELSE {NoTask}

FirstWaitingIn(c) ==
    {i \in DOMAIN waiting : /\ ChannelOf[waiting[i]] = c
                            /\ \A j \in 1 .. (i - 1) : ChannelOf[waiting[j]] # c}

FindByChannel(c) == IF RunningIn(c) # {} THEN RunningIn(c)
                    ELSE {waiting[i] : i \in FirstWaitingIn(c)}

-----------------------------------------------------------------------------
GInit == /\ Init
         /\ serving = FALSE
         /\ outcome \in [Recovered -> {"running", "done", "error"}]
         /\ stack = <<>>
         /\ unreported = {}

\* ReconcileAfterRecovery takes the results one by one: every one is
\* registered, and one that is not running is released at once.
ToRelease == {t \in Recovered : entry[t] = "direct" /\ outcome[t] # "running"}

ReconcileRegister(t) ==
    /\ ~serving
    /\ ToRelease = {}
    /\ MarkRunningDirect(EventLoop, t)
    /\ UNCHANGED gatewayVars

ReconcileRelease(t) ==
    /\ ~serving
    /\ t \in ToRelease
    /\ ReleaseTerminalTask(EventLoop, t, outcome[t] = "done")
    /\ UNCHANGED gatewayVars

\* RecoverActiveTasks may stop early (its context ends after 30 s, or Set
\* fails), so some of the recovered tasks may be missing from its results.
Start ==
    /\ ~serving
    /\ Idle /\ ToRelease = {}
    /\ serving' = TRUE
    /\ UNCHANGED <<vars, outcome, unreported, stack>>

-----------------------------------------------------------------------------
\* The next mention in channel c; generateTaskID numbers them upwards.
NextMention(c, t) ==
    /\ t \in Tasks \ Recovered /\ ChannelOf[t] = c
    /\ status[t] = "fresh"
    /\ \A u \in Tasks \ Recovered : u < t /\ ChannelOf[u] = c => status[u] # "fresh"

\* handleMentionStream (a mention, a direct message, or a retry button).
QueueMention(c, t) ==
    /\ serving /\ stack = <<>>
    /\ NextMention(c, t)
    /\ ChannelHasActiveTask(c)
    /\ Enqueue(EventLoop, t)
    /\ UNCHANGED gatewayVars

\* Faulty variant: each mention is handled in a goroutine of its own.
ExecuteMentionAtOnce(c, t) ==
    /\ serving
    /\ NextMention(c, t)
    /\ ~ChannelHasActiveTask(c)
    /\ MarkRunningDirect(EventLoop, t)
    /\ Push(t, TRUE)
    /\ UNCHANGED loopVars

ExecuteMention(c, t) ==
    /\ serving /\ stack = <<>>
    /\ NextMention(c, t)
    /\ ~ChannelHasActiveTask(c)
    /\ MarkRunningDirect(EventLoop, t)
    /\ Push(t, TRUE)
    /\ UNCHANGED loopVars

-----------------------------------------------------------------------------
\* The stream callbacks.  A start event of a direct task marks running
\* whatever FindByChannel returns, which matters only if that task waits; one
\* of a dequeued task marks that task dispatched.
StartOfDirect(c) ==
    IF RunningIn(c) = {} /\ FirstWaitingIn(c) # {}
    THEN \E i \in FirstWaitingIn(c) : MarkRunning(EventLoop, i)
    ELSE Idle /\ UNCHANGED vars

StartEvent ==
    /\ stack # <<>> /\ Top.output = "spawned"
    /\ IF Top.direct THEN StartOfDirect(ChannelOf[Top.task])
                     ELSE MarkDispatched(EventLoop, Top.task)
    /\ SetTop("started")
    /\ UNCHANGED loopVars

\* A done or error event, which need not follow a start event: the two differ
\* only in the calls' names.
TerminalEvent ==
    /\ stack # <<>> /\ Top.output \in Unfinished
    /\ \E t \in IF Top.direct THEN FindRunningTaskID(ChannelOf[Top.task]) ELSE {Top.task} :
           MarkDone(EventLoop, t)
    /\ SetTop("ended")
    /\ UNCHANGED loopVars

\* The scanner fails (a line over 64 KiB): the callback gets the error.  The
\* direct one finishes what FindByChannel returns, if anything.
ScanError ==
    /\ stack # <<>> /\ Top.output # "broken"
    /\ LET hit == IF Top.direct THEN FindByChannel(ChannelOf[Top.task]) ELSE {Top.task} IN
       IF hit = {} THEN Idle /\ UNCHANGED vars
                   ELSE \E t \in hit : MarkDone(EventLoop, t)
    /\ SetTop("broken")
    /\ UNCHANGED loopVars

\* Execute returns nil: the process has exited with status 0, with or without
\* having reported an end (a paused task's process need not).
ReturnOk ==
    /\ stack # <<>> /\ Idle
    /\ Pop
    /\ unreported' = IF Top.output \in Unfinished THEN unreported \cup {Top.task}
                                                 ELSE unreported
    /\ UNCHANGED <<vars, serving, outcome>>

\* Faulty variant: the caller returns on an error and leaves the task to the
\* callback, as it does when Execute returns nil.
ReturnErrorUnmarked ==
    /\ stack # <<>> /\ Idle
    /\ Pop
    /\ UNCHANGED <<vars, loopVars>>

\* Execute returns an error: the process could not start, exited with another
\* status, ran for five minutes, or the worker was stopped.  The caller then
\* marks its own task, whatever the callback did before.
ReturnError ==
    /\ stack # <<>>
    /\ MarkDone(EventLoop, Top.task)
    /\ Pop
    /\ UNCHANGED loopVars

\* Faulty variant: tryDequeue waits until a task is eligible.
ContinueBlocking == /\ \/ Unregister(EventLoop)
                       \/ UncountReleased(EventLoop)
                    /\ UNCHANGED gatewayVars

\* The parts of MarkDone, MarkError and releaseTerminalTask still to come;
\* the dequeue callback starts an execution inside the current one.
Continue == /\ \/ Unregister(EventLoop)
               \/ UncountReleased(EventLoop)
               \/ DequeueNothing(EventLoop)
            /\ UNCHANGED gatewayVars

DispatchQueuedTask(i) ==
    /\ Dequeue(EventLoop, i)
    /\ Push(waiting[i], FALSE)
    /\ UNCHANGED loopVars

GNext == \/ \E t \in Recovered : ReconcileRegister(t)
         \/ \E t \in Recovered : ReconcileRelease(t)
         \/ Start
         \/ \E c \in Channels, t \in Tasks : QueueMention(c, t)
         \/ \E c \in Channels, t \in Tasks : ExecuteMention(c, t)
         \/ StartEvent
         \/ TerminalEvent
         \/ ScanError
         \/ ReturnOk
         \/ ReturnError
         \/ Continue
         \/ \E i \in DOMAIN waiting : DispatchQueuedTask(i)

\* The goroutine keeps running, and every Execute returns: its context kills
\* the worker after five minutes (and the read of its output ends with it,
\* unless the worker has left a child that keeps stdout open).  Recovery need
\* not end, nothing makes a user mention the bot again, and no worker has to
\* emit an event.
Fairness == /\ WF_gvars(Continue)
            /\ WF_gvars(\E i \in DOMAIN waiting : DispatchQueuedTask(i))
            /\ WF_gvars(ReturnOk \/ ReturnError)

GSpec == GInit /\ [][GNext]_gvars /\ Fairness

-----------------------------------------------------------------------------
\* Properties.

GTypeOK == /\ TypeOK
           /\ serving \in BOOLEAN
           /\ outcome \in [Recovered -> {"running", "done", "error"}]
           /\ stack \in Seq(Executions)
           /\ unreported \subseteq Tasks

\* "Per-channel concurrency limit", kept by the whole system although
\* MarkRunningDirect does not look at the running map: the counter it looks at
\* instead never returns to 0 once the channel had a direct task.  (Recovery
\* may register several tasks of one channel, if the records say so.)
OneRunningPerChannel ==
    \A t, u \in running :
        ChannelOf[t] = ChannelOf[u] => t = u \/ {t, u} \subseteq Recovered

\* The price: in the life of the process a channel executes one mention at
\* once, and every later one goes through the queue.
OneDirectPerChannel ==
    \A t, u \in Tasks : (entry[t] = "direct" /\ entry[u] = "direct"
                            /\ ChannelOf[t] = ChannelOf[u])
        => t = u \/ {t, u} \subseteq Recovered

\* The callback of a direct task finds "its" task by channel, in a map with
\* random order; up to its end it can only find the right one.
EventsReachOwnTask ==
    \A k \in DOMAIN stack :
        (stack[k].direct /\ stack[k].output \in Unfinished)
            => FindRunningTaskID(ChannelOf[stack[k].task]) = {stack[k].task}

\* Executions nest only inside ones whose task is already finished: at any
\* time at most one worker has not reported an end.
OneUnfinishedExecution ==
    \A k \in DOMAIN stack : stack[k].output \in Unfinished => k = Len(stack)

\* The running map against the executions: when the loop is back at the
\* events, every end, scan error and failed Execute, however deeply nested and
\* whichever task its callback found by channel, has given back the slot of
\* its own task.  A slot is still held only by a task that recovery reported
\* as running, which nothing in this process ends, or by one whose worker
\* exited with status 0 without an end: handleMentionStream and
\* dispatchQueuedTask then return without a call of the queue.
SlotsAreReturned ==
    (serving /\ stack = <<>> /\ Idle) =>
        running \subseteq {t \in Recovered : outcome[t] = "running"} \cup unreported

\* End to end, the tasks of a channel start in the order of their mentions.
StartsInMentionOrder ==
    [][ \A t \in running' \ running : t \notin Recovered =>
            \A u \in Tasks \ Recovered :
                (u < t /\ ChannelOf[u] = ChannelOf[t]) => status'[u] \notin {"fresh", "queued"} ]_gvars

\* The event loop always comes back to the events, whatever the workers do
\* and however deep the executions nest.
LoopComesBack == []<>(stack = <<>> /\ Idle)

\* What the card of a queued task tells its user: it will start automatically.
QueuedTaskStarts == \A t \in Tasks : status[t] = "queued" ~> status[t] # "queued"
=============================================================================
