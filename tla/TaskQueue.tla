----------------------------- MODULE TaskQueue -----------------------------
(***************************************************************************)
(* The gateway's task queue (gateway/task_queue.go, queued_task.go and the *)
(* two gauges of metrics.go), called by any number of goroutines.          *)
(*                                                                         *)
(* Every exported method holds tq.mu for its whole body and is one action, *)
(* except MarkDone/MarkError and releaseTerminalTask: those touch the      *)
(* gauges, take the lock to delete the task, drop it, and take it again in *)
(* tryDequeue, so each of these parts is an action of its own and pc[g]    *)
(* says which part goroutine g has to do next.  Nothing follows the        *)
(* onDequeue callback in tryDequeue, MarkDone or MarkError, so the         *)
(* callback is a tail call: g is idle again and the calls the callback     *)
(* makes are further calls of g.                                           *)
(*                                                                         *)
(* Task ids come from generateTaskID (an atomic counter) or are the        *)
(* primary keys of the state store, so a task given to Enqueue or to       *)
(* MarkRunningDirect is one the queue has not seen ("fresh").              *)
(***************************************************************************)
EXTENDS Integers, SequencesExt

CONSTANTS Tasks,               \* the QueuedTask objects, identified by TaskID
          Channels,            \* Slack channels
          ChannelOf,           \* the ChannelID of each task
          Callers,             \* goroutines that call the queue
          NoTask,              \* the empty id, or an id the queue never saw
          MaxConcurrentTasks,  \* config.MaxConcurrentTasks
          MaxFinishes          \* bound on the calls of MarkDone and MarkError

\* NewTaskQueue replaces a limit <= 0 by its default, so the limit is positive.
ASSUME QueueAssumption ==
    /\ IsFiniteSet(Tasks)
    /\ IsFiniteSet(Callers)
    /\ ChannelOf \in [Tasks -> Channels]
    /\ NoTask \notin Tasks
    /\ MaxConcurrentTasks \in Nat \ {0}
    /\ MaxFinishes \in Nat

VARIABLES waiting,      \* tq.waiting: FIFO of the tasks not yet dispatched
          running,      \* the keys of tq.running
          channels,     \* tq.channels; an absent key counts 0
          status,       \* QueuedTask.Status; "fresh": not yet created
          queuedTasks,  \* the gauge of metrics.go
          activeTasks,  \* the gauge of metrics.go
          pc,           \* what goroutine g still has to do in its call
          arg,          \* the task a MarkDone or MarkError has yet to delete
          entry,        \* history: how a task entered the running map
          finishes,     \* history: calls of MarkDone and MarkError so far
          misses        \* history: how many of them found nothing to delete

queueVars == <<waiting, running, channels, status>>
gauges    == <<queuedTasks, activeTasks>>
callVars  == <<pc, arg>>
history   == <<entry, finishes, misses>>
vars      == <<queueVars, gauges, callVars, history>>

Statuses == {"fresh", "queued", "dispatching", "running", "done", "error"}
Steps    == {"idle", "unregister", "uncount", "uncountDone", "dequeue"}
Entries  == {"none", "direct", "released", "dequeued", "marked"}

-----------------------------------------------------------------------------
\* The status machine of queued_task.go.
ValidTransitions ==
    {<<"queued", "dispatching">>, <<"dispatching", "running">>,
     <<"dispatching", "error">>, <<"running", "done">>, <<"running", "error">>}

IsValidTransition(current, next) == <<current, next>> \in ValidTransitions

\* QueuedTask.Transition: an invalid transition leaves the status alone.
Transition(current, next) ==
    IF IsValidTransition(current, next) THEN next ELSE current

-----------------------------------------------------------------------------
\* The map tq.channels: ++ and the guarded -- that drops a key at 0.
Increment(c) == [channels EXCEPT ![c] = @ + 1]
DecrementDropsKey(c) == [channels EXCEPT ![c] = 0]   \* faulty variant
Decrement(c) == [channels EXCEPT ![c] = IF @ > 1 THEN @ - 1 ELSE 0]

\* Faulty variants: the waiting queue or the running map is looked at instead
\* of the counter.
ChannelHasWaitingTask(c) == \E i \in DOMAIN waiting : ChannelOf[waiting[i]] = c
ChannelHasRunningTask(c) == \E t \in running : ChannelOf[t] = c

ChannelHasActiveTask(c) == channels[c] > 0

ChannelBusy(c) == \E t \in running : ChannelOf[t] = c

\* Faulty variant: the limit is off by one.
EligibleAtLimit(i) == /\ Cardinality(running) <= MaxConcurrentTasks
                      /\ ~ChannelBusy(ChannelOf[waiting[i]])

\* The condition findNextEligibleLocked puts on the i-th waiting task.
Eligible(i) == /\ Cardinality(running) < MaxConcurrentTasks
               /\ ~ChannelBusy(ChannelOf[waiting[i]])

\* Faulty variant: the queue is not scanned in FIFO order.
AnyEligible(i) == Eligible(i)

\* findNextEligibleLocked returns the i-th waiting task.
FirstEligible(i) == /\ Eligible(i)
                    /\ \A j \in 1 .. (i - 1) : ~Eligible(j)

-----------------------------------------------------------------------------
Init == /\ waiting = <<>>
        /\ running = {}
        /\ channels = [c \in Channels |-> 0]
        /\ status = [t \in Tasks |-> "fresh"]
        /\ queuedTasks = 0
        /\ activeTasks = 0
        /\ pc = [g \in Callers |-> "idle"]
        /\ arg = [g \in Callers |-> NoTask]
        /\ entry = [t \in Tasks |-> "none"]
        /\ finishes = 0
        /\ misses = 0

\* NewQueuedTask followed by Enqueue.
Enqueue(g, t) ==
    /\ pc[g] = "idle"
    /\ status[t] = "fresh"
    /\ t \notin running
    /\ t \notin ToSet(waiting)
    /\ waiting' = Append(waiting, t)
    /\ channels' = Increment(ChannelOf[t])
    /\ status' = [status EXCEPT ![t] = "queued"]
    /\ queuedTasks' = queuedTasks + 1
    /\ UNCHANGED <<running, activeTasks, callVars, history>>

\* MarkRunning of the i-th waiting task.  The transition queued -> running is
\* not in the status machine; its error is ignored, so the status stays.
MarkRunning(g, i) ==
    LET t == waiting[i] IN
    /\ pc[g] = "idle"
    /\ waiting' = RemoveAt(waiting, i)
    /\ channels' = Decrement(ChannelOf[t])
    /\ running' = running \cup {t}
    /\ status' = [status EXCEPT ![t] = Transition(@, "running")]
    /\ activeTasks' = activeTasks + 1
    /\ queuedTasks' = queuedTasks - 1
    /\ entry' = [entry EXCEPT ![t] = "marked"]
    /\ UNCHANGED <<callVars, finishes, misses>>

\* MarkDispatched, when it returns true; otherwise it changes nothing.
MarkDispatched(g, t) ==
    /\ pc[g] = "idle"
    /\ t \in running
    /\ IsValidTransition(status[t], "running")
    /\ status' = [status EXCEPT ![t] = Transition(@, "running")]
    /\ UNCHANGED <<waiting, running, channels, gauges, callVars, history>>

\* MarkRunningDirect of a task that NewQueuedTask (status queued) or
\* ReconcileAfterRecovery (status running) has just created.  It looks at
\* neither limit.
MarkRunningDirect(g, t) ==
    /\ pc[g] = "idle"
    /\ status[t] = "fresh"
    /\ t \notin running
    /\ running' = running \cup {t}
    /\ channels' = Increment(ChannelOf[t])
    /\ status' = [status EXCEPT ![t] = "running"]
    /\ activeTasks' = activeTasks + 1
    /\ entry' = [entry EXCEPT ![t] = "direct"]
    /\ UNCHANGED <<waiting, queuedTasks, callVars, finishes, misses>>

\* MarkDone and MarkError have the same body; this is its first part, before
\* the lock.  The id need not be a running one: t may have finished already,
\* still wait, or be NoTask (findRunningTaskID found none).
MarkDone(g, t) ==
    /\ pc[g] = "idle"
    /\ t \in Tasks => status[t] # "fresh"
    /\ finishes < MaxFinishes
    /\ finishes' = finishes + 1
    /\ activeTasks' = activeTasks - 1
    /\ pc' = [pc EXCEPT ![g] = "unregister"]
    /\ arg' = [arg EXCEPT ![g] = t]
    /\ UNCHANGED <<queueVars, queuedTasks, entry, misses>>

\* Faulty variants: the task is deleted from the waiting queue as well, and
\* the channel counter is lowered at every end, first or repeated.
UnregisterEverywhere(g) ==
    /\ pc[g] = "unregister"
    /\ running' = running \ {arg[g]}
    /\ waiting' = SelectSeq(waiting, LAMBDA t : t # arg[g])
    /\ misses' = IF arg[g] \in running THEN misses ELSE misses + 1
    /\ pc' = [pc EXCEPT ![g] = "dequeue"]
    /\ arg' = [arg EXCEPT ![g] = NoTask]
    /\ UNCHANGED <<channels, status, gauges, entry, finishes>>

UnregisterAndRelease(g) ==
    /\ pc[g] = "unregister"
    /\ running' = running \ {arg[g]}
    /\ channels' = IF arg[g] \in Tasks
                   THEN [channels EXCEPT ![ChannelOf[arg[g]]] = @ - 1]
                   ELSE channels
    /\ misses' = IF arg[g] \in running THEN misses ELSE misses + 1
    /\ pc' = [pc EXCEPT ![g] = "dequeue"]
    /\ arg' = [arg EXCEPT ![g] = NoTask]
    /\ UNCHANGED <<waiting, status, gauges, entry, finishes>>

\* The delete under the lock.  The channel counter is not touched.
Unregister(g) ==
    /\ pc[g] = "unregister"
    /\ running' = running \ {arg[g]}
    /\ misses' = IF arg[g] \in running THEN misses ELSE misses + 1
    /\ pc' = [pc EXCEPT ![g] = "dequeue"]
    /\ arg' = [arg EXCEPT ![g] = NoTask]
    /\ UNCHANGED <<waiting, channels, status, gauges, entry, finishes>>

\* releaseTerminalTask under the lock.  Its one caller passes a task it has
\* registered with MarkRunningDirect; for an unknown id it does nothing.
ReleaseTerminalTask(g, t, isDone) ==
    /\ pc[g] = "idle"
    /\ entry[t] = "direct"
    /\ t \in running
    /\ running' = running \ {t}
    /\ channels' = Decrement(ChannelOf[t])
    /\ pc' = [pc EXCEPT ![g] = IF isDone THEN "uncountDone" ELSE "uncount"]
    /\ entry' = [entry EXCEPT ![t] = "released"]
    /\ UNCHANGED <<waiting, status, gauges, arg, finishes, misses>>

\* Faulty variants: the gauge is forgotten, or tryDequeue is.
ReleasedUncounted(g) ==
    /\ pc[g] \in {"uncount", "uncountDone"}
    /\ pc' = [pc EXCEPT ![g] = IF @ = "uncountDone" THEN "dequeue" ELSE "idle"]
    /\ UNCHANGED <<queueVars, gauges, arg, history>>

ReleasedNotDequeuing(g) ==
    /\ pc[g] \in {"uncount", "uncountDone"}
    /\ activeTasks' = activeTasks - 1
    /\ pc' = [pc EXCEPT ![g] = "idle"]
    /\ UNCHANGED <<queueVars, queuedTasks, arg, history>>

\* ... and its second part, after the lock.
UncountReleased(g) ==
    /\ pc[g] \in {"uncount", "uncountDone"}
    /\ activeTasks' = activeTasks - 1
    /\ pc' = [pc EXCEPT ![g] = IF @ = "uncountDone" THEN "dequeue" ELSE "idle"]
    /\ UNCHANGED <<queueVars, queuedTasks, arg, history>>

\* The locked part of tryDequeue when the i-th waiting task is chosen.
Dequeue(g, i) ==
    LET next == waiting[i] IN
    /\ pc[g] = "dequeue"
    /\ FirstEligible(i)
    /\ waiting' = RemoveAt(waiting, i)
    /\ channels' = Decrement(ChannelOf[next])
    /\ running' = running \cup {next}
    /\ status' = [status EXCEPT ![next] = Transition(@, "dispatching")]
    /\ queuedTasks' = queuedTasks - 1
    /\ activeTasks' = activeTasks + 1
    /\ pc' = [pc EXCEPT ![g] = "idle"]
    /\ entry' = [entry EXCEPT ![next] = "dequeued"]
    /\ UNCHANGED <<arg, finishes, misses>>

\* tryDequeue when findNextEligibleLocked returns nil.
DequeueNothing(g) ==
    /\ pc[g] = "dequeue"
    /\ \A i \in DOMAIN waiting : ~Eligible(i)
    /\ pc' = [pc EXCEPT ![g] = "idle"]
    /\ UNCHANGED <<queueVars, gauges, arg, history>>

TryDequeue(g) == \/ \E i \in DOMAIN waiting : Dequeue(g, i)
                 \/ DequeueNothing(g)

Next == \E g \in Callers :
            \/ \E t \in Tasks : Enqueue(g, t)
            \/ \E i \in DOMAIN waiting : MarkRunning(g, i)
            \/ \E t \in Tasks : MarkDispatched(g, t)
            \/ \E t \in Tasks : MarkRunningDirect(g, t)
            \/ \E t \in Tasks \cup {NoTask} : MarkDone(g, t)
            \/ Unregister(g)
            \/ \E t \in Tasks, isDone \in BOOLEAN : ReleaseTerminalTask(g, t, isDone)
            \/ UncountReleased(g)
            \/ TryDequeue(g)

Spec == Init /\ [][Next]_vars

-----------------------------------------------------------------------------
\* Properties.

\* The values of the variables.  The gauges may be negative: MarkDone and
\* MarkError decrement activeTasks before they know whether the task runs.
TypeOK == /\ waiting \in Seq(Tasks)
          /\ running \subseteq Tasks
          /\ channels \in [Channels -> Nat]
          /\ status \in [Tasks -> Statuses]
          /\ queuedTasks \in Int
          /\ activeTasks \in Int
          /\ pc \in [Callers -> Steps]
          /\ arg \in [Callers -> Tasks \cup {NoTask}]
          /\ entry \in [Tasks -> Entries]
          /\ finishes \in 0 .. MaxFinishes
          /\ misses \in Nat

WaitingIn(c) == {t \in ToSet(waiting) : ChannelOf[t] = c}
DirectIn(c)  == {t \in Tasks : entry[t] = "direct" /\ ChannelOf[t] = c}
At(s)        == {g \in Callers : pc[g] \in s}

\* tq.channels, which decides whether a mention is queued or executed, is the
\* number of the channel's waiting tasks plus the number of tasks that were
\* ever registered directly and not released: a direct task that finishes
\* through MarkDone or MarkError keeps its unit for good, and a dequeued task
\* that runs has none.
ChannelAccounting ==
    \A c \in Channels :
        channels[c] = Cardinality(WaitingIn(c)) + Cardinality(DirectIn(c))

\* Whatever the callers do, the two gauges drift from the queue only by calls
\* in flight and by MarkDone/MarkError of a task that does not run: the code
\* updates them at seven places, some before, some under and some after the
\* lock.
GaugesExact ==
    /\ queuedTasks = Len(waiting)
    /\ activeTasks = Cardinality(running) + Cardinality(At({"uncount", "uncountDone"}))
                         - Cardinality(At({"unregister"})) - misses

\* What remains of "enforces the global limit and the per-channel limit" when
\* the callers race: the tasks that tryDequeue has put in the running map
\* never exceed the limit and never share a channel.
Dequeued == {t \in running : entry[t] = "dequeued"}
DequeuedWithinLimits ==
    /\ Cardinality(Dequeued) <= MaxConcurrentTasks
    /\ \A t, u \in Dequeued : ChannelOf[t] = ChannelOf[u] => t = u

\* A call is under way that will end in tryDequeue.
DequeuePending == At({"unregister", "uncountDone", "dequeue"}) # {}

\* Completions keep the queue moving: as long as tasks wait and something
\* runs (or a tryDequeue is still to come), no step leaves tasks waiting with
\* nothing that will ever dequeue them, but for the release of a recovered
\* task that did not end in "done", which skips tryDequeue.
ReleaseWithoutDequeue == \E g \in Callers : pc[g] = "idle" /\ pc'[g] = "uncount"
Moving == running # {} \/ DequeuePending
CompletionKeepsQueueMoving ==
    [][ (waiting # <<>> /\ Moving) =>
            (waiting' = <<>> \/ Moving' \/ ReleaseWithoutDequeue) ]_vars

\* tryDequeue is fair between channels and FIFO within one: a task is passed
\* over by a dequeued one only while another task of its own channel runs.
PassedOver(t) == \E i, j \in DOMAIN waiting :
                    i < j /\ waiting[i] = t /\ status'[waiting[j]] = "dispatching"
OvertakenOnlyWhenBusy ==
    [][ \A t \in ToSet(waiting) : PassedOver(t) => ChannelBusy(ChannelOf[t]) ]_vars

\* Each task is accepted once, waits at most once, runs at most once and is
\* never lost: see TaskLifecycle.
phase == [t \in Tasks |-> IF t \in running THEN "running"
                          ELSE IF t \in ToSet(waiting) THEN "waiting"
                          ELSE IF status[t] = "fresh" THEN "new"
                          ELSE "gone"]
Lifecycle == INSTANCE TaskLifecycle WITH Tasks <- Tasks, phase <- phase
ImplementsLifecycle == Lifecycle!Spec
=============================================================================
