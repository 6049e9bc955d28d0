---------------------------- MODULE TaskRecords ----------------------------
(***************************************************************************)
(* The records of the state store (state/), through the life of several    *)
(* gateway processes: the stream callbacks and buttons that write them,    *)
(* Stop, crashes, and the recovery of the next process                     *)
(* (gateway/slack.go, gateway/recovery.go, interaction_handler.go).        *)
(*                                                                         *)
(* Records are written by Set with only some of their fields.  The two     *)
(* stores differ in what that does: SQLite replaces the record, the JSON   *)
(* store merges into it.  main uses SQLite.                                *)
(*                                                                         *)
(* A callback reads an event and later calls Set, as in TaskStream: the    *)
(* reader waits for the Set of a start, done or error event, while the Set *)
(* of a progress or paused event may come at any later time.  An event     *)
(* that the debounce drops, or that the ten seconds of progressCache keep  *)
(* from the store, writes nothing and counts as not read.                  *)
(***************************************************************************)
EXTENDS Naturals, FiniteSets

CONSTANTS Tasks,      \* task ids that workers put in their events
          Channels,
          ChannelOf,  \* the channel of each task's mention
          NoChannel   \* the empty string in a record's channel

ASSUME RecordsAssumption == /\ ChannelOf \in [Tasks -> Channels]
                            /\ NoChannel \notin Channels

VARIABLES store,    \* the StateManager in use, the same in every process
          records,  \* the stored record of each task
          phase,    \* of the process: down, recovering, serving, stopping
          exec,     \* the execution of each task (see Executions)
          pending,  \* events read whose Set is still to come: <<task, kind>>
          asked,    \* tasks whose review card is on Slack, with its buttons
          todo,     \* ListActive's result that recovery or Stop works through
          tracked,  \* still-running tasks recovery put in the task queue
          skipped   \* history: active tasks recovery gave up on

process == <<phase, exec, pending, todo, tracked, skipped>>
vars == <<store, records, asked, process>>

Immediate  == {"start", "done", "error"}
Bufferable == {"progress", "paused"}
Final      == {"done", "error"}
Statuses   == {"absent", "running", "paused", "resuming", "stopped", "interrupted"} \cup Final

\* "ended": nothing more will be read; "over": Execute has returned; "past": the
\* execution belonged to an earlier process.
Executions == {"new", "started", "ended", "over", "past"}

\* TaskRecord.  ChannelID and SlackTS are always written together.
Records == [channel : Channels \cup {NoChannel}, prompt : BOOLEAN, status : Statuses]
Absent  == [channel |-> NoChannel, prompt |-> FALSE, status |-> "absent"]

-----------------------------------------------------------------------------
\* The store.

\* Faulty variants of the JSON store's merge: a field is taken as it comes.
MergedWithoutChannel(old, rec) == [rec EXCEPT !.prompt = @ \/ old.prompt]

MergedWithoutPrompt(old, rec) ==
    [rec EXCEPT !.channel = IF @ = NoChannel THEN old.channel ELSE @]

Merged(old, rec) == [rec EXCEPT !.channel = IF @ = NoChannel THEN old.channel ELSE @,
                                !.prompt = @ \/ old.prompt]

Set(t, channel, prompt, status) ==
    LET rec == [channel |-> channel, prompt |-> prompt, status |-> status] IN
    records' = [records EXCEPT ![t] = IF store = "json" THEN Merged(@, rec) ELSE rec]

\* Set with TaskID and Status only.
SetStatus(t, status) == Set(t, NoChannel, FALSE, status)

\* Faulty variant: everything that is not done.
ListNotDone == {t \in Tasks : records[t].status \notin {"absent", "done"}}

ListActive == {t \in Tasks : records[t].status = "running"}

-----------------------------------------------------------------------------
Init == /\ store \in {"sqlite", "json"}
        /\ records = [t \in Tasks |-> Absent]
        /\ phase = "down"
        /\ exec = [t \in Tasks |-> "new"]
        /\ pending = {}
        /\ asked = {}
        /\ todo = {}
        /\ tracked = {}
        /\ skipped = {}

Alive == phase \in {"serving", "stopping"}

\* No execution blocks the event loop.
LoopFree == \A t \in Tasks : exec[t] \notin {"started", "ended"}

\* The task queue starts t only when no task is registered in its channel.
ChannelFree(c) == \A r \in tracked : r.channel # c

-----------------------------------------------------------------------------
\* The stream of an execution.  Executions nest, but only in ended ones.
\* StreamWorker.Stop makes the readers return at the next line.
ReadStart(t) ==
    /\ phase = "serving"
    /\ exec[t] = "new"
    /\ \A u \in Tasks : exec[u] # "started"
    /\ ChannelFree(ChannelOf[t])
    /\ exec' = [exec EXCEPT ![t] = "started"]
    /\ pending' = pending \cup {<<t, "start">>}
    /\ UNCHANGED <<store, records, phase, asked, todo, tracked, skipped>>

ReaderWaits(t) == \E kind \in Immediate : <<t, kind>> \in pending

ReadEvent(t, kind) ==
    /\ phase = "serving"
    /\ exec[t] = "started"
    /\ ~ReaderWaits(t)
    /\ kind \in Bufferable => \A k \in Bufferable : <<t, k>> \notin pending
    /\ pending' = pending \cup {<<t, kind>>}
    /\ exec' = IF kind \in Final THEN [exec EXCEPT ![t] = "ended"] ELSE exec
    /\ UNCHANGED <<store, records, phase, asked, todo, tracked, skipped>>

\* The scanner fails: no further event is read.
ScanError(t) ==
    /\ Alive
    /\ exec[t] = "started"
    /\ ~ReaderWaits(t)
    /\ exec' = [exec EXCEPT ![t] = "ended"]
    /\ UNCHANGED <<store, records, phase, pending, asked, todo, tracked, skipped>>

\* Faulty variant: the event's type is stored as the status.
WrittenKind(t, kind) == Set(t, ChannelOf[t], kind = "start", kind)

\* The callback's Set: only the start event knows the prompt, and a progress
\* event gives no channel either.
Written(t, kind) ==
    CASE kind = "start"    -> Set(t, ChannelOf[t], TRUE, "running")
      [] kind = "progress" -> SetStatus(t, "running")
      [] OTHER             -> Set(t, ChannelOf[t], FALSE, kind)

Persist(t, kind) ==
    /\ Alive
    /\ <<t, kind>> \in pending
    /\ pending' = pending \ {<<t, kind>>}
    /\ Written(t, kind)
    /\ asked' = IF kind = "paused" THEN asked \cup {t} ELSE asked
    /\ UNCHANGED <<store, phase, exec, todo, tracked, skipped>>

\* Execute returns, with an error or without: neither touches the record.
Return(t) ==
    /\ Alive
    /\ exec[t] \in {"started", "ended"}
    /\ ~ReaderWaits(t)
    /\ exec' = [exec EXCEPT ![t] = "over"]
    /\ UNCHANGED <<store, records, phase, pending, asked, todo, tracked, skipped>>

-----------------------------------------------------------------------------
\* Buttons, handled by the event loop.

\* handleStopTask marks a running record of the channel; it stops no process.
StopTask(t) ==
    /\ Alive /\ LoopFree
    /\ t \in ListActive
    /\ records[t].channel # NoChannel
    /\ SetStatus(t, "stopped")
    /\ UNCHANGED <<store, asked, process>>

\* Approve, push, or a submitted modal of any review card ever posted.
Resume(t) ==
    /\ Alive /\ LoopFree
    /\ t \in asked
    /\ SetStatus(t, "resuming")
    /\ UNCHANGED <<store, asked, process>>

-----------------------------------------------------------------------------
\* SlackGateway.Stop, when the connection fails for good: the workers are
\* told to stop, then the records of ListActive are marked one by one.
Stop ==
    /\ phase = "serving"
    /\ phase' = "stopping"
    /\ todo' = ListActive
    /\ UNCHANGED <<store, records, exec, pending, asked, tracked, skipped>>

MarkInterrupted(t) ==
    /\ phase = "stopping"
    /\ t \in todo
    /\ SetStatus(t, "interrupted")
    /\ todo' = todo \ {t}
    /\ UNCHANGED <<store, phase, exec, pending, asked, tracked, skipped>>

\* The process ends: it crashes, main returns after Stop, or main gives up
\* waiting for Stop.
Exit ==
    /\ phase # "down"
    /\ phase' = "down"
    /\ exec' = [t \in Tasks |-> IF exec[t] = "new" THEN "new" ELSE "past"]
    /\ pending' = {}
    /\ todo' = {} /\ tracked' = {} /\ skipped' = {}
    /\ UNCHANGED <<store, records, asked>>

-----------------------------------------------------------------------------
\* Startup: RecoverActiveTasks, ReconcileAfterRecovery, Start.
RecoverActiveTasks ==
    /\ phase = "down"
    /\ phase' = "recovering"
    /\ todo' = ListActive
    /\ UNCHANGED <<store, records, exec, pending, asked, tracked, skipped>>

\* Faulty variant: a task that still runs is not reported.
RecoverUntracked(t, status) ==
    /\ phase = "recovering"
    /\ t \in todo
    /\ Set(t, records[t].channel, FALSE, status)
    /\ todo' = todo \ {t}
    /\ UNCHANGED <<store, phase, exec, pending, asked, tracked, skipped>>

\* recoverSingle: the core's answer, or "error" if it has none.  A task that
\* still runs is registered under the channel of its record.
RecoverSingle(t, status) ==
    /\ phase = "recovering"
    /\ t \in todo
    /\ Set(t, records[t].channel, FALSE, status)
    /\ todo' = todo \ {t}
    /\ tracked' = IF status = "running"
                  THEN tracked \cup {[task |-> t, channel |-> records[t].channel]}
                  ELSE tracked
    /\ UNCHANGED <<store, phase, exec, pending, asked, skipped>>

\* Set returns an error: recovery goes on with the next task.
RecoverFails(t) ==
    /\ phase = "recovering"
    /\ t \in todo
    /\ todo' = todo \ {t}
    /\ skipped' = skipped \cup {t}
    /\ UNCHANGED <<store, records, phase, exec, pending, asked, tracked>>

\* All tasks are recovered, or the thirty seconds are over.
Start ==
    /\ phase = "recovering"
    /\ phase' = "serving"
    /\ skipped' = skipped \cup todo
    /\ todo' = {}
    /\ UNCHANGED <<store, records, exec, pending, asked, tracked>>

Next == \/ \E t \in Tasks : ReadStart(t)
        \/ \E t \in Tasks, kind \in Final \cup Bufferable : ReadEvent(t, kind)
        \/ \E t \in Tasks, kind \in Immediate \cup Bufferable : Persist(t, kind)
        \/ \E t \in Tasks : ScanError(t)
        \/ \E t \in Tasks : Return(t)
        \/ \E t \in Tasks : StopTask(t)
        \/ \E t \in Tasks : Resume(t)
        \/ Stop
        \/ \E t \in Tasks : MarkInterrupted(t)
        \/ Exit
        \/ RecoverActiveTasks
        \/ \E t \in Tasks, status \in {"running"} \cup Final : RecoverSingle(t, status)
        \/ \E t \in Tasks : RecoverFails(t)
        \/ Start

Spec == Init /\ [][Next]_vars

-----------------------------------------------------------------------------
\* Properties.

TypeOK == /\ store \in {"sqlite", "json"}
          /\ records \in [Tasks -> Records]
          /\ phase \in {"down", "recovering", "serving", "stopping"}
          /\ exec \in [Tasks -> Executions]
          /\ pending \subseteq Tasks \X (Immediate \cup Bufferable)
          /\ asked \subseteq Tasks
          /\ todo \subseteq Tasks
          /\ tracked \subseteq [task : Tasks, channel : Channels \cup {NoChannel}]
          /\ skipped \subseteq Tasks

\* Whatever crashed where, a process that recovers or serves accounts for
\* every record that says running: recovery has yet to check it, has put it
\* in the queue or has given up on it, or this process has executed it.
Accounted == todo \cup {r.task : r \in tracked} \cup skipped
                  \cup {t \in Tasks : exec[t] \in {"started", "ended", "over"}}
RunningAccounted ==
    phase \in {"recovering", "serving"} => ListActive \subseteq Accounted

\* An end, once recorded, is taken back only by an update of the execution
\* that was still buffered, by Stop's older list, or by a click on an old
\* review card; no recovery and no stop button does it.
TakenBackBy(t, status) ==
    \/ status = "running"     /\ <<t, "progress">> \in pending /\ Alive
    \/ status = "paused"      /\ <<t, "paused">> \in pending /\ Alive
    \/ status = "interrupted" /\ t \in todo /\ phase = "stopping"
    \/ status = "resuming"    /\ t \in asked /\ Alive
EndsStay ==
    [][ \A t \in Tasks :
            (records[t].status \in Final /\ records'[t] # records[t])
                => TakenBackBy(t, records'[t].status) ]_vars

\* While a task of the last process still runs, no other is executed in its
\* channel: "still-running tasks are tracked so new requests don't bypass
\* them" (main.go).
NotBypassed ==
    \A r \in tracked, t \in Tasks :
        exec[t] = "started" => ChannelOf[r.task] # ChannelOf[t]

\* The JSON store keeps that promise, through any number of crashes.
JsonNotBypassed == store = "json" => NotBypassed

\* A record always knows what handleRetryTask and recovery need of it.
Complete(rec) == rec.status # "absent" => rec.channel # NoChannel /\ rec.prompt
JsonComplete == store = "json" => \A t \in Tasks : Complete(records[t])
=============================================================================
