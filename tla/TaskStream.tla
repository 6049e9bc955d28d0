----------------------------- MODULE TaskStream -----------------------------
(***************************************************************************)
(* One execution of a task: StreamWorker reads the worker's output and     *)
(* pushes the events through a MessageThrottler, whose flush function is   *)
(* the gateway's stream callback (worker/stream_worker.go, throttler.go,   *)
(* cline_adapter.go, the callbacks of gateway/slack.go).                   *)
(*                                                                         *)
(* The reader is the goroutine of Execute.  With the Python worker it      *)
(* reads the lines itself; with Cline it waits for the process while the   *)
(* adapter's goroutine reads them, even after the process has ended.       *)
(* Start, done and error events go through at once; events of any other    *)
(* type wait in a buffer of one, emptied by a timer, by Flush or by Stop.  *)
(* A timer runs flush in a goroutine of its own, so callbacks of reader,   *)
(* adapter and timers run side by side.  A callback first updates the      *)
(* Slack card, then the record in the state store (MarkDone and MarkError  *)
(* follow; see Gateway).                                                   *)
(*                                                                         *)
(* Time is abstract: an armed timer may expire at any moment.  tool_call   *)
(* events and lines that do not parse change nothing and are left out.     *)
(***************************************************************************)
EXTENDS Integers, SequencesExt

CONSTANTS NoEvent,    \* an empty buffer
          MaxEvents   \* bound on the events the worker emits

Immediate  == {"start", "done", "error"}          \* throttler.go's immediateTypes
Bufferable == {"progress", "paused", "other"}     \* every other type, known or not
Final      == {"done", "error"}

\* The n-th event, those that the gateway makes up included; number 0 is an
\* error that is reported on the card only.
Events == [n : 0 .. MaxEvents, kind : Immediate \cup Bufferable]
Report == [n |-> 0, kind |-> "error"]

\* There is room for the start and the done event that executeCline makes up.
ASSUME StreamAssumption == MaxEvents \in Nat /\ MaxEvents >= 2 /\ NoEvent \notin Events

VARIABLES worker,     \* what is executed: Execute, ExecuteDispatch, executeCline
          output,     \* the kinds of the events so far
          reader,     \* where the reader is
          buffer,     \* t.buffer
          timer,      \* t.timer: nil, armed, or expired (flush not yet run)
          orphans,    \* armed timers that t.timer no longer refers to
          flushes,    \* goroutines of expired timers, not yet in the lock
          callbacks,  \* callbacks in progress: event, goroutine, next step
          persisted,  \* progressCache has an entry for the task
          card,       \* what the Slack card shows
          messages,   \* messages posted; ts.ts refers to the last one
          record,     \* Status of the record in the state store
          delivered,  \* history: the numbers of the events whose callback ran
          cutoff      \* history: the events that were read before the worker
                      \* was stopped or timed out, or the throttler stopped

throttler == <<buffer, timer, orphans, flushes>>
outside   == <<persisted, card, messages, record>>
history   == <<delivered, cutoff>>
vars      == <<worker, output, reader, throttler, callbacks, outside, history>>

Workers == {"python", "dispatch", "cline"}
Readers == {"announce", "reading", "waiting", "flush", "report", "stop", "stopFailed",
            "failed", "returned"}

\* BuildTaskCard makes a card of every known type; nothing more is done for an
\* event that has none.
HasCard(e) == e.kind # "other"

Callback(e, by) == [event |-> e, by |-> by, step |-> "show"]
Callbacks ==
    {c \in [event : Events, by : {"reader", "adapter", "timer"}, step : {"show", "post", "persist"}] :
        c.step # "show" => HasCard(c.event)}

\* The callback's calls of the buffered event, if there is one.
Taken(by) == IF buffer = NoEvent THEN {} ELSE {Callback(buffer, by)}

Free(goroutine) == \A c \in callbacks : c.by # goroutine

At(s) == reader = s /\ Free("reader")

-----------------------------------------------------------------------------
Init == /\ worker \in Workers
        /\ output = <<>>
        /\ reader = IF worker = "python" THEN "reading" ELSE "announce"
        /\ buffer = NoEvent
        /\ timer = "nil"
        /\ orphans = 0
        /\ flushes = 0
        /\ callbacks = {}
        /\ persisted = FALSE
        /\ card = "none"
        /\ messages = 0
        /\ record = "absent"
        /\ delivered = <<>>
        /\ cutoff = MaxEvents + 1

Stopped == reader \in {"failed", "returned"}

\* Faulty variant: the buffer keeps the event it has.
PushKeepsFirst(e, by) ==
    /\ buffer' = IF Stopped \/ buffer # NoEvent THEN buffer ELSE e
    /\ timer' = IF Stopped THEN timer ELSE "armed"
    /\ UNCHANGED <<orphans, flushes, callbacks>>

\* Push of an immediate event: the callback runs in the pushing goroutine.
PushNow(e, by) == /\ callbacks' = callbacks \cup {Callback(e, by)}
                  /\ UNCHANGED throttler

\* Push of a bufferable event: it replaces the buffered one, and the timer is
\* created or reset; resetting an expired one arms it once more.  After Stop,
\* which only Cline's adapter can outlive, it is dropped.
PushBuffered(e, by) ==
    /\ buffer' = IF Stopped THEN buffer ELSE e
    /\ timer' = IF Stopped THEN timer ELSE "armed"
    /\ UNCHANGED <<orphans, flushes, callbacks>>

\* The next event, pushed by the reader or the adapter.
Push(kind, by) ==
    LET e == [n |-> Len(output) + 1, kind |-> kind] IN
    /\ output' = Append(output, kind)
    /\ IF kind \in Immediate THEN PushNow(e, by) ELSE PushBuffered(e, by)

\* The start event that ExecuteDispatch and executeCline make up.
Announce == /\ At("announce")
            /\ Push("start", "reader")
            /\ reader' = IF worker = "cline" THEN "waiting" ELSE "reading"
            /\ UNCHANGED <<worker, outside, history>>

\* What a line may hold.  Workers emit start first and nothing after done or
\* error (worker.py); in a dispatch task it is the second start event.
NextLine(kind) ==
    /\ Len(output) < MaxEvents
    /\ kind = "start" <=> output \in {<<>>, <<"start">>} /\ (worker = "dispatch" <=> output # <<>>)
    /\ output # <<>> => Last(output) \notin Final

\* The reader takes a line.
ReadLine(kind) ==
    /\ At("reading")
    /\ NextLine(kind)
    /\ Push(kind, "reader")
    /\ UNCHANGED <<worker, reader, outside, history>>

\* parseLine's rules, by what a line mentions: the first that fits wins, so a
\* line with an error in it may count as a tool call or as the end.
Mentions == SUBSET {"tool", "completion", "error"}
ParseLine(mentions) == CASE "tool" \in mentions       -> "tool_call"
                         [] "completion" \in mentions -> "done"
                         [] "error" \in mentions      -> "error"
                         [] OTHER                     -> "progress"

\* Faulty variant: the adapter is started before the start event is sent.
AdapterLineEarly(mentions) ==
    /\ worker = "cline" /\ output # <<>>
    /\ Free("adapter")
    /\ Len(output) < MaxEvents - 1
    /\ ParseLine(mentions) # "tool_call"
    /\ Push(ParseLine(mentions), "adapter")
    /\ UNCHANGED <<worker, reader, outside, history>>

\* The adapter takes a line of Cline's text, which may say anything (very short
\* ones are skipped).  The last event is the reader's.
AdapterLine(mentions) ==
    /\ worker = "cline" /\ output # <<>>
    /\ Free("adapter") /\ \A c \in callbacks : c.event.n # 1
    /\ Len(output) < MaxEvents - 1
    /\ ParseLine(mentions) # "tool_call"
    /\ Push(ParseLine(mentions), "adapter")
    /\ UNCHANGED <<worker, reader, outside, history>>

\* At a line the reader finds the worker stopped or its context expired: that
\* line is lost, if there was an event in it.  Or the process could not be
\* started at all.
Interrupted ==
    /\ At("reading")
    /\ reader' = "stopFailed"
    /\ cutoff' = Len(output)
    /\ \/ UNCHANGED output
       \/ \E kind \in Immediate \cup Bufferable :
              NextLine(kind) /\ output' = Append(output, kind)
    /\ UNCHANGED <<worker, throttler, callbacks, outside, delivered>>

\* Cline cannot be started: nothing has been announced.
ClineStartFails == /\ worker = "cline" /\ At("announce")
                   /\ reader' = "failed"
                   /\ UNCHANGED <<worker, output, throttler, callbacks, outside, history>>

\* The output ends, or the scanner gives up (a line over 64 KiB); then the
\* reader waits for the process.
OutputEnds == /\ At("reading")
              /\ reader' = "waiting"
              /\ UNCHANGED <<worker, output, throttler, callbacks, outside, history>>

ScannerFails == /\ At("reading")
                /\ reader' = "waiting"
                /\ callbacks' = callbacks \cup {Callback(Report, "reader")}
                /\ UNCHANGED <<worker, output, throttler, outside, history>>

\* Cline's failure is reported at once, and by the caller again.
ProcessExits(ok) ==
    /\ At("waiting")
    /\ reader' = IF ok THEN "flush" ELSE "stopFailed"
    /\ IF worker = "cline" /\ ~ok
       THEN callbacks' = callbacks \cup {Callback(Report, "reader")}
       ELSE UNCHANGED callbacks
    /\ UNCHANGED <<worker, output, throttler, outside, history>>

\* Faulty variant: the buffer is flushed but not emptied.
EmptyKeepsBuffer == /\ callbacks' = callbacks \cup Taken("reader")
                    /\ timer' = "nil"
                    /\ UNCHANGED <<buffer, orphans, flushes>>

\* Flush, and the deferred Stop.  Both empty the buffer and stop the timer
\* that t.timer refers to; an expired one has its goroutine already.
Empty == /\ callbacks' = callbacks \cup Taken("reader")
         /\ buffer' = NoEvent
         /\ timer' = "nil"
         /\ UNCHANGED <<orphans, flushes>>

Flush == /\ At("flush")
         /\ reader' = IF worker = "cline" THEN "report" ELSE "stop"
         /\ Empty
         /\ UNCHANGED <<worker, output, outside, history>>

\* executeCline makes up a done event, whatever the adapter has reported.
ReportDone == /\ At("report")
              /\ Push("done", "reader")
              /\ reader' = "stop"
              /\ UNCHANGED <<worker, outside, history>>

\* The deferred Stop, whatever it does to the throttler.
Stopping == /\ At("stop") \/ At("stopFailed")
            /\ reader' = IF reader = "stop" THEN "returned" ELSE "failed"
            /\ cutoff' = IF cutoff <= MaxEvents THEN cutoff ELSE Len(output)
            /\ UNCHANGED <<worker, output, outside, delivered>>

\* Faulty variants: Stop drops the buffered event, or is not deferred at all.
StopDrops == /\ Stopping
             /\ buffer' = NoEvent
             /\ timer' = "nil"
             /\ UNCHANGED <<orphans, flushes, callbacks>>

StopForgotten == Stopping /\ UNCHANGED <<throttler, callbacks>>

Stop == Stopping /\ Empty

\* Execute has returned an error: its caller posts it on the card.
ReportError == /\ At("failed")
               /\ reader' = "returned"
               /\ callbacks' = callbacks \cup {Callback(Report, "reader")}
               /\ UNCHANGED <<worker, output, throttler, outside, history>>

-----------------------------------------------------------------------------
\* A timer expires: the runtime starts a goroutine for flush.
TimerExpires == /\ timer = "armed"
                /\ timer' = "expired"
                /\ flushes' = flushes + 1
                /\ UNCHANGED <<worker, output, reader, buffer, orphans, callbacks, outside, history>>

OrphanExpires == /\ orphans > 0
                 /\ orphans' = orphans - 1
                 /\ flushes' = flushes + 1
                 /\ UNCHANGED <<worker, output, reader, buffer, timer, callbacks, outside, history>>

\* Faulty variant: flush leaves the event of a reset timer to that timer, but
\* stops it.
TimerFlushYields == /\ flushes > 0
                    /\ flushes' = flushes - 1
                    /\ timer' = "nil"
                    /\ IF timer = "armed"
                       THEN UNCHANGED <<callbacks, buffer>>
                       ELSE callbacks' = callbacks \cup Taken("timer") /\ buffer' = NoEvent
                    /\ UNCHANGED <<worker, output, reader, orphans, outside, history>>

\* flush under the lock.  It forgets t.timer even if Push has armed it anew.
TimerFlush == /\ flushes > 0
              /\ flushes' = flushes - 1
              /\ orphans' = IF timer = "armed" THEN orphans + 1 ELSE orphans
              /\ timer' = "nil"
              /\ callbacks' = callbacks \cup Taken("timer")
              /\ buffer' = NoEvent
              /\ UNCHANGED <<worker, output, reader, outside, history>>

-----------------------------------------------------------------------------
\* The callback's first step: a start event is posted as a new message, any
\* other one updates the message, or is posted when there is none.  Posting
\* takes a while; ts.ts is written afterwards.  An error without an event has
\* no second step, nor has an event without a task id: the made-up ones, and
\* all of Cline's, as no request names its task.
RecordedAlways(e) == HasCard(e) /\ worker # "cline"   \* faulty variant
Recorded(e) == HasCard(e) /\ e.n > (IF worker = "dispatch" THEN 1 ELSE 0) /\ worker # "cline"

Posts(e) == HasCard(e) /\ (e.kind = "start" \/ messages = 0)

Displayed(c) ==
    /\ card' = IF HasCard(c.event) THEN c.event.kind ELSE card
    /\ delivered' = IF c.event.n = 0 THEN delivered ELSE Append(delivered, c.event.n)
    /\ callbacks' = (callbacks \ {c})
            \cup (IF Recorded(c.event) THEN {[c EXCEPT !.step = "persist"]} ELSE {})
    /\ UNCHANGED <<worker, output, reader, throttler, persisted, record, cutoff>>

Show(c) ==
    /\ c \in callbacks /\ c.step = "show"
    /\ IF Posts(c.event)
       THEN /\ callbacks' = (callbacks \ {c}) \cup {[c EXCEPT !.step = "post"]}
            /\ UNCHANGED <<worker, output, reader, throttler, outside, history>>
       ELSE Displayed(c) /\ UNCHANGED messages

Post(c) ==
    /\ c \in callbacks /\ c.step = "post"
    /\ messages' = messages + 1
    /\ Displayed(c)

\* Its second step.  A progress event is persisted when the task's last one
\* was ten seconds ago or there was none.
KindAsStatus(kind) == kind   \* faulty variant
StatusOf(kind) == IF kind \in {"start", "progress"} THEN "running" ELSE kind

Persist(c) ==
    /\ c \in callbacks /\ c.step = "persist"
    /\ callbacks' = callbacks \ {c}
    /\ IF c.event.kind = "progress"
       THEN /\ persisted' = TRUE
            /\ \/ record' = StatusOf("progress")
               \/ persisted /\ record' = record
       ELSE record' = StatusOf(c.event.kind) /\ UNCHANGED persisted
    /\ UNCHANGED <<worker, output, reader, throttler, card, messages, history>>

Next == \/ Announce
        \/ \E kind \in Immediate \cup Bufferable : ReadLine(kind)
        \/ \E mentions \in Mentions : AdapterLine(mentions)
        \/ Interrupted
        \/ ClineStartFails
        \/ OutputEnds
        \/ ScannerFails
        \/ \E ok \in BOOLEAN : ProcessExits(ok)
        \/ Flush
        \/ ReportDone
        \/ Stop
        \/ ReportError
        \/ TimerExpires
        \/ OrphanExpires
        \/ TimerFlush
        \/ \E c \in callbacks : Show(c)
        \/ \E c \in callbacks : Post(c)
        \/ \E c \in callbacks : Persist(c)

\* The goroutines keep running and the timers expire.  The worker's output
\* ends: after five (Cline: ten) minutes the context kills the process.
Fairness == /\ WF_vars(Announce)
            /\ WF_vars(OutputEnds)
            /\ WF_vars(\E ok \in BOOLEAN : ProcessExits(ok))
            /\ WF_vars(Flush)
            /\ WF_vars(ReportDone)
            /\ WF_vars(Stop)
            /\ WF_vars(ReportError)
            /\ WF_vars(TimerExpires)
            /\ WF_vars(TimerFlush)
            /\ WF_vars(\E c \in callbacks : Show(c) \/ Post(c) \/ Persist(c))

Spec == Init /\ [][Next]_vars /\ Fairness

-----------------------------------------------------------------------------
\* Properties.

TypeOK == /\ worker \in Workers
          /\ output \in Seq(Immediate \cup Bufferable)
          /\ reader \in Readers
          /\ buffer \in Events \cup {NoEvent}
          /\ timer \in {"nil", "armed", "expired"}
          /\ orphans \in Nat
          /\ flushes \in Nat
          /\ callbacks \subseteq Callbacks
          /\ persisted \in BOOLEAN
          /\ messages \in Nat
          /\ card \in {"none", "start", "progress", "paused", "done", "error"}
          /\ record \in {"absent", "running", "paused", "done", "error"}
          /\ delivered \in Seq(1 .. MaxEvents)
          /\ cutoff \in 0 .. MaxEvents + 1

\* Three ways to empty the buffer race (a timer, Flush, Stop), and a reset
\* timer may expire twice: still no event reaches the callback twice.
ShownOnce == IsInjective(delivered)

\* A task has one card, although callbacks of three goroutines look for its
\* message and post one if there is none; only a second start event (dispatch)
\* posts another one, and leaves the first behind.
Starts  == {n \in DOMAIN output : output[n] = "start"}
OneCard == messages <= IF Starts = {} THEN 1 ELSE Cardinality(Starts)

\* A buffered event always has a timer that will flush it, or the goroutine of
\* one.  A Push that resets a timer whose goroutine is about to forget it does
\* not strand its event.
BufferIsWatched ==
    buffer # NoEvent =>
        \/ timer = "armed" \/ orphans > 0 \/ flushes > 0

\* An event misses the channel if the reader discards its line, because the
\* worker was stopped or timed out, or if it would have to wait in a throttler
\* that has stopped.  Immediate events of Cline's get through even then.
Missed(n) == /\ n \in DOMAIN output /\ n > cutoff
             /\ worker = "cline" => output[n] \in Bufferable

\* An event may be replaced by a later one that gets into the buffer.
Superseded(n) == \E m \in DOMAIN output :
                    n < m /\ ~Missed(m) /\ {output[n], output[m]} \subseteq Bufferable

\* The debounce gives an update up only in favour of a newer one: the callback
\* runs for every event of the output, unless a bufferable event read after it
\* takes its place, or it misses the channel.  (The newer one may be of a type
\* that shows nothing, and a restart of the gateway cuts everything off.)
EveryUpdateDelivered ==
    \A n \in 1 .. MaxEvents :
        n \in DOMAIN output ~> (n \in ToSet(delivered) \/ Superseded(n) \/ Missed(n))

\* The same, step by step: an update that waits is given up only in the step
\* that brings its successor, is delivered once, and is dropped unheard only
\* when the channel is closed.
InHand(n)  == \/ buffer # NoEvent /\ buffer.n = n
              \/ \E c \in callbacks : c.event.n = n
PhaseOf(n) == IF n \notin DOMAIN output THEN "new"
              ELSE IF n \in ToSet(delivered) THEN "delivered"
              ELSE IF InHand(n) THEN "waiting"
              ELSE IF Missed(n) THEN "dropped" ELSE "replaced"

phase   == [n \in 1 .. MaxEvents |-> PhaseOf(n)]
Open    == cutoff > MaxEvents
Channel == INSTANCE UpdateChannel WITH Updates <- 1 .. MaxEvents, open <- Open
ImplementsChannel == Channel!Spec

\* When Execute has returned, the throttler is silent: what still comes was in
\* the hands of a timer's goroutine, and no new callback starts.  (Not so with
\* Cline, whose adapter nobody waits for.)
Returned == reader = "returned" /\ worker # "cline"
QuietAfterReturn ==
    [][ Returned => {c.event : c \in callbacks'} \subseteq {c.event : c \in callbacks} ]_vars

\* What the callback says it does at a done event: mark the task as done.
EndStays == [][ (record \in Final) => (record' = record) ]_vars

\* It does not, but nothing other than an update from before the end takes the
\* end back: no second start event, no error reported later, no second end.
EndUndoneByOlderUpdate ==
    [][ (record \in Final /\ record' # record) =>
            \E c \in callbacks \ callbacks' :
                c.event.kind \in Bufferable /\ c.event.n < Len(output) ]_vars
=============================================================================
