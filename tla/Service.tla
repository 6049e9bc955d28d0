------------------------------- MODULE Service -------------------------------
(***************************************************************************)
(* The process around the tasks: main (main.go), the goroutine of          *)
(* SlackGateway.Start with Stop at its end, the event loop, and the        *)
(* monitor of the connection (gateway/slack.go).                           *)
(*                                                                         *)
(* Socket Mode (external) keeps the link to Slack and puts what happens    *)
(* into one channel of events, the inbox: changes of the link as well as   *)
(* envelopes with mentions and clicks.  The loop takes one event at a      *)
(* time and blocks in its handler, for minutes if that executes a task.    *)
(* Slack (external) delivers an envelope again until it is acknowledged,   *)
(* which the loop does when it takes the envelope.                         *)
(*                                                                         *)
(* What handlers do is the subject of Gateway, TaskStream and Review; what *)
(* Stop writes is that of TaskRecords.                                     *)
(***************************************************************************)
EXTENDS Integers, SequencesExt

CONSTANTS Envelopes,      \* mentions and clicks
          MaxInbox,       \* capacity of the channel of events
          MaxDeliveries,  \* bound on the deliveries of an envelope
          MaxFaults,      \* bound on failed attempts and lost links
          MaxStreak       \* the monitor's count is not followed further

LinkEvents == {"connecting", "connected", "connectionError", "incomingError"}

ASSUME ServiceAssumption == /\ {MaxInbox, MaxDeliveries, MaxFaults, MaxStreak} \subseteq Nat \ {0}
                            /\ Envelopes \cap LinkEvents = {}

VARIABLES signalled,  \* ctx of main is done
          main,       \* where main is
          waiter,     \* phase 1's goroutine that waits for errCh
          timedOut,   \* phase 1 has run out of time
          store,      \* the state store: open or closed
          start,      \* where the goroutine of Start is
          errCh,      \* what Start returned: nothing yet, sent, taken
          cancelled,  \* stopCtx is cancelled
          marked,     \* Stop has marked the running records
          loop,       \* the event loop: none, idle, busy, dead
          inbox,      \* events not yet taken
          link,       \* the connection as Socket Mode knows it
          faults,     \* failed attempts and lost links so far
          sent,       \* deliveries of each envelope
          acked,      \* envelopes acknowledged and handled
          connected,  \* g.connected
          monitor,    \* the monitor's goroutine: none, ticking, ended
          streak      \* its unhealthy checks in a row, up to MaxStreak

mainVars    == <<signalled, main, waiter, timedOut, store>>
startVars   == <<start, errCh, cancelled, marked>>
linkVars    == <<link, faults, sent>>
loopVars    == <<loop, acked, connected>>
monitorVars == <<monitor, streak>>
vars == <<mainVars, startVars, linkVars, loopVars, monitorVars, inbox>>

\* The process exists.
Up == main \notin {"exited", "crashed", "killed"}

-----------------------------------------------------------------------------
Init == /\ signalled = FALSE
        /\ main = "starting"
        /\ waiter = "none"
        /\ timedOut = FALSE
        /\ store = "open"
        /\ start = "none"
        /\ errCh = "nothing"
        /\ cancelled = FALSE
        /\ marked = FALSE
        /\ loop = "none"
        /\ inbox = <<>>
        /\ link = "down"
        /\ faults = 0
        /\ sent = [e \in Envelopes |-> 0]
        /\ acked = {}
        /\ connected = FALSE
        /\ monitor = "none"
        /\ streak = 0

-----------------------------------------------------------------------------
\* main.

Signal == /\ Up /\ ~signalled
          /\ signalled' = TRUE
          /\ UNCHANGED <<main, waiter, timedOut, store, startVars, linkVars, loopVars,
                         monitorVars, inbox>>

\* Recovery and its reconciliation are over (see TaskRecords, Gateway); a
\* goroutine calls g.Start.  That need not happen: recovery looks at its
\* context between two tasks only, and the process that it asks for a task's
\* status (CheckStatus) has neither a context nor a time limit.
GoStart == /\ main = "starting"
           /\ main' = "selecting"
           /\ start' = "launched"
           /\ UNCHANGED <<signalled, waiter, timedOut, store, errCh, cancelled, marked,
                          linkVars, loopVars, monitorVars, inbox>>

\* The select: whichever is ready.  Start is not told of the signal.
SignalSeen == /\ main = "selecting"
              /\ signalled
              /\ main' = "phase1"
              /\ waiter' = "waiting"
              /\ UNCHANGED <<signalled, timedOut, store, startVars, linkVars, loopVars,
                             monitorVars, inbox>>

GatewayExited == /\ main = "selecting"
                 /\ errCh = "sent"
                 /\ errCh' = "taken"
                 /\ main' = "leaving"
                 /\ UNCHANGED <<signalled, waiter, timedOut, store, start, cancelled, marked,
                                linkVars, loopVars, monitorVars, inbox>>

WaiterReceives == /\ Up
                  /\ waiter = "waiting"
                  /\ errCh = "sent"
                  /\ errCh' = "taken"
                  /\ waiter' = "done"
                  /\ UNCHANGED <<signalled, main, timedOut, store, start, cancelled, marked,
                                 linkVars, loopVars, monitorVars, inbox>>

\* Faulty variant: the goroutine's end is not waited for.
Phase1Skipped == /\ main = "phase1"
                 /\ main' = "phase2"
                 /\ UNCHANGED <<signalled, waiter, timedOut, store, startVars,
                                linkVars, loopVars, monitorVars, inbox>>

Phase1Complete == /\ main = "phase1"
                  /\ waiter = "done"
                  /\ main' = "phase2"
                  /\ UNCHANGED <<signalled, waiter, timedOut, store, startVars,
                                 linkVars, loopVars, monitorVars, inbox>>

\* Faulty variant: phase 1 has no time limit.
Phase1Unlimited == Phase1Complete

\* Ten seconds have passed.
Phase1TimesOut == /\ main = "phase1"
                  /\ timedOut' = TRUE
                  /\ main' = "phase2"
                  /\ UNCHANGED <<signalled, waiter, store, startVars,
                                 linkVars, loopVars, monitorVars, inbox>>

Phase2 == /\ main = "phase2"
          /\ store' = "closed"
          /\ main' = "leaving"
          /\ UNCHANGED <<signalled, waiter, timedOut, startVars, linkVars, loopVars,
                         monitorVars, inbox>>

\* The deferred Close, once more after phase 2, and the end of the process.
Leave == /\ main = "leaving"
         /\ store' = "closed"
         /\ main' = "exited"
         /\ UNCHANGED <<signalled, waiter, timedOut, startVars, linkVars, loopVars,
                        monitorVars, inbox>>

\* stop-gateway.sh waits for two seconds after its signal and then kills.
Killed == /\ Up /\ signalled
          /\ main' = "killed"
          /\ UNCHANGED <<signalled, waiter, timedOut, store, startVars, linkVars, loopVars,
                         monitorVars, inbox>>

-----------------------------------------------------------------------------
\* The goroutine of Start, which ignores its context.

StartServing == /\ Up /\ start = "launched"
                /\ start' = "running"
                /\ loop' = "idle"
                /\ monitor' = "ticking"
                /\ UNCHANGED <<mainVars, errCh, cancelled, marked, linkVars, acked, connected,
                               streak, inbox>>

\* RunContext returns once its context, stopCtx, is cancelled, or with an
\* error that no new connection would cure.
RunContextReturns == /\ Up /\ start = "running"
                     /\ start' = "stop"
                     /\ link' = "closed"
                     /\ UNCHANGED <<mainVars, errCh, cancelled, marked, faults, sent, loopVars,
                                    monitorVars, inbox>>

\* Stop: cancel stopCtx, ...
StopCancels == /\ Up /\ start = "stop"
               /\ cancelled' = TRUE
               /\ start' = "drain"
               /\ UNCHANGED <<mainVars, errCh, marked, linkVars, loopVars, monitorVars, inbox>>

\* ... stop both workers (PythonWorker.Stop may panic, see Review, and nothing
\* recovers in this goroutine), ...
StopDrains(ok) == /\ Up /\ start = "drain"
                  /\ IF ok THEN start' = "mark" /\ UNCHANGED main
                           ELSE main' = "crashed" /\ UNCHANGED start
                  /\ UNCHANGED <<signalled, waiter, timedOut, store, errCh, cancelled, marked,
                                 linkVars, loopVars, monitorVars, inbox>>

\* ... and mark the running records, which fails when the store is closed.
\* Then Start returns, and its goroutine sends the error.
StopMarks == /\ Up /\ start = "mark"
             /\ marked' = (store = "open")
             /\ errCh' = "sent"
             /\ start' = "returned"
             /\ UNCHANGED <<mainVars, cancelled, linkVars, loopVars, monitorVars, inbox>>

-----------------------------------------------------------------------------
\* Socket Mode and Slack (external).

Emit(e) == /\ Len(inbox) < MaxInbox
           /\ inbox' = Append(inbox, e)

LinkChanges(from, to, event) ==
    /\ Up /\ start = "running"
    /\ link = from
    /\ link' = to
    /\ Emit(event)
    /\ UNCHANGED <<mainVars, startVars, sent, loopVars, monitorVars>>

Connect     == LinkChanges("down", "trying", "connecting") /\ UNCHANGED faults
Established == LinkChanges("trying", "up", "connected") /\ UNCHANGED faults
Fault       == faults < MaxFaults /\ faults' = faults + 1
AttemptFails == LinkChanges("trying", "down", "connectionError") /\ Fault
LinkLost     == LinkChanges("up", "down", "incomingError") /\ Fault

\* An envelope comes, or comes again.
Deliver(e) == /\ Up /\ link = "up"
              /\ e \notin acked
              /\ sent[e] < MaxDeliveries
              /\ sent' = [sent EXCEPT ![e] = @ + 1]
              /\ Emit(e)
              /\ UNCHANGED <<mainVars, startVars, link, faults, loopVars, monitorVars>>

-----------------------------------------------------------------------------
\* The event loop.

\* Faulty variant: an incoming error is only logged.
SetConnectedButIncoming(e) ==
    connected' = (e = "connected" \/ (e = "incomingError" /\ connected))

\* setConnected.  The loop sets the connection metrics as well: a gauge equal
\* to connected, and a counter of disconnections.
SetConnected(e) == connected' = (e = "connected")

Take(e) == /\ Up /\ loop = "idle"
           /\ inbox # <<>> /\ Head(inbox) = e
           /\ inbox' = Tail(inbox)

\* Faulty variant: after an incoming error what is left in the channel is
\* taken for stale.
HandleLinkEventDrains(e) ==
    /\ Up /\ loop = "idle"
    /\ inbox # <<>> /\ Head(inbox) = e
    /\ inbox' = IF e = "incomingError" THEN <<>> ELSE Tail(inbox)
    /\ SetConnected(e)
    /\ UNCHANGED <<mainVars, startVars, linkVars, loop, acked, monitorVars>>

HandleLinkEvent(e) == /\ Take(e)
                      /\ SetConnected(e)
                      /\ UNCHANGED <<mainVars, startVars, linkVars, loop, acked, monitorVars>>

\* handleEvent and handleInteractiveCallback: acknowledge, then handle.
HandleEnvelope(e) == /\ Take(e)
                     /\ acked' = acked \cup {e}
                     /\ loop' = "busy"
                     /\ UNCHANGED <<mainVars, startVars, linkVars, connected, monitorVars>>

\* The handler returns: at once, or when every execution inside it has (see
\* Gateway's LoopComesBack).
HandlerReturns == /\ Up /\ loop = "busy"
                  /\ loop' = "idle"
                  /\ UNCHANGED <<mainVars, startVars, linkVars, acked, connected, monitorVars, inbox>>

\* The loop's goroutine recovers from a panic of a handler, and ends.
HandlerPanics == /\ Up /\ loop = "busy"
                 /\ loop' = "dead"
                 /\ UNCHANGED <<mainVars, startVars, linkVars, acked, connected, monitorVars, inbox>>

-----------------------------------------------------------------------------
\* monitorConnectionHealth, every ten seconds.

\* Faulty variants: a healthy check takes one back, or does not end the streak.
CheckTakesBack == /\ Up /\ monitor = "ticking"
                  /\ streak' = IF connected THEN streak - 1
                               ELSE IF streak < MaxStreak THEN streak + 1 ELSE streak
                  /\ UNCHANGED <<mainVars, startVars, linkVars, loopVars, monitor, inbox>>

CheckNeverResets == /\ Up /\ monitor = "ticking"
                    /\ ~connected
                    /\ streak' = IF streak < MaxStreak THEN streak + 1 ELSE streak
                    /\ UNCHANGED <<mainVars, startVars, linkVars, loopVars, monitor, inbox>>

Check == /\ Up /\ monitor = "ticking"
         /\ streak' = IF connected THEN 0
                      ELSE IF streak < MaxStreak THEN streak + 1 ELSE streak
         /\ UNCHANGED <<mainVars, startVars, linkVars, loopVars, monitor, inbox>>

MonitorEnds == /\ Up /\ monitor = "ticking"
               /\ cancelled
               /\ monitor' = "ended"
               /\ UNCHANGED <<mainVars, startVars, linkVars, loopVars, streak, inbox>>

-----------------------------------------------------------------------------
Main == \/ SignalSeen
        \/ GatewayExited
        \/ Phase1Complete
        \/ Phase1TimesOut
        \/ Phase2
        \/ Leave

Stop == StopCancels \/ (\E ok \in BOOLEAN : StopDrains(ok)) \/ StopMarks

Loop == \/ \E e \in LinkEvents : HandleLinkEvent(e)
        \/ \E e \in Envelopes : HandleEnvelope(e)
        \/ HandlerReturns

Next == \/ Signal
        \/ Killed
        \/ GoStart
        \/ Main
        \/ WaiterReceives
        \/ StartServing
        \/ RunContextReturns
        \/ Stop
        \/ Connect
        \/ Established
        \/ AttemptFails
        \/ LinkLost
        \/ \E e \in Envelopes : Deliver(e)
        \/ Loop
        \/ HandlerPanics
        \/ Check
        \/ MonitorEnds

\* Goroutines keep running, timers fire, and every handler returns or panics.
\* RunContext returns when stopCtx is cancelled.  Nothing else outside the
\* process has to happen, so recovery need not end (GoStart).
Fairness == /\ WF_vars(Main)
            /\ WF_vars(WaiterReceives)
            /\ WF_vars(StartServing)
            /\ WF_vars(cancelled /\ RunContextReturns)
            /\ WF_vars(Stop)
            /\ WF_vars(Loop)
            /\ WF_vars(Check)
            /\ WF_vars(MonitorEnds)

Spec == Init /\ [][Next]_vars /\ Fairness

-----------------------------------------------------------------------------
\* Properties.

TypeOK == /\ {signalled, timedOut, cancelled, marked, connected} \subseteq BOOLEAN
          /\ main \in {"starting", "selecting", "phase1", "phase2", "leaving",
                       "exited", "crashed", "killed"}
          /\ waiter \in {"none", "waiting", "done"}
          /\ store \in {"open", "closed"}
          /\ start \in {"none", "launched", "running", "stop", "drain", "mark", "returned"}
          /\ errCh \in {"nothing", "sent", "taken"}
          /\ loop \in {"none", "idle", "busy", "dead"}
          /\ inbox \in Seq(LinkEvents \cup Envelopes) /\ Len(inbox) <= MaxInbox
          /\ link \in {"down", "trying", "up", "closed"}
          /\ faults \in 0 .. MaxFaults
          /\ sent \in [Envelopes -> 0 .. MaxDeliveries]
          /\ acked \subseteq Envelopes
          /\ monitor \in {"none", "ticking", "ended"}
          /\ streak \in 0 .. MaxStreak

\* Main, its waiter, its timer and the goroutine of Start race for the end of
\* the process.  The store is closed only after Stop has marked the running
\* records as interrupted, unless phase 1 ran out of time.
ClosedAfterMarking == store = "closed" => marked \/ timedOut

\* What the link does reaches the rest of the gateway through the inbox, in
\* order: g.connected differs from the link only by events that still wait,
\* however long a handler blocks the loop.
LastLinkEvent(i) == /\ inbox[i] \in LinkEvents
                    /\ \A j \in DOMAIN inbox : inbox[j] \in LinkEvents => j <= i
ConnectedLagsInbox ==
    start = "running" =>
        /\ ToSet(inbox) \cap LinkEvents = {} => (connected <=> link = "up")
        /\ \A i \in DOMAIN inbox : LastLinkEvent(i) => (inbox[i] = "connected" <=> link = "up")

\* Once recovery is over, a signal ends the process, whatever the workers and
\* the loop do, if it comes then or came before.  (During recovery it may have
\* no effect at all: main has caught it and waits for CheckStatus.)
Recovered == main # "starting"
SignalEndsProcess == (signalled /\ Recovered) ~> ~Up

\* A delivered envelope is handled in the end, unless the loop died or the
\* process ended: the loop's blocking delays envelopes but loses none.
EnvelopesHandled ==
    \A e \in Envelopes : sent[e] > 0 ~> (e \in acked \/ loop = "dead" \/ ~Up)

\* The monitor's alarm is not for ever: once the link stays up, its streak
\* ends, though it reads a value that the blocked loop updates late.
Serving == link = "up" /\ monitor = "ticking" /\ loop # "dead" /\ Up
AlarmEnds == <>[]Serving => <>[](streak = 0)

\* main.go, at the signal: "Gateway's Start will call Stop() when ctx is
\* cancelled."
SignalStops == (signalled /\ Recovered) ~> (start = "returned" \/ main \in {"crashed", "killed"})
=============================================================================
