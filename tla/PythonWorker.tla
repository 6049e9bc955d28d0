---------------------------- MODULE PythonWorker ----------------------------
(***************************************************************************)
(* worker/python_worker.go: Execute, called by any number of goroutines    *)
(* (each decision of a reviewer starts one), and Stop, called once when    *)
(* the gateway stops.  They share the fields cmd and stopped without a     *)
(* lock, so each access of a field is a step of its own.                   *)
(*                                                                         *)
(* An execution stands for its goroutine, its exec.Cmd and the channel it  *)
(* makes.  A process may run for ever: Execute has no timeout.             *)
(***************************************************************************)
CONSTANTS Executions,
          None          \* cmd = nil, and the channel of NewPythonWorker

ASSUME WorkerAssumption == None \notin Executions

VARIABLES step,      \* what each execution has done
          process,   \* its process: none, running, signalled, exited
          channel,   \* the channel its select waits for
          cmd,       \* w.cmd
          stopped,   \* w.stopped, by the execution that made it
          closed,    \* the channels that are closed
          stopper,   \* what Stop has done
          before,    \* history: channels already closed when it began
          overlap,   \* history: executions that another one has overlapped
          ready      \* history: executions that waited when Stop was called

shared  == <<cmd, stopped, closed>>
history == <<before, overlap, ready>>
wvars   == <<step, process, channel, shared, stopper, history>>

Steps == {"new", "cmdSet", "made", "started", "waiting", "failed", "done", "killed"}
Over  == {"failed", "done", "killed"}
Stops == {"idle", "process", "signal", "select", "close", "done", "panicked"}

InProgress == {i \in Executions : step[i] \notin {"new"} \cup Over}
Running    == {i \in Executions : process[i] \in {"running", "signalled"}}

WInit == /\ step = [i \in Executions |-> "new"]
         /\ process = [i \in Executions |-> "none"]
         /\ channel = [i \in Executions |-> None]
         /\ cmd = None
         /\ stopped = None
         /\ closed = {}
         /\ stopper = "idle"
         /\ before = [i \in Executions |-> {}]
         /\ overlap = {}
         /\ ready = {}

\* A panic of Stop ends the gateway.
Up == stopper # "panicked"

Goto(i, from, to) == /\ Up
                     /\ step[i] = from
                     /\ step' = [step EXCEPT ![i] = to]

-----------------------------------------------------------------------------
\* Execute: w.cmd = cmd; w.stopped = make(...); cmd.Start(); select.
Begin(i) ==
    /\ Goto(i, "new", "cmdSet")
    /\ cmd' = i
    /\ before' = [before EXCEPT ![i] = closed]
    /\ overlap' = IF InProgress = {} THEN overlap ELSE overlap \cup InProgress \cup {i}
    /\ UNCHANGED <<process, channel, stopped, closed, stopper, ready>>

\* Faulty variant: the channel is made once for all executions.
KeepChannel(i) ==
    /\ Goto(i, "cmdSet", "made")
    /\ UNCHANGED <<process, channel, shared, stopper, history>>

MakeChannel(i) ==
    /\ Goto(i, "cmdSet", "made")
    /\ stopped' = i
    /\ UNCHANGED <<process, channel, cmd, closed, stopper, history>>

StartProcess(i) ==
    /\ Goto(i, "made", "started")
    /\ process' = [process EXCEPT ![i] = "running"]
    /\ UNCHANGED <<channel, shared, stopper, history>>

StartFails(i) ==
    /\ Goto(i, "made", "failed")
    /\ cmd' = None
    /\ UNCHANGED <<process, channel, stopped, closed, stopper, history>>

Select(i) ==
    /\ Goto(i, "started", "waiting")
    /\ channel' = [channel EXCEPT ![i] = stopped]
    /\ UNCHANGED <<process, shared, stopper, history>>

ProcessExits(i) ==
    /\ Up
    /\ i \in Running
    /\ process' = [process EXCEPT ![i] = "exited"]
    /\ UNCHANGED <<step, channel, shared, stopper, history>>

\* Faulty variant: w.cmd is not cleared.
DoneKeepsCmd(i) ==
    /\ Goto(i, "waiting", "done")
    /\ process[i] = "exited"
    /\ UNCHANGED <<process, channel, shared, stopper, history>>

\* The two cases of the select.  Both clear w.cmd, whosever it is.
Done(i) ==
    /\ Goto(i, "waiting", "done")
    /\ process[i] = "exited"
    /\ cmd' = None
    /\ UNCHANGED <<process, channel, stopped, closed, stopper, history>>

Killed(i) ==
    /\ Goto(i, "waiting", "killed")
    /\ channel[i] \in closed
    /\ cmd' = None
    /\ process' = [process EXCEPT ![i] = "exited"]
    /\ UNCHANGED <<channel, stopped, closed, stopper, history>>

-----------------------------------------------------------------------------
\* Stop reads w.cmd anew for each of w.cmd != nil, w.cmd.Process != nil and
\* the signal, and w.stopped for the check and for the close.
StopLooks ==
    /\ stopper = "idle"
    /\ stopper' = IF cmd = None THEN "select" ELSE "process"
    /\ ready' = {i \in Executions : step[i] = "waiting"}
    /\ UNCHANGED <<step, process, channel, shared, before, overlap>>

HasProcess(i) == process[i] # "none"

StopLooksAgain ==
    /\ stopper = "process"
    /\ stopper' = IF cmd = None THEN "panicked"
                  ELSE IF HasProcess(cmd) THEN "signal" ELSE "select"
    /\ UNCHANGED <<step, process, channel, shared, history>>

StopSignals ==
    /\ stopper = "signal"
    /\ IF cmd # None /\ HasProcess(cmd)
       THEN /\ stopper' = "select"
            /\ process' = IF cmd \in Running THEN [process EXCEPT ![cmd] = "signalled"]
                                             ELSE process
       ELSE stopper' = "panicked" /\ UNCHANGED process
    /\ UNCHANGED <<step, channel, shared, history>>

StopChecks ==
    /\ stopper = "select"
    /\ stopper' = IF stopped \in closed THEN "done" ELSE "close"
    /\ UNCHANGED <<step, process, channel, shared, history>>

\* Faulty variant: the channel is not closed.
StopSignalsOnly ==
    /\ stopper = "close"
    /\ stopper' = "done"
    /\ UNCHANGED <<step, process, channel, shared, history>>

StopCloses ==
    /\ stopper = "close"
    /\ stopper' = "done"
    /\ closed' = closed \cup {stopped}
    /\ UNCHANGED <<step, process, channel, cmd, stopped, history>>

ExecuteStep(i) == \/ MakeChannel(i)
                  \/ StartProcess(i)
                  \/ StartFails(i)
                  \/ Select(i)
                  \/ ProcessExits(i)
                  \/ Done(i)
                  \/ Killed(i)

Stop == \/ StopLooks
        \/ StopLooksAgain
        \/ StopSignals
        \/ StopChecks
        \/ StopCloses

-----------------------------------------------------------------------------
\* Properties.

WTypeOK == /\ step \in [Executions -> Steps]
           /\ process \in [Executions -> {"none", "running", "signalled", "exited"}]
           /\ channel \in [Executions -> Executions \cup {None}]
           /\ cmd \in Executions \cup {None}
           /\ stopped \in Executions \cup {None}
           /\ closed \subseteq Executions \cup {None}
           /\ stopper \in Stops
           /\ before \in [Executions -> SUBSET (Executions \cup {None})]
           /\ overlap \subseteq Executions
           /\ ready \subseteq Executions

\* However executions overlap, w.cmd is never the command of one that has
\* returned, so Stop signals the process of an execution in progress.
CmdIsLive == cmd # None => cmd \in InProgress

\* An execution is killed only by a Stop that ran during it ("Reset stopped
\* channel for this execution"), although it may wait for the channel that
\* another execution has made.
KilledOnlyByLaterStop ==
    \A i \in Executions : step[i] = "killed" => channel[i] \notin before[i]

\* Stop has sent SIGTERM to the process and interrupted Execute.
Reached(i) == \/ step[i] \in Over
              \/ channel[i] \in closed /\ process[i] # "running"

\* What Stop can be relied on for, with unlocked fields: it reaches an
\* execution that waits and that no other overlaps, and panics on a cleared
\* w.cmd only if that execution returned meanwhile.
StopWorksAlone ==
    \A i \in ready \ overlap : /\ stopper = "done" => Reached(i)
                               /\ stopper = "panicked" => step[i] \in Over

\* "Stop gracefully shuts down the gateway, draining active workers" (slack.go):
\* it reaches every execution that waits.
StopReachesAll == stopper = "done" => \A i \in ready : Reached(i)
=============================================================================
