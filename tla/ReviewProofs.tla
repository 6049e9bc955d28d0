---------------------------- MODULE ReviewProofs ----------------------------
(***************************************************************************)
(* Theorems about reviews and the PythonWorker under any number of         *)
(* reviewers, tasks and overlapping executions.  IInv, the inductive       *)
(* invariant of the worker, says which channel an execution may find in    *)
(* w.stopped, and what an execution that no other overlaps may rely on;    *)
(* RInv, that of the reviews, that dialogs and commands fit the card they  *)
(* come from.                                                              *)
(***************************************************************************)
EXTENDS Review, TLAPS

NotMade == {"new", "cmdSet"}

\* A channel is made before it is stored, and stored before it is closed; what
\* an execution finds in w.stopped was not closed when it began.
ChannelsFit ==
    /\ stopped \in Executions => step[stopped] \notin NotMade
    /\ \A i \in closed : i \in Executions => step[i] \notin NotMade
    /\ \A i \in Executions : before[i] \subseteq closed
    /\ \A i \in Executions : step[i] \in {"made", "started"} => stopped \notin before[i]
    /\ \A i \in Executions : step[i] \in {"waiting", "killed"} => channel[i] \notin before[i]

\* An execution that overlaps no other finds its own command and its own
\* channel in the fields.
AloneFits ==
    /\ \A i, j \in InProgress : i # j => i \in overlap
    /\ \A i \in InProgress \ overlap :
        /\ cmd = i
        /\ step[i] \notin NotMade => stopped = i
        /\ step[i] \in {"started", "waiting"} => HasProcess(i)
        /\ step[i] = "waiting" => channel[i] = i

\* How far Stop has come with an execution that it found waiting alone.
StopFits ==
    /\ ready # {} => stopper # "idle"
    /\ \A i \in ready : step[i] \in {"waiting"} \cup Over
    /\ \A i \in ready \ overlap : step[i] = "waiting" =>
        /\ stopper # "panicked"
        /\ stopper \in {"select", "close", "done"} => process[i] # "running"
        /\ stopper = "done" => i \in closed

IInv == WTypeOK /\ CmdIsLive /\ ChannelsFit /\ AloneFits /\ StopFits

-----------------------------------------------------------------------------
LEMMA InitEstablishes == ASSUME WorkerAssumption, WInit  PROVE IInv
BY DEF WorkerAssumption, WInit, IInv, WTypeOK, CmdIsLive, ChannelsFit, AloneFits, StopFits,
       InProgress, Steps, Stops, Over, NotMade

LEMMA BeginPreserves ==
    ASSUME WorkerAssumption, IInv, NEW i \in Executions, Begin(i)  PROVE IInv'
<1> USE DEF IInv, Begin, Goto
<1>1. WTypeOK'
  BY DEF WTypeOK, Steps, InProgress
<1>2. InProgress' = InProgress \cup {i} /\ i \notin InProgress
  BY DEF WTypeOK, InProgress, Over
<1>3. CmdIsLive'
  BY <1>2 DEF CmdIsLive
<1>4. ChannelsFit'
  BY DEF WTypeOK, ChannelsFit, NotMade
<1>5. AloneFits'
  BY <1>2 DEF WTypeOK, AloneFits, HasProcess, NotMade
<1>6. StopFits'
  BY DEF WTypeOK, StopFits, Over
<1> QED  BY <1>1, <1>3, <1>4, <1>5, <1>6

\* The steps of an execution that stays in progress.
LEMMA ProgressPreserves ==
    ASSUME WorkerAssumption, IInv, NEW i \in Executions,
           MakeChannel(i) \/ StartProcess(i) \/ Select(i) \/ ProcessExits(i)
    PROVE  IInv'
<1> USE DEF IInv, shared, history, Goto
<1>1. InProgress' = InProgress
  BY DEF WTypeOK, InProgress, Over, MakeChannel, StartProcess, Select, ProcessExits
<1>2. CmdIsLive'
  BY <1>1 DEF CmdIsLive, MakeChannel, StartProcess, Select, ProcessExits
<1>3. CASE MakeChannel(i)
  <2>1. i \in InProgress
    BY <1>3 DEF MakeChannel, InProgress, Over
  <2>2. WTypeOK'
    BY <1>3 DEF MakeChannel, WTypeOK, Steps
  <2>3. ChannelsFit'
    BY <1>3 DEF MakeChannel, WTypeOK, ChannelsFit, NotMade
  <2>4. AloneFits'
    BY <1>1, <1>3, <2>1 DEF MakeChannel, WTypeOK, AloneFits, HasProcess, NotMade
  <2>5. StopFits'
    BY <1>3 DEF MakeChannel, WTypeOK, StopFits, Over
  <2> QED  BY <1>2, <2>2, <2>3, <2>4, <2>5
<1>4. CASE StartProcess(i)
  <2>1. WTypeOK'
    BY <1>4 DEF StartProcess, WTypeOK, Steps
  <2>2. ChannelsFit'
    BY <1>4 DEF StartProcess, WTypeOK, ChannelsFit, NotMade
  <2>3. AloneFits'
    BY <1>1, <1>4 DEF StartProcess, WTypeOK, AloneFits, HasProcess, NotMade
  <2>4. StopFits'
    BY <1>4 DEF StartProcess, WTypeOK, StopFits, Over
  <2> QED  BY <1>2, <2>1, <2>2, <2>3, <2>4
<1>5. CASE Select(i)
  <2>1. WTypeOK'
    BY <1>5 DEF Select, WTypeOK, Steps
  <2>2. ChannelsFit'
    BY <1>5 DEF Select, WTypeOK, ChannelsFit, NotMade
  <2>3. AloneFits'
    BY <1>1, <1>5 DEF Select, WTypeOK, AloneFits, HasProcess, NotMade
  <2>4. StopFits'
    BY <1>5 DEF Select, WTypeOK, StopFits, Over
  <2> QED  BY <1>2, <2>1, <2>2, <2>3, <2>4
<1>6. CASE ProcessExits(i)
  <2>1. WTypeOK'
    BY <1>6 DEF ProcessExits, WTypeOK
  <2>2. ChannelsFit'
    BY <1>6 DEF ProcessExits, ChannelsFit
  <2>3. AloneFits'
    BY <1>1, <1>6 DEF ProcessExits, WTypeOK, AloneFits, HasProcess
  <2>4. StopFits'
    BY <1>6 DEF ProcessExits, WTypeOK, StopFits
  <2> QED  BY <1>2, <2>1, <2>2, <2>3, <2>4
<1> QED  BY <1>3, <1>4, <1>5, <1>6

\* The ways an execution ends: each clears w.cmd, so another one in progress
\* must have been overlapped.
LEMMA EndPreserves ==
    ASSUME WorkerAssumption, IInv, NEW i \in Executions,
           StartFails(i) \/ Done(i) \/ Killed(i)
    PROVE  IInv'
<1> USE DEF IInv, Goto
<1>1. /\ i \in InProgress
      /\ InProgress' = InProgress \ {i}
      /\ cmd' = None
      /\ step' = [step EXCEPT ![i] = step'[i]]
      /\ step'[i] \in Over
      /\ step[i] \in {"made", "waiting"}
      /\ step'[i] = "killed" => step[i] = "waiting"
      /\ UNCHANGED <<channel, stopped, closed, stopper, before, overlap, ready>>
  BY DEF WTypeOK, InProgress, Over, StartFails, Done, Killed, history
<1>2. process' = process \/ process' = [process EXCEPT ![i] = "exited"]
  BY DEF StartFails, Done, Killed
<1>3. WTypeOK'
  <2>1. step' \in [Executions -> Steps]
    BY <1>1 DEF WTypeOK, Steps, Over
  <2>2. process' \in [Executions -> {"none", "running", "signalled", "exited"}]
    BY <1>2 DEF WTypeOK
  <2> QED  BY <1>1, <2>1, <2>2 DEF WTypeOK
<1>4. CmdIsLive'
  BY <1>1 DEF CmdIsLive
<1>5. ChannelsFit'
  BY <1>1 DEF WTypeOK, ChannelsFit, NotMade, Over
<1>6. AloneFits'
  <2>1. \A j, k \in InProgress' : j # k => j \in overlap'
    BY <1>1 DEF AloneFits
  <2>2. InProgress' \subseteq overlap'
    BY <1>1 DEF AloneFits
  <2> QED  BY <2>1, <2>2 DEF AloneFits
<1>7. StopFits'
  BY <1>1, <1>2 DEF WTypeOK, StopFits, Over
<1> QED  BY <1>3, <1>4, <1>5, <1>6, <1>7

LEMMA StopPreserves == ASSUME WorkerAssumption, IInv, Stop  PROVE IInv'
<1> USE DEF IInv, shared, history
<1>1. step' = step /\ cmd' = cmd /\ channel' = channel /\ stopped' = stopped
      /\ before' = before /\ overlap' = overlap
  BY DEF Stop, StopLooks, StopLooksAgain, StopSignals, StopChecks, StopCloses
<1>2. InProgress' = InProgress
  BY <1>1 DEF InProgress
<1>3. \A i \in ready \ overlap : step[i] = "waiting" =>
          i \in InProgress /\ cmd = i /\ stopped = i /\ HasProcess(i)
  BY DEF WTypeOK, AloneFits, InProgress, Over, NotMade
<1>4. CASE StopLooks
  <2>1. WTypeOK'
    BY <1>4 DEF StopLooks, WTypeOK, Stops
  <2>2. ChannelsFit'
    BY <1>4 DEF StopLooks, ChannelsFit
  <2>3. AloneFits'
    BY <1>2, <1>4 DEF StopLooks, AloneFits, HasProcess
  <2>4. \A i \in ready' \ overlap : cmd = i /\ step[i] = "waiting" /\ i # None
    BY <1>4 DEF StopLooks, AloneFits, InProgress, Over, WorkerAssumption
  <2>5. StopFits'
    BY <1>4, <2>4 DEF StopLooks, StopFits
  <2> QED  BY <1>1, <1>2, <2>1, <2>2, <2>3, <2>5 DEF CmdIsLive
<1>5. CASE StopLooksAgain
  <2>1. WTypeOK'
    BY <1>5 DEF StopLooksAgain, WTypeOK, Stops
  <2>2. ChannelsFit'
    BY <1>5 DEF StopLooksAgain, ChannelsFit
  <2>3. AloneFits'
    BY <1>2, <1>5 DEF StopLooksAgain, AloneFits, HasProcess
  <2>4. StopFits'
    BY <1>3, <1>5 DEF StopLooksAgain, StopFits, WTypeOK, WorkerAssumption
  <2> QED  BY <1>1, <1>2, <2>1, <2>2, <2>3, <2>4 DEF CmdIsLive
<1>6. CASE StopSignals
  <2>1. WTypeOK'
    BY <1>6 DEF StopSignals, WTypeOK, Stops
  <2>2. ChannelsFit'
    BY <1>6 DEF StopSignals, ChannelsFit
  <2>3. \A i \in Executions : HasProcess(i) => HasProcess(i)'
    BY <1>6 DEF StopSignals, WTypeOK, HasProcess
  <2>4. AloneFits'
    BY <1>1, <1>2, <2>3 DEF AloneFits, InProgress
  <2>5. StopFits'
    <3>1. ASSUME NEW i \in ready \ overlap, step[i] = "waiting"
          PROVE  stopper' = "select" /\ process'[i] # "running"
      BY <1>3, <1>6, <3>1 DEF StopSignals, WTypeOK, WorkerAssumption, Running
    <3> QED  BY <1>6, <3>1, <1>1 DEF StopSignals, StopFits
  <2> QED  BY <1>1, <1>2, <2>1, <2>2, <2>4, <2>5 DEF CmdIsLive
<1>7. CASE StopChecks
  <2>1. WTypeOK'
    BY <1>7 DEF StopChecks, WTypeOK, Stops
  <2>2. ChannelsFit'
    BY <1>7 DEF StopChecks, ChannelsFit
  <2>3. AloneFits'
    BY <1>2, <1>7 DEF StopChecks, AloneFits, HasProcess
  <2>4. StopFits'
    BY <1>3, <1>7 DEF StopChecks, StopFits
  <2> QED  BY <1>1, <1>2, <2>1, <2>2, <2>3, <2>4 DEF CmdIsLive
<1>8. CASE StopCloses
  <2>1. WTypeOK'
    BY <1>8 DEF StopCloses, WTypeOK, Stops
  <2>2. ChannelsFit'
    BY <1>8 DEF StopCloses, ChannelsFit
  <2>3. AloneFits'
    BY <1>2, <1>8 DEF StopCloses, AloneFits, HasProcess
  <2>4. StopFits'
    BY <1>3, <1>8 DEF StopCloses, StopFits
  <2> QED  BY <1>1, <1>2, <2>1, <2>2, <2>3, <2>4 DEF CmdIsLive
<1> QED  BY <1>4, <1>5, <1>6, <1>7, <1>8 DEF Stop

LEMMA WorkerPreserves == ASSUME WorkerAssumption, IInv, [Next]_vars  PROVE IInv'
<1>1. CASE UNCHANGED wvars
  BY <1>1 DEF wvars, shared, history, IInv, WTypeOK, CmdIsLive, ChannelsFit, AloneFits,
              StopFits, InProgress, HasProcess
<1>2. ASSUME NEW i \in Executions, ExecuteStep(i)  PROVE IInv'
  BY <1>2, ProgressPreserves, EndPreserves DEF ExecuteStep
<1>3. CASE Next
  BY <1>1, <1>2, <1>3, BeginPreserves, StopPreserves
     DEF Next, Pause, Click, Approve, OpenModal, Submit
<1>4. CASE UNCHANGED vars
  BY <1>1, <1>4 DEF vars
<1> QED  BY <1>3, <1>4

-----------------------------------------------------------------------------
\* What reviewers do leaves the types of cards, dialogs and commands right,
\* and dialogs and commands fit the cards they come from.
ReviewTypes == /\ pauses \in [Tasks -> Seq(PausedEvents)]
               /\ modals \subseteq [task : Ids, mode : Modes, card : Nat]
               /\ request \in [Executions -> Requests \cup {NoRequest}]
               /\ status \in [Tasks -> {"running", "paused", "resuming"}]
               /\ origin \in [Executions -> Nat]
               /\ submitted \subseteq [task : Ids, mode : Modes, card : Nat, text : Texts]

ModesOf(e) == IF e.checkpoint = "devops" THEN {"rebase_confirm", "manual_commands"}
                                         ELSE {"request_changes", "feedback"}

\* The k-th card of a task was shown and has what is said of it.
ModeFits(t, k, mode)  == k \in DOMAIN pauses[t] /\ mode \in ModesOf(pauses[t][k])
DecisionMade(t, k, d) == k \in DOMAIN pauses[t] /\ d \in Offered(pauses[t][k])

ModalsFit == \A m \in modals : m.task \in Tasks => ModeFits(m.task, m.card, m.mode)

RInv == ReviewTypes /\ ModalsFit /\ DecisionsFitCard

LEMMA ButtonsFit ==
    ASSUME NEW e \in PausedEvents, NEW b \in ButtonsOf(e)
    PROVE  /\ b \in DOMAIN DecisionAtOnce =>
                  /\ DecisionAtOnce[b] \in {"APPROVE", "APPROVE_PUSH"}
                  /\ DecisionAtOnce[b] \in Offered(e)
           /\ b \in DOMAIN DialogOf =>
                  /\ DialogOf[b] \in Modes
                  /\ DialogOf[b] \in ModesOf(e)
BY DEF ButtonsOf, HITLButtons, GitButtons, DecisionAtOnce, DialogOf, Modes, ModesOf, Offered

LEMMA DecisionFits ==
    ASSUME NEW e, NEW mode \in ModesOf(e)
    PROVE  /\ DecisionOf(mode) \in {"REJECT", "FEEDBACK", "APPROVE_REBASE"}
           /\ DecisionOf(mode) \in Offered(e)
BY DEF ModesOf, DecisionOf, Offered

\* The cards a task has had stay what they were when it pauses again.
LEMMA CardsStay ==
    ASSUME ReviewTypes, NEW t \in Tasks, NEW e \in PausedEvents,
           pauses' = [pauses EXCEPT ![t] = Append(@, e)]
    PROVE  /\ pauses' \in [Tasks -> Seq(PausedEvents)]
           /\ \A s \in Tasks : \A k \in DOMAIN pauses[s] :
                 k \in DOMAIN pauses'[s] /\ pauses'[s][k] = pauses[s][k]
<1>1. pauses[t] \in Seq(PausedEvents) /\ pauses'[t] = Append(pauses[t], e)
  BY DEF ReviewTypes
<1>2. /\ Append(pauses[t], e) \in Seq(PausedEvents)
      /\ \A k \in DOMAIN pauses[t] :
            k \in DOMAIN Append(pauses[t], e) /\ Append(pauses[t], e)[k] = pauses[t][k]
  BY <1>1
<1> QED  BY <1>1, <1>2 DEF ReviewTypes

LEMMA PausePreserves ==
    ASSUME ReviewAssumption, RInv, NEW t \in Tasks, NEW e \in PausedEvents, Pause(t, e)
    PROVE  RInv'
<1>1. /\ pauses' = [pauses EXCEPT ![t] = Append(@, e)]
      /\ UNCHANGED <<modals, request, origin, submitted>>
  BY DEF Pause
<1>2. ReviewTypes'
  BY <1>1, CardsStay DEF RInv, ReviewTypes, Pause
<1>3. ModalsFit'
  BY <1>1, CardsStay DEF RInv, ModalsFit, ModeFits
<1>4. ASSUME NEW i \in Executions, request[i] # NoRequest  PROVE request[i].task \in Tasks
  BY <1>4 DEF RInv, ReviewTypes, Requests
<1>5. DecisionsFitCard'
  BY <1>1, <1>4, CardsStay DEF RInv, DecisionsFitCard
<1> QED  BY <1>2, <1>3, <1>5 DEF RInv

\* A resume command of a named task is typed and fits, if its decision does.
LEMMA SendFits ==
    ASSUME RInv, NEW id \in Ids, NEW card \in Nat, NEW decision, NEW comment, pauses' = pauses,
           id \in Tasks => /\ [task |-> id, decision |-> decision, comment |-> comment] \in Requests
                           /\ DecisionMade(id, card, decision),
           SendResume(id, card, decision, comment)
    PROVE  /\ request' \in [Executions -> Requests \cup {NoRequest}]
           /\ origin' \in [Executions -> Nat]
           /\ status' \in [Tasks -> {"running", "paused", "resuming"}]
           /\ DecisionsFitCard'
<1>1. CASE id = NoTask
  BY <1>1 DEF SendResume, RInv, ReviewTypes, DecisionsFitCard
<1>2. CASE id # NoTask
  <2>1. id \in Tasks
    BY <1>2 DEF Ids
  <2>2. PICK i \in Executions :
            /\ request' = [request EXCEPT ![i] =
                              [task |-> id, decision |-> decision, comment |-> comment]]
            /\ origin' = [origin EXCEPT ![i] = card]
    BY <1>2 DEF SendResume
  <2>3. status' = [status EXCEPT ![id] = "resuming"]
    BY <1>2 DEF SendResume
  <2>4. request' \in [Executions -> Requests \cup {NoRequest}] /\ origin' \in [Executions -> Nat]
    BY <2>1, <2>2 DEF RInv, ReviewTypes
  <2>5. status' \in [Tasks -> {"running", "paused", "resuming"}]
    BY <2>1, <2>3 DEF RInv, ReviewTypes
  <2>6. ASSUME NEW k \in Executions, request'[k] # NoRequest
        PROVE  /\ origin'[k] \in DOMAIN pauses[request'[k].task]
               /\ request'[k].decision \in Offered(pauses[request'[k].task][origin'[k]])
    <3>1. CASE k = i
      <4>1. request'[k].task = id /\ request'[k].decision = decision /\ origin'[k] = card
        BY <2>2, <3>1 DEF RInv, ReviewTypes
      <4> QED  BY <2>1, <4>1 DEF DecisionMade
    <3>2. CASE k # i
      <4>1. request'[k] = request[k] /\ origin'[k] = origin[k]
        BY <2>2, <3>2 DEF RInv, ReviewTypes
      <4> QED  BY <2>6, <4>1 DEF RInv, DecisionsFitCard
    <3> QED  BY <3>1, <3>2
  <2> QED  BY <2>4, <2>5, <2>6 DEF DecisionsFitCard
<1> QED  BY <1>1, <1>2

LEMMA ReviewPreserved == ASSUME ReviewAssumption, RInv, [Next]_vars  PROVE RInv'
<1>1. CASE UNCHANGED reviewVars
  BY <1>1 DEF reviewVars, RInv, ReviewTypes, ModalsFit, ModeFits, DecisionsFitCard
<1>2. \A t \in Tasks : \A k \in DOMAIN pauses[t] :
          /\ Id(t, k) \in Ids /\ pauses[t][k] \in PausedEvents /\ k \in Nat
          /\ Id(t, k) \in Tasks => Id(t, k) = t
  BY DEF Id, Ids, RInv, ReviewTypes, ReviewAssumption
<1>3. ASSUME NEW t \in Tasks, NEW k \in DOMAIN pauses[t], NEW b \in DOMAIN DecisionAtOnce,
             Approve(t, k, b)
      PROVE  RInv'
  <2>1. /\ DecisionAtOnce[b] \in {"APPROVE", "APPROVE_PUSH"}
        /\ DecisionMade(t, k, DecisionAtOnce[b])
    BY <1>2, <1>3, ButtonsFit DEF Approve, DecisionMade
  <2>2. [task |-> t, decision |-> DecisionAtOnce[b], comment |-> NoComment] \in Requests
    BY <2>1 DEF Requests
  <2>3. /\ UNCHANGED <<pauses, modals, submitted>>
        /\ SendResume(Id(t, k), k, DecisionAtOnce[b], NoComment)
    BY <1>3 DEF Approve
  <2>4. /\ request' \in [Executions -> Requests \cup {NoRequest}]
        /\ origin' \in [Executions -> Nat]
        /\ status' \in [Tasks -> {"running", "paused", "resuming"}]
        /\ DecisionsFitCard'
    BY <1>2, <2>1, <2>2, <2>3, SendFits
  <2> QED  BY <2>3, <2>4 DEF RInv, ReviewTypes, ModalsFit, ModeFits
<1>4. ASSUME NEW t \in Tasks, NEW k \in DOMAIN pauses[t], NEW b \in DOMAIN DialogOf,
             OpenModal(t, k, b)
      PROVE  RInv'
  <2>1. DialogOf[b] \in Modes /\ ModeFits(t, k, DialogOf[b])
    BY <1>2, <1>4, ButtonsFit DEF OpenModal, ModeFits
  <2>2. /\ modals' = modals \cup {[task |-> Id(t, k), mode |-> DialogOf[b], card |-> k]}
        /\ UNCHANGED <<pauses, request, status, origin, submitted>>
    BY <1>4 DEF OpenModal
  <2>3. ModalsFit'
    BY <1>2, <2>1, <2>2 DEF RInv, ModalsFit, ModeFits
  <2>4. ReviewTypes' /\ DecisionsFitCard'
    BY <1>2, <2>1, <2>2 DEF RInv, ReviewTypes, DecisionsFitCard
  <2> QED  BY <2>3, <2>4 DEF RInv
<1>5. ASSUME NEW m \in modals, NEW text \in Texts, Submit(m, text)  PROVE RInv'
  <2>1. /\ m.task \in Ids /\ m.mode \in Modes /\ m.card \in Nat
        /\ m.task \in Tasks => ModeFits(m.task, m.card, m.mode)
    BY DEF RInv, ReviewTypes, ModalsFit
  <2>2. /\ UNCHANGED pauses
        /\ modals' = modals \ {m}
        /\ submitted' = submitted \cup
              {[task |-> m.task, mode |-> m.mode, card |-> m.card, text |-> text]}
    BY <1>5 DEF Submit, Close
  <2>3. modals' \subseteq [task : Ids, mode : Modes, card : Nat]
        /\ submitted' \subseteq [task : Ids, mode : Modes, card : Nat, text : Texts]
        /\ ModalsFit'
    BY <2>1, <2>2 DEF RInv, ReviewTypes, ModalsFit, ModeFits
  <2>4. FeedbackText(m.mode, text) \in Texts \cup {NoFeedback}
    BY DEF FeedbackText
  <2>5. m.task \in Tasks =>
            /\ [task |-> m.task, decision |-> DecisionOf(m.mode),
                comment |-> FeedbackText(m.mode, text)] \in Requests
            /\ DecisionMade(m.task, m.card, DecisionOf(m.mode))
    BY <2>1, <2>4, DecisionFits DEF Requests, ModeFits, DecisionMade
  <2>6. /\ request' \in [Executions -> Requests \cup {NoRequest}]
        /\ origin' \in [Executions -> Nat]
        /\ status' \in [Tasks -> {"running", "paused", "resuming"}]
        /\ DecisionsFitCard'
    <3>1. CASE Confirmed(m.mode, text)
      BY <1>5, <2>1, <2>2, <2>5, <3>1, SendFits DEF Submit
    <3>2. CASE ~Confirmed(m.mode, text)
      BY <1>5, <2>2, <3>2 DEF Submit, RInv, ReviewTypes, DecisionsFitCard
    <3> QED  BY <3>1, <3>2
  <2> QED  BY <2>2, <2>3, <2>6 DEF RInv, ReviewTypes
<1>6. CASE Next
  BY <1>1, <1>3, <1>4, <1>5, <1>6, PausePreserves DEF Next, Click
<1> QED  BY <1>1, <1>6 DEF vars

\* A resume command that was sent is not replaced by another one.
LEMMA SentStays ==
    ASSUME ReviewAssumption, RInv, NEW s \in submitted, s.mode \in {"request_changes", "feedback"},
           s.task # NoTask, Sent(s), [Next]_vars
    PROVE  Sent(s)'
<1>1. PICK k \in Executions :
          request[k] = [task |-> s.task, decision |-> Meaning[s.mode], comment |-> s.text]
  BY DEF Sent
<1>2. s.task \in Tasks /\ s.text \in Texts
  BY DEF RInv, ReviewTypes, Ids
<1>3. Meaning[s.mode] \in {"REJECT", "FEEDBACK"}
  BY DEF Meaning
<1>4. request[k] # NoRequest
  BY <1>1, <1>2, <1>3 DEF ReviewAssumption, Requests
<1>5. ASSUME NEW id, NEW card, NEW decision, NEW comment, SendResume(id, card, decision, comment)
      PROVE  request'[k] = request[k]
  BY <1>4, <1>5 DEF SendResume, RInv, ReviewTypes
<1>6. request'[k] = request[k]
  BY <1>5 DEF Next, Pause, Click, Approve, OpenModal, Submit, vars, reviewVars
<1> QED  BY <1>1, <1>6 DEF Sent

LEMMA FeedbackPreserved ==
    ASSUME ReviewAssumption, RInv, FeedbackReachesCore, [Next]_vars  PROVE FeedbackReachesCore'
<1> SUFFICES ASSUME NEW s \in submitted', s.task # NoTask,
                    s.mode \in {"request_changes", "feedback"}
             PROVE  Sent(s)'
  BY DEF FeedbackReachesCore
<1>1. CASE s \in submitted
  BY <1>1, SentStays DEF FeedbackReachesCore
<1>2. CASE s \notin submitted
  <2>1. PICK m \in modals, text \in Texts : Submit(m, text)
    BY <1>2 DEF Next, Pause, Click, Approve, OpenModal, vars, reviewVars
  <2>2. s = [task |-> m.task, mode |-> m.mode, card |-> m.card, text |-> text]
    BY <1>2, <2>1 DEF Submit, Close
  <2>3. Confirmed(m.mode, text) /\ FeedbackText(m.mode, text) = text
        /\ DecisionOf(m.mode) = Meaning[m.mode]
    BY <2>2 DEF Confirmed, FeedbackText, BlockID, DecisionOf, Meaning
  <2>4. SendResume(m.task, m.card, DecisionOf(m.mode), text)
    BY <2>1, <2>3 DEF Submit
  <2>5. PICK i \in Executions :
            request' = [request EXCEPT ![i] = [task |-> m.task, decision |-> DecisionOf(m.mode),
                                               comment |-> text]]
    BY <2>2, <2>4 DEF SendResume
  <2> QED  BY <2>2, <2>3, <2>5 DEF Sent, RInv, ReviewTypes
<1> QED  BY <1>1, <1>2

-----------------------------------------------------------------------------
\* The invariant of the fields that Execute and Stop share without a lock.
THEOREM IInvHolds == Spec => []IInv
<1>1. Init => IInv
  BY WorkerAssumption, InitEstablishes DEF Init
<1>2. IInv /\ [Next]_vars => IInv'
  BY WorkerAssumption, WorkerPreserves
<1> QED  BY <1>1, <1>2, PTL DEF Spec

\* The invariant of cards, dialogs and commands.
THEOREM RInvHolds == Spec => []RInv
<1>1. Init => RInv
  BY DEF Init, RInv, ReviewTypes, ModalsFit, DecisionsFitCard
<1>2. RInv /\ [Next]_vars => RInv'
  BY ReviewAssumption, ReviewPreserved
<1> QED  BY <1>1, <1>2, PTL DEF Spec

\* The types of the worker's fields, and of cards, dialogs and commands.
THEOREM TypeCorrect == Spec => []TypeOK
<1>1. IInv /\ RInv => TypeOK
  BY DEF IInv, RInv, ReviewTypes, TypeOK
<1> QED  BY <1>1, IInvHolds, RInvHolds, PTL

\* However often tasks pause and however old the cards and dialogs that
\* reviewers use, no decision is sent that the card it was made on does not
\* offer (buildReviewCard, HandleAction, HandleViewSubmission, sendResume).
THEOREM DecisionsFitCardHolds == Spec => []DecisionsFitCard
<1>1. RInv => DecisionsFitCard
  BY DEF RInv
<1> QED  BY <1>1, RInvHolds, PTL

\* Whatever else reviewers and Stop do meanwhile, the text of a feedback dialog
\* reaches the core with its task and decision.
THEOREM FeedbackReachesCoreHolds == Spec => []FeedbackReachesCore
<1>1. Init => FeedbackReachesCore
  BY DEF Init, FeedbackReachesCore
<1>2. RInv /\ FeedbackReachesCore /\ [Next]_vars => FeedbackReachesCore'
  BY ReviewAssumption, FeedbackPreserved
<1> QED  BY <1>1, <1>2, RInvHolds, PTL DEF Spec

\* However executions overlap, w.cmd never outlives the Execute that set it.
THEOREM CmdIsLiveHolds == Spec => []CmdIsLive
<1>1. IInv => CmdIsLive
  BY DEF IInv
<1> QED  BY <1>1, IInvHolds, PTL

\* Whosever channel an execution waits for, it is killed only by a Stop that
\* came after it began.
THEOREM KilledOnlyByLaterStopHolds == Spec => []KilledOnlyByLaterStop
<1>1. IInv => KilledOnlyByLaterStop
  BY DEF IInv, ChannelsFit, KilledOnlyByLaterStop
<1> QED  BY <1>1, IInvHolds, PTL

\* Stop works for an execution that no other overlaps, at whatever moments of
\* it Stop reads the fields.
THEOREM StopWorksAloneHolds == Spec => []StopWorksAlone
<1>1. IInv => StopWorksAlone
  <2> SUFFICES ASSUME IInv, NEW i \in ready \ overlap
               PROVE  /\ stopper = "done" => Reached(i)
                      /\ stopper = "panicked" => step[i] \in Over
    BY DEF StopWorksAlone
  <2>1. step[i] \in {"waiting"} \cup Over /\ i \in Executions
    BY DEF IInv, StopFits, WTypeOK
  <2>2. CASE step[i] = "waiting"
    <3>1. channel[i] = i
      BY <2>1, <2>2 DEF IInv, AloneFits, InProgress, Over
    <3> QED  BY <2>2, <3>1 DEF IInv, StopFits, Reached
  <2> QED  BY <2>1, <2>2 DEF Reached
<1> QED  BY <1>1, IInvHolds, PTL
=============================================================================
