------------------------------- MODULE Review -------------------------------
(***************************************************************************)
(* Human review (gateway/interaction_handler.go): the buttons of review    *)
(* cards (Cards), their modals, and the resume commands that goroutines    *)
(* send through the one PythonWorker.                                      *)
(*                                                                         *)
(* The event loop handles one click or submission at a time.  A task may   *)
(* pause several times (gateway/slack.go), each time with another card.  A *)
(* card is replaced, by the next one or after a click, only once Slack has *)
(* the update, and the modals opened from it stay: clicks on old cards and *)
(* submissions of old modals may come at any time, and say no more than    *)
(* the id in their paused event; without one nothing can be resumed.       *)
(* Executions bounds the resume commands.  A record's status is here what  *)
(* pauses and clicks make of it (for the rest of its life, TaskRecords).   *)
(***************************************************************************)
EXTENDS PythonWorker, Cards, FiniteSets, Naturals, Sequences

CONSTANTS Tasks,        \* tasks whose workers run
          Texts,        \* what users type
          Yes,          \* one of them
          NoComment,    \* the empty comment
          NoFeedback,   \* "(no feedback provided)"
          NoRequest,
          NoTask,       \* the empty task id
          MaxPauses,    \* bounds the paused events
          MaxClicks     \* bounds the clicks on cards

VARIABLES pauses,     \* the paused events of each task, which made its cards
          modals,     \* open modals: their private metadata
          request,    \* the ResumePayload of each execution
          status,     \* Status of each task's record
          origin,     \* history: the number of the card behind each request
          submitted   \* history: modals submitted, with the text typed

\* A modal's "card" is history, too: the number of the card it was opened from.
reviewVars == <<pauses, modals, request, status, origin, submitted>>
vars == <<wvars, reviewVars>>

\* What a button of the card or the metadata of a dialog names.
Ids      == Tasks \cup {NoTask}
Id(t, k) == IF pauses[t][k].named THEN t ELSE NoTask

\* All cards that were ever shown.
Shown == UNION {{t} \X DOMAIN pauses[t] : t \in Tasks}

\* ResumePayload: only an approval has no comment.
Requests  == [task : Tasks, decision : {"APPROVE", "APPROVE_PUSH"}, comment : {NoComment}]
             \cup [task : Tasks, decision : {"REJECT", "FEEDBACK", "APPROVE_REBASE"},
                   comment : Texts \cup {NoFeedback}]

ASSUME ReviewAssumption == /\ Yes \in Texts
                           /\ NoComment \notin Texts /\ NoFeedback \notin Texts
                           /\ NoTask \notin Tasks
                           /\ NoRequest \notin Requests
                           /\ MaxPauses \in Nat /\ MaxClicks \in Nat

\* Faulty variant: a text that is not found stays empty.
FeedbackOrEmpty(mode, text) == IF BlockID(mode) = "feedback_input" THEN text ELSE NoComment

\* The text that HandleViewSubmission finds: it looks in one block only.
FeedbackText(mode, text) == IF BlockID(mode) = "feedback_input" THEN text ELSE NoFeedback

\* Faulty variant: a request for changes is sent as feedback.
DecisionAlwaysFeedback(mode) == IF mode = "rebase_confirm" THEN "APPROVE_REBASE" ELSE "FEEDBACK"

DecisionOf(mode) == CASE mode = "request_changes" -> "REJECT"
                      [] mode = "rebase_confirm"  -> "APPROVE_REBASE"
                      [] OTHER                    -> "FEEDBACK"

-----------------------------------------------------------------------------
Init == /\ WInit
        /\ pauses = [t \in Tasks |-> <<>>]
        /\ modals = {}
        /\ request = [i \in Executions |-> NoRequest]
        /\ status = [t \in Tasks |-> "running"]
        /\ origin = [i \in Executions |-> 0]
        /\ submitted = {}

\* The stream callback shows the card of a paused event.
Pause(t, e) ==
    /\ Up /\ Cardinality(Shown) < MaxPauses
    /\ pauses' = [pauses EXCEPT ![t] = Append(@, e)]
    /\ status' = IF e.named THEN [status EXCEPT ![t] = "paused"] ELSE status
    /\ UNCHANGED <<wvars, modals, request, origin, submitted>>

\* The clicks so far: dialogs open or submitted, and approvals.
Approvals == {i \in Executions : request[i] # NoRequest /\ request[i].comment = NoComment}
Clickable == Up /\ Cardinality(modals) + Cardinality(submitted) + Cardinality(Approvals) < MaxClicks

\* "go sendResume", by the goroutine of an unused execution, and the record.
\* Without a task id sendResume fails and the record is left alone.
SendResume(id, card, decision, comment) ==
    IF id = NoTask THEN UNCHANGED <<request, origin, status>>
    ELSE /\ \E i \in Executions :
             /\ request[i] = NoRequest
             /\ request' = [request EXCEPT ![i] =
                               [task |-> id, decision |-> decision, comment |-> comment]]
             /\ origin' = [origin EXCEPT ![i] = card]
         /\ status' = [status EXCEPT ![id] = "resuming"]

\* handleApprove and handleGitPush, for the k-th card of a task.
Approve(t, k, b) ==
    /\ Clickable
    /\ b \in ButtonsOf(pauses[t][k])
    /\ SendResume(Id(t, k), k, DecisionAtOnce[b], NoComment)
    /\ UNCHANGED <<wvars, pauses, modals, submitted>>

\* handleReject, handleFeedback, handleGitRebase and handleGitManual.
OpenModal(t, k, b) ==
    /\ Clickable
    /\ b \in ButtonsOf(pauses[t][k])
    /\ modals' = modals \cup {[task |-> Id(t, k), mode |-> DialogOf[b], card |-> k]}
    /\ UNCHANGED <<wvars, pauses, request, status, origin, submitted>>

\* HandleViewSubmission.
Confirmed(mode, text) == mode = "rebase_confirm" => FeedbackText(mode, text) = Yes

Close(m, text) ==
    /\ m \in modals
    /\ modals' = modals \ {m}
    /\ submitted' = submitted \cup {[task |-> m.task, mode |-> m.mode, card |-> m.card, text |-> text]}

Submit(m, text) ==
    /\ Up
    /\ Close(m, text)
    /\ IF Confirmed(m.mode, text)
       THEN SendResume(m.task, m.card, DecisionOf(m.mode), FeedbackText(m.mode, text))
       ELSE UNCHANGED <<request, status, origin>>
    /\ UNCHANGED <<wvars, pauses>>

Click(t, k) == \/ \E b \in DOMAIN DecisionAtOnce : Approve(t, k, b)
               \/ \E b \in DOMAIN DialogOf : OpenModal(t, k, b)

Next == \/ \E t \in Tasks, e \in PausedEvents : Pause(t, e)
        \/ \E t \in Tasks : \E k \in DOMAIN pauses[t] : Click(t, k)
        \/ \E m \in modals, text \in Texts : Submit(m, text)
        \/ \E i \in Executions : request[i] # NoRequest /\ Begin(i) /\ UNCHANGED reviewVars
        \/ \E i \in Executions : ExecuteStep(i) /\ UNCHANGED reviewVars
        \/ Stop /\ UNCHANGED reviewVars

Spec == Init /\ [][Next]_vars

-----------------------------------------------------------------------------
\* Properties.

TypeOK == /\ WTypeOK
          /\ pauses \in [Tasks -> Seq(PausedEvents)]
          /\ modals \subseteq [task : Ids, mode : Modes, card : Nat]
          /\ request \in [Executions -> Requests \cup {NoRequest}]
          /\ status \in [Tasks -> {"running", "paused", "resuming"}]
          /\ origin \in [Executions -> Nat]
          /\ submitted \subseteq [task : Ids, mode : Modes, card : Nat, text : Texts]

\* A resume command carries the submission's task, the decision that its
\* dialog stands for, and what the user typed.
Meaning == [request_changes |-> "REJECT", feedback |-> "FEEDBACK",
            rebase_confirm |-> "APPROVE_REBASE", manual_commands |-> "FEEDBACK"]

Sent(s) == \E i \in Executions :
    request[i] = [task |-> s.task, decision |-> Meaning[s.mode], comment |-> s.text]

\* The feedback and request-changes dialogs of several tasks are not mixed up,
\* whatever else is open, clicked or running: the core gets each text, for the
\* task of its card and with the decision of its dialog, if the card names it.
FeedbackReachesCore ==
    \A s \in submitted :
        s.task # NoTask /\ s.mode \in {"request_changes", "feedback"} => Sent(s)

\* A decision was offered at the checkpoint whose card it was made on, at once
\* or in a dialog, however many cards the task has had since: no push or rebase
\* from a design review, no plain approval of a push.  So the worker gets a
\* decision that its present checkpoint does not offer only if the card, or the
\* dialog, was out of date.  (That does happen, as neither names a checkpoint.)
Offered(e) == IF e.checkpoint = "devops" THEN {"APPROVE_PUSH", "APPROVE_REBASE", "FEEDBACK"}
                                         ELSE {"APPROVE", "REJECT", "FEEDBACK"}
DecisionsFitCard ==
    \A i \in Executions : request[i] # NoRequest =>
        /\ origin[i] \in DOMAIN pauses[request[i].task]
        /\ request[i].decision \in Offered(pauses[request[i].task][origin[i]])

\* What the other two dialogs tell the user: "type YES to proceed", "Enter the
\* git commands you want to execute".
SubmissionsReachCore ==
    \A s \in submitted :
        s.task # NoTask /\ (s.mode = "rebase_confirm" => s.text = Yes) => Sent(s)
=============================================================================
