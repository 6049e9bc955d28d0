------------------------------- MODULE Cards -------------------------------
(***************************************************************************)
(* The cards on which a paused task waits for a reviewer, as far as they   *)
(* can be clicked (gateway/renderer_hitl.go), and where a click goes       *)
(* (HandleAction in gateway/interaction_handler.go).                       *)
(*                                                                         *)
(* A paused event says at which step the worker waits, if it has a chain   *)
(* context at all, and names its task or not.  A card is told from others  *)
(* only by whether that step is devops.  Titles, documents, logs and       *)
(* footers are layout.                                                     *)
(***************************************************************************)

Checkpoints == {"review",   \* architect, developer, ..., or no chain context
                "devops"}

PausedEvents == [checkpoint : Checkpoints, named : BOOLEAN]

HITLButtons == {"hitl_approve", "hitl_reject", "hitl_feedback"}
GitButtons  == {"git_push", "git_rebase", "git_manual"}

\* Faulty variant: the git card is not told from the others.
SameButtons(e) == HITLButtons

\* The generic card and the review card have the same buttons.
ButtonsOf(e) == IF e.checkpoint = "devops" THEN GitButtons ELSE HITLButtons

\* HandleAction: two buttons decide at once, the others open a dialog.
DecisionAtOnce == [hitl_approve |-> "APPROVE", git_push |-> "APPROVE_PUSH"]

DialogOf == [hitl_reject |-> "request_changes", hitl_feedback |-> "feedback",
             git_rebase  |-> "rebase_confirm",  git_manual    |-> "manual_commands"]

Modes == {DialogOf[b] : b \in DOMAIN DialogOf}

\* The input block of each dialog.
BlockID(mode) ==
    CASE mode = "rebase_confirm"  -> "rebase_confirm_input"
      [] mode = "manual_commands" -> "manual_commands_input"
      [] OTHER                    -> "feedback_input"
=============================================================================
