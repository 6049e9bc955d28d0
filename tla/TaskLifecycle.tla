--------------------------- MODULE TaskLifecycle ---------------------------
(***************************************************************************)
(* What the task queue promises about one task, whatever the callers do:   *)
(* it is accepted once, it waits at most once, it runs at most once, and   *)
(* between its acceptance and its end it is always either waiting or       *)
(* running.  (The doc comment of IsValidTransition calls this order        *)
(* queued -> dispatching -> running -> done/error.)                        *)
(***************************************************************************)
CONSTANT Tasks

VARIABLE phase

Phases == {"new", "waiting", "running", "gone"}

Init == phase = [t \in Tasks |-> "new"]

Move(t, from, to) == phase[t] = from /\ phase' = [phase EXCEPT ![t] = to]

Accept(t)  == Move(t, "new", "waiting")
RunNow(t)  == Move(t, "new", "running")
Start(t)   == Move(t, "waiting", "running")
Finish(t)  == Move(t, "running", "gone")

Next == \E t \in Tasks : Accept(t) \/ RunNow(t) \/ Start(t) \/ Finish(t)

Spec == Init /\ [][Next]_phase
=============================================================================
