--------------------------- MODULE UpdateChannel ---------------------------
(***************************************************************************)
(* What the path from a worker's output to its card promises: updates are  *)
(* offered in order, each is delivered at most once, and one that waits is *)
(* given up only at the moment a newer one is offered in its place.  Once  *)
(* the channel is closed, an update may be dropped instead of offered;     *)
(* what waits then is still delivered.  Updates may be delivered out of    *)
(* order.                                                                  *)
(***************************************************************************)
EXTENDS Naturals

CONSTANT Updates   \* numbered in the order of the output

VARIABLES phase, open

vars == <<phase, open>>

Phases == {"new", "waiting", "delivered", "replaced", "dropped"}

Init == /\ phase = [n \in Updates |-> "new"]
        /\ open = TRUE

Turn(n) == phase[n] = "new" /\ \A m \in Updates : m < n => phase[m] # "new"

Offer(n) == /\ Turn(n)
            /\ phase' = [phase EXCEPT ![n] = "waiting"]
            /\ UNCHANGED open

\* An update that is replaced was offered before the channel was closed, and so
\* is the one that takes its place.
Replace(m, n) == /\ open
                 /\ Turn(n)
                 /\ phase[m] = "waiting"
                 /\ phase' = [phase EXCEPT ![n] = "waiting", ![m] = "replaced"]
                 /\ UNCHANGED open

Deliver(n) == /\ phase[n] = "waiting"
              /\ phase' = [phase EXCEPT ![n] = "delivered"]
              /\ UNCHANGED open

\* The channel is closed, if it is not yet, and an update may get lost in that.
Close == /\ open
         /\ open' = FALSE
         /\ UNCHANGED phase

Drop(n) == /\ Turn(n)
           /\ phase' = [phase EXCEPT ![n] = "dropped"]
           /\ open' = FALSE

Next == \/ \E n \in Updates : Offer(n) \/ Deliver(n) \/ Drop(n)
        \/ \E m, n \in Updates : Replace(m, n)
        \/ Close

Spec == Init /\ [][Next]_vars
=============================================================================
