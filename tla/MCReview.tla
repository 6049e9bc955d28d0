------------------------------ MODULE MCReview ------------------------------
(***************************************************************************)
(* Two tasks, or one that pauses twice, a text that reads YES and one that *)
(* does not, and two clicks, so that two executions may overlap.           *)
(***************************************************************************)
EXTENDS Review, TLC

\* Goroutines are chosen freely, and tasks are alike.
Interchangeable == Permutations(Executions) \cup Permutations(Tasks)
=============================================================================
