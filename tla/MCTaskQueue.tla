---------------------------- MODULE MCTaskQueue ----------------------------
(***************************************************************************)
(* Two goroutines, four tasks in three channels, at most two at once.      *)
(***************************************************************************)
EXTENDS TaskQueue

CONSTANTS t1, t2, t3, t4, c1, c2, c3, g1, g2

MCTasks     == {t1, t2, t3, t4}
MCChannels  == {c1, c2, c3}
MCChannelOf == (t1 :> c1) @@ (t2 :> c1) @@ (t3 :> c2) @@ (t4 :> c3)
MCCallers   == {g1, g2}

\* The tasks of channel c1 are interchangeable, and so are the goroutines.
Interchangeable == Permutations({t1, t2}) \cup Permutations({g1, g2})
=============================================================================
