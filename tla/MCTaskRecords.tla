--------------------------- MODULE MCTaskRecords ---------------------------
(***************************************************************************)
(* Two tasks of one channel.                                               *)
(***************************************************************************)
EXTENDS TaskRecords, TLC

CONSTANTS t1, t2, c1

MCTasks     == {t1, t2}
MCChannels  == {c1}
MCChannelOf == [t \in MCTasks |-> c1]

\* The tasks are interchangeable.
Interchangeable == Permutations(MCTasks)
=============================================================================
