----------------------------- MODULE MCGateway -----------------------------
(***************************************************************************)
(* Two channels.  c1 gets three mentions, c2 two, and recovery reports two *)
(* more tasks of c2.  MaxFinishes is never reached: an execution finishes  *)
(* at most three tasks.                                                    *)
(***************************************************************************)
EXTENDS Gateway

CONSTANTS c1, c2

MCTasks     == 1 .. 7
MCChannels  == {c1, c2}
MCChannelOf == <<c1, c1, c1, c2, c2, c2, c2>>
MCCallers   == {EventLoop}
MCRecovered == {6, 7}
=============================================================================
