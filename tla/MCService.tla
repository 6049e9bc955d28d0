----------------------------- MODULE MCService -----------------------------
(***************************************************************************)
(* Two envelopes, each delivered at most twice.                            *)
(***************************************************************************)
EXTENDS Service

CONSTANTS e1, e2

MCEnvelopes == {e1, e2}
=============================================================================
