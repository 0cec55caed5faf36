---------------------------- MODULE MCDebugPanel ----------------------------
(***************************************************************************)
(* Model-checking instance of DebugPanel: two sends or one that starts     *)
(* both loops, three rounds instead of 180, and a stream of two events.    *)
(***************************************************************************)
EXTENDS DebugPanel

TwoEvents == <<"run_started", "message">>
=============================================================================
