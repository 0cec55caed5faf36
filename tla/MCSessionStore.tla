--------------------------- MODULE MCSessionStore ---------------------------
(***************************************************************************)
(* The model-checking instance of SessionStore: its constants are in the   *)
(* .cfg.  No symmetry: the run checks liveness.                            *)
(***************************************************************************)
EXTENDS SessionStore
=============================================================================
