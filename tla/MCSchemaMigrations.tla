------------------------- MODULE MCSchemaMigrations -------------------------
(***************************************************************************)
(* Model-checking instance of SchemaMigrations: both servers, all five     *)
(* revisions, any sequence of commands.                                    *)
(***************************************************************************)
EXTENDS SchemaMigrations
=============================================================================
