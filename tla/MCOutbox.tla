------------------------------ MODULE MCOutbox ------------------------------
(***************************************************************************)
(* Model-checking instances of Outbox.  Workers are model values.  They    *)
(* are interchangeable, but no symmetry is declared: the instances check   *)
(* liveness, and runs have an order (created_at).                          *)
(***************************************************************************)
EXTENDS Outbox
=============================================================================
