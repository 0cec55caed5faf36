--------------------------- MODULE MCReviewQueue ----------------------------
(***************************************************************************)
(* Model-checking instances of ReviewQueue: one status besides "pending".  *)
(***************************************************************************)
EXTENDS ReviewQueue

MCStatuses == {"resolved"}
=============================================================================
