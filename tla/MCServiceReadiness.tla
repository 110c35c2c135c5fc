------------------------- MODULE MCServiceReadiness -------------------------
(***************************************************************************)
(* The readiness loop beside two concurrent queries.              *)
(***************************************************************************)
EXTENDS ServiceReadiness

=============================================================================
