--------------------------- MODULE MCServiceCalls ---------------------------
(* Model-checking instance of ServiceCalls. *)
EXTENDS ServiceCalls

MCPlans == {SearchVector, CanAccess}
=============================================================================
