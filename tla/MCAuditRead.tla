---------------------------- MODULE MCAuditRead -----------------------------
(* Model-checking instance of AuditRead. *)
EXTENDS AuditRead

MCDecisions == {<< >>, <<"allow", "deny">>}
=============================================================================
