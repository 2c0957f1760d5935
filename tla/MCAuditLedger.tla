--------------------------- MODULE MCAuditLedger ----------------------------
(* An instance of AuditLedger for TLC. *)
EXTENDS AuditLedger

\* Every writer writes for the one tenant, so all of them compete for its lock.
MCTenantOf == [w \in Writers |-> "t1"]
=============================================================================
