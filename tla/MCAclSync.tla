----------------------------- MODULE MCAclSync ------------------------------
(* Instances of AclSync for TLC. *)
EXTENDS AclSync

\* The memberships of t1 are announced, its documents' folders are not; the
\* connector of t2 announces nothing.
MCGrants == [t \in Tenants |-> IF t = "t1" THEN {"t1 member", "t1 parent"}
                                          ELSE {"t2 member", "t2 parent"}]
MCEvented == {"t1 member"}
AllGranted == MCGrants
OneStore == [t \in Tenants |-> "s"]

\* The service of t1 on a store of its own, MemoryFGA's or OpenFGA's.
Alone(kind) == {[mode |-> [t \in Tenants |-> IF t = "t1" THEN m ELSE "off"],
                 strict |-> kind,
                 changes |-> [t \in Tenants |-> IF t = "t1" THEN 3 ELSE 0]] :
                   m \in {"once", "watch"}}
AloneInOpenFGA == Alone(TRUE)

\* The service of t2, watching, and a single sync of t1 in one OpenFGA store.
Shared == {[mode |-> [t \in Tenants |-> IF t = "t1" THEN "once" ELSE "watch"],
            strict |-> TRUE,
            changes |-> [t \in Tenants |-> IF t = "t1" THEN 0 ELSE 1]]}

AloneOrShared == Alone(FALSE) \union Shared
=============================================================================
