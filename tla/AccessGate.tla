----------------------------- MODULE AccessGate -----------------------------
(***************************************************************************)
(* What the runtime promises of a query, without any of its machinery: a   *)
(* query is asked once and closed once; closing it discloses a set of      *)
(* chunks inside the asker's tenant and region that, when enforcement is   *)
(* on, the asker could read at some moment while the query was open; a     *)
(* disclosure that is not empty is on a ledger which only ever grows.      *)
(* QueryEngine implements this specification.                              *)
(***************************************************************************)
CONSTANTS
    Queries,
    Chunks,
    Asker,      \* Asker[q]: the user of query q
    Inside,     \* Inside[q]: the chunks within the boundary of query q
    Size(_)     \* how a ledger row counts a set of chunks

VARIABLES
    enforce,    \* are per-user permissions enforced?
    phase,      \* phase[q]: "idle", "open" or "closed"
    acl,        \* <<user, chunk>> pairs
    readable,   \* readable[q]: chunks the asker could read while q was open
    cited,
    ledger

gateVars == <<enforce, phase, acl, readable, cited, ledger>>

ReadableNow(q, permissions) == {c \in Chunks : <<Asker[q], c>> \in permissions}

GateInit ==
    /\ enforce \in BOOLEAN
    /\ phase = [q \in Queries |-> "idle"]
    /\ readable = [q \in Queries |-> {}]
    /\ cited = [q \in Queries |-> {}]
    /\ ledger = {}

Ask(q) ==
    /\ phase[q] = "idle"
    /\ phase' = [phase EXCEPT ![q] = "open"]
    /\ readable' = [readable EXCEPT ![q] = ReadableNow(q, acl)]
    /\ UNCHANGED <<enforce, acl, cited, ledger>>

ChangePermissions ==
    /\ readable' = [q \in Queries |-> IF phase[q] = "open"
                                      THEN readable[q] \union ReadableNow(q, acl')
                                      ELSE readable[q]]
    /\ UNCHANGED <<enforce, phase, cited, ledger>>

\* The rows added on closing q are q's own, and one of them matches what is
\* disclosed.
Close(q, disclosed) ==
    /\ phase[q] = "open"
    /\ phase' = [phase EXCEPT ![q] = "closed"]
    /\ disclosed \subseteq Inside[q]
    /\ enforce => disclosed \subseteq readable[q]
    /\ cited' = [cited EXCEPT ![q] = disclosed]
    /\ ledger \subseteq ledger'
    /\ \A row \in ledger' \ ledger : row.query = q
    /\ disclosed # {} =>
            \E row \in ledger' : row.query = q /\ row.allowed = Size(disclosed)
    /\ UNCHANGED <<enforce, acl, readable>>

GateNext ==
    \/ \E q \in Queries : Ask(q) \/ \E disclosed \in SUBSET Chunks : Close(q, disclosed)
    \/ ChangePermissions

GateSpec == GateInit /\ [][GateNext]_gateVars
=============================================================================
