----------------------------- MODULE AuditRead ------------------------------
(***************************************************************************)
(* The audit read API: the handlers of runtime/audit_api.go over           *)
(* PostgresAuditReader (engine/audit_query.go), while queries go on and    *)
(* are audited.                                                            *)
(*                                                                         *)
(* A row is stamped with the time its query started and appears, with its  *)
(* decision rows, when its transaction commits (AuditLedger has the write  *)
(* path in detail).  Its id is a random UUID, so rows with equal stamps    *)
(* have any order.  A row's id stands for its trace_id as well: both are   *)
(* unique.                                                                 *)
(*                                                                         *)
(* Readers share nothing, so one reader is modelled.  It walks the pages   *)
(* of a listing, or makes one of the other requests; a request that fails  *)
(* (400, 401, 404, 500, 503) changes nothing and is left out.              *)
(***************************************************************************)
EXTENDS Integers, Sequences, FiniteSets, SequencesExt, FiniteSetsExt

CONSTANTS
    Tenants,
    Ids,                    \* row ids
    Columns, Values,        \* the columns filters compare, their values
    Decisions,              \* sequences of access decisions of one query
    Limits,                 \* page sizes clients ask for; 0: none given
    DefaultLimit, MaxLimit, \* 50 and 200
    MaxVerify,              \* MaxAuditVerifyEntries (100 000)
    MaxRunning,             \* bound on the queries in flight
    MaxClock                \* bound on the clock

ASSUME ReadAssumption ==
    /\ Ids \subseteq Nat
    /\ Limits \subseteq Nat
    /\ MaxLimit \in Nat /\ DefaultLimit \in 1..MaxLimit
    /\ MaxVerify \in Nat /\ MaxRunning \in Nat /\ MaxClock \in Nat

VARIABLES
    now,
    running,    \* queries in flight
    table,      \* audit_log
    decided,    \* audit_log_decisions: id -> decisions, by ordinal
    req         \* the reader's request

vars == <<now, running, table, decided, req>>

Idle == [op |-> "idle"]
Done(op) == req.op = op /\ req.pc = "done"

-----------------------------------------------------------------------------
(* Queries and their audit rows *)

Tick ==
    /\ now < MaxClock
    /\ now' = now + 1
    /\ UNCHANGED <<running, table, decided, req>>

\* A query starts; what it will be audited as is settled when it ends.
Start ==
    /\ Cardinality(running) < MaxRunning
    /\ \E t \in Tenants : running' = running \union {[tenant |-> t, ts |-> now]}
    /\ UNCHANGED <<now, table, decided, req>>

\* Mutant: the decision rows are left for later.
CommitRowOnly(q) ==
    \E id \in Ids \ {r.id : r \in table}, cols \in [Columns -> Values], ds \in Decisions :
        /\ running' = running \ {q}
        /\ table' = table \union {[id |-> id, tenant |-> q.tenant, ts |-> q.ts,
                                   cols |-> cols, blob |-> ds]}
        /\ decided' = decided
        /\ UNCHANGED <<now, req>>

\* Its row, with the decisions as a blob and as rows, in one transaction.
Commit(q) ==
    \E id \in Ids \ {r.id : r \in table}, cols \in [Columns -> Values], ds \in Decisions :
        /\ running' = running \ {q}
        /\ table' = table \union {[id |-> id, tenant |-> q.tenant, ts |-> q.ts,
                                   cols |-> cols, blob |-> ds]}
        /\ decided' = [decided EXCEPT ![id] = ds]
        /\ UNCHANGED <<now, req>>

\* The query ends without a row: its write failed.
Unaudited(q) ==
    /\ running' = running \ {q}
    /\ UNCHANGED <<now, table, decided, req>>

-----------------------------------------------------------------------------
(* GET /v1/audit *)

\* AuditFilter: equalities on some columns, and a half-open window.
Filters == [eq : UNION {[C -> Values] : C \in SUBSET Columns},
            from : 0..MaxClock, to : 1..(MaxClock + 1)]

Matches(f, r) ==
    /\ \A c \in DOMAIN f.eq : r.cols[c] = f.eq[c]
    /\ f.from <= r.ts /\ r.ts < f.to

\* (timestamp_utc, id) < ($ts, $id), and ORDER BY timestamp_utc DESC, id DESC
Below(r, c) == r.ts < c.ts \/ (r.ts = c.ts /\ r.id < c.id)

\* limit: 50 if not given, at most 200.
PageSize(n) == IF n = 0 THEN DefaultLimit ELSE Min({n, MaxLimit})

\* The WHERE clause; the cursor is << >> or the position of a row.
Selected(t, f, cursor) ==
    {r \in table : /\ r.tenant = t
                   /\ Matches(f, r)
                   /\ cursor = << >> \/ Below(r, cursor[1])}

\* The rows in the order of the query, newest first.
Descending(S) ==
    CHOOSE rows \in [1..Cardinality(S) -> S] :
        \A i, j \in 1..Cardinality(S) : i < j => Below(rows[j], rows[i])

\* Mutant: the cursor is the extra row that was fetched.
CursorExtra(rows, size) ==
    IF Len(rows) > size THEN <<[ts |-> rows[size + 1].ts, id |-> rows[size + 1].id]>>
    ELSE << >>

\* NextCursor, of the last row that is returned, when there are more.
NextCursor(rows, size) ==
    IF Len(rows) > size THEN <<[ts |-> rows[size].ts, id |-> rows[size].id]>>
    ELSE << >>

\* One page: the first `size` rows of the limit + 1 that were fetched, after
\* the ones the client has already.
Page(r, cursor) ==
    LET size == PageSize(r.limit)
        all == Descending(Selected(r.tenant, r.filter, cursor))
        rows == SubSeq(all, 1, Min({Len(all), size + 1}))
        next == NextCursor(rows, size)
    IN  [r EXCEPT !.got = @ \o SubSeq(rows, 1, Min({Len(rows), size})),
                  !.cursor = next,
                  !.pc = IF next = << >> THEN "done" ELSE "more"]

\* auditList without a cursor.  `before`: the rows there are at this moment.
auditList ==
    /\ req = Idle
    /\ \E t \in Tenants, f \in Filters, n \in Limits :
        req' = Page([op |-> "list", pc |-> "more", tenant |-> t, filter |-> f,
                     limit |-> n, got |-> << >>, cursor |-> << >>,
                     before |-> Selected(t, f, << >>)], << >>)
    /\ UNCHANGED <<now, running, table, decided>>

\* auditList with the cursor of the page before.
auditListNext ==
    /\ req.op = "list" /\ req.pc = "more"
    /\ req' = Page(req, req.cursor)
    /\ UNCHANGED <<now, running, table, decided>>

-----------------------------------------------------------------------------
(* GET /v1/audit/{trace_id}: the row, then its decisions in a second query *)

auditGetRow ==
    /\ req = Idle
    /\ \E t \in Tenants, r \in table :
        /\ r.tenant = t
        /\ req' = [op |-> "get", pc |-> "row", row |-> r, decisions |-> << >>]
    /\ UNCHANGED <<now, running, table, decided>>

\* loadDecisions, and the blob when there are none.
auditGetDecisions ==
    /\ req.op = "get" /\ req.pc = "row"
    /\ req' = [req EXCEPT !.pc = "done",
                          !.decisions = IF decided[req.row.id] # << >>
                                        THEN decided[req.row.id] ELSE req.row.blob]
    /\ UNCHANGED <<now, running, table, decided>>

-----------------------------------------------------------------------------
(* GET /v1/audit/stats: one statement, one snapshot *)

\* Mutant: a breakdown is taken over all that is there.
WindowOpen(t, from, to) == {r \in table : r.tenant = t /\ from <= r.ts}

\* The CTE `win`.
Window(t, from, to) == {r \in table : r.tenant = t /\ from <= r.ts /\ r.ts < to}

Count(S, c) == [v \in {r.cols[c] : r \in S} |-> Cardinality({r \in S : r.cols[c] = v})]

\* The total, and one breakdown per column; `to` defaults to the present.  The
\* ten busiest agents, a breakdown cut short, are left out.
auditStats ==
    /\ req = Idle
    /\ \E t \in Tenants, from \in 0..MaxClock, to \in (1..MaxClock) \union {now} :
        /\ from <= to
        /\ LET win == Window(t, from, to)
           IN  req' = [op |-> "stats", pc |-> "done", tenant |-> t, from |-> from, to |-> to,
                       total |-> Cardinality(win),
                       by |-> [c \in Columns |-> Count(win, c)],
                       before |-> table]
    /\ UNCHANGED <<now, running, table, decided>>

-----------------------------------------------------------------------------
(* GET /v1/audit/verify: count, then load the chain in a second query *)

Chain(t) == {r \in table : r.tenant = t}

\* SELECT COUNT(*): too large a chain is refused without loading it (413).
auditVerifyCount ==
    /\ req = Idle
    /\ \E t \in Tenants :
        LET count == Cardinality(Chain(t))
        IN  req' = [op |-> "verify", tenant |-> t, count |-> count, checked |-> 0,
                    refused |-> count > MaxVerify,
                    pc |-> IF count > MaxVerify THEN "done" ELSE "counted"]
    /\ UNCHANGED <<now, running, table, decided>>

\* LoadAuditChain and VerifyChain.
auditVerifyLoad ==
    /\ req.op = "verify" /\ req.pc = "counted"
    /\ req' = [req EXCEPT !.pc = "done", !.checked = Cardinality(Chain(req.tenant))]
    /\ UNCHANGED <<now, running, table, decided>>

\* The response is delivered (or the client gives up between two pages).
Finish ==
    /\ req # Idle
    /\ req' = Idle
    /\ UNCHANGED <<now, running, table, decided>>

-----------------------------------------------------------------------------
Init ==
    /\ now = 0
    /\ running = {}
    /\ table = {}
    /\ decided = [id \in Ids |-> << >>]
    /\ req = Idle

Next ==
    \/ Tick
    \/ Start
    \/ \E q \in running : Commit(q) \/ Unaudited(q)
    \/ auditList \/ auditListNext
    \/ auditGetRow \/ auditGetDecisions
    \/ auditStats
    \/ auditVerifyCount \/ auditVerifyLoad
    \/ Finish

Spec == Init /\ [][Next]_vars

-----------------------------------------------------------------------------
(* Properties *)

\* Rows are unique and never from the future; decision rows have their row.
TypeOK ==
    /\ now \in 0..MaxClock
    /\ \A r, s \in table : r.id = s.id => r = s
    /\ \A r \in table \union running : r.tenant \in Tenants /\ r.ts \in 0..now
    /\ \A id \in Ids : decided[id] # << >> => \E r \in table : r.id = id
    /\ req.op \in {"idle", "list", "get", "stats", "verify"}

\* Paging is exact under concurrent writes: a listing that was followed to its
\* end has every row of the tenant that matched and was there when it began, each
\* row once, newest first; rows that are committed while the client pages appear
\* only if they sort below the cursor, never twice, and never from another tenant.
\* The state is well typed throughout.
PagesAreExact ==
    /\ TypeOK
    /\ req.op = "list" =>
        /\ \A i, j \in DOMAIN req.got : i < j => Below(req.got[j], req.got[i])
        /\ \A i \in DOMAIN req.got : req.got[i] \in Selected(req.tenant, req.filter, << >>)
                                     /\ req.got[i].tenant = req.tenant
        /\ \A r \in req.before :
               \/ r \in Range(req.got)
               \/ req.pc = "more" /\ Below(r, Last(req.got))

\* A detail has the decisions its query was audited with, though the row and the
\* decisions are read by two statements outside a transaction.
DetailIsWhole == Done("get") => req.decisions = decided[req.row.id] /\ req.row \in table
                                /\ req.decisions = req.row.blob

\* The breakdowns of the statistics add up to the total, and the windows before
\* and from any instant on add up to the whole: no row is counted in two windows
\* that meet, none falls between them.
StatsAddUp ==
    Done("stats") =>
        /\ \A c \in Columns : MapThenSumSet(LAMBDA v : req.by[c][v], DOMAIN req.by[c]) = req.total
        /\ \A mid \in req.from..req.to :
               req.total = Cardinality(Window(req.tenant, req.from, mid) \intersect req.before)
                           + Cardinality(Window(req.tenant, mid, req.to) \intersect req.before)

-----------------------------------------------------------------------------
(* The inductive invariant behind the three properties *)

Row == [id : Ids, tenant : Tenants, ts : 0..MaxClock, cols : [Columns -> Values],
        blob : Decisions]

\* The requests that take more than one step.
Listing == [op : {"list"}, pc : {"more", "done"}, tenant : Tenants, filter : Filters,
            limit : Limits, got : Seq(Row),
            cursor : Seq([ts : 0..MaxClock, id : Ids]), before : SUBSET Row]

Detail == [op : {"get"}, pc : {"row", "done"}, row : Row,
           decisions : Decisions \union {<< >>}]

Verification == [op : {"verify"}, tenant : Tenants, count : Nat, checked : Nat,
                 refused : BOOLEAN, pc : {"counted", "done"}]

\* The audit table: finitely many rows, told apart by their ids, none from the
\* future, and each with its decisions as rows; no decisions without a row.
TableInv ==
    /\ now \in 0..MaxClock
    /\ IsFiniteSet(table) /\ table \subseteq Row
    /\ running \subseteq [tenant : Tenants, ts : 0..MaxClock]
    /\ \A r \in table \union running : r.ts <= now
    /\ \A r, s \in table : r.id = s.id => r = s
    /\ decided \in [Ids -> Decisions \union {<< >>}]
    /\ \A r \in table : decided[r.id] = r.blob
    /\ \A id \in Ids : decided[id] # << >> => \E r \in table : r.id = id

\* A listing so far: rows of its selection, in order, down to the cursor; of the
\* rows that were there when it began only some below the cursor are missing.
ListInv(r) ==
    /\ r.before \subseteq Selected(r.tenant, r.filter, << >>)
    /\ \A i, j \in DOMAIN r.got : i < j => Below(r.got[j], r.got[i])
    /\ \A i \in DOMAIN r.got : r.got[i] \in Selected(r.tenant, r.filter, << >>)
    /\ r.pc = "more" => /\ r.got # << >>
                        /\ r.cursor = <<[ts |-> Last(r.got).ts, id |-> Last(r.got).id]>>
    /\ \A b \in r.before : b \in Range(r.got) \/ (r.pc = "more" /\ Below(b, Last(r.got)))

\* A detail so far: a row that is there, and in the end its decisions.
DetailInv(r) == r.row \in table /\ (r.pc = "done" => r.decisions = r.row.blob)

\* Statistics: taken over one window of the rows there were, which are there still.
Within(r) == {b \in r.before : b.tenant = r.tenant /\ r.from <= b.ts /\ b.ts < r.to}

StatsInv(r) ==
    /\ r.before \subseteq table
    /\ r.from \in 0..MaxClock /\ r.to \in 0..MaxClock
    /\ r.total = Cardinality(Within(r))
    /\ r.by = [c \in Columns |-> Count(Within(r), c)]

ReadInv ==
    /\ TableInv
    /\ \/ req = Idle \/ req \in Verification
       \/ req \in Listing /\ ListInv(req)
       \/ req \in Detail /\ DetailInv(req)
       \/ req.op = "stats" /\ StatsInv(req)
=============================================================================
