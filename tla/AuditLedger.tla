---------------------------- MODULE AuditLedger -----------------------------
(***************************************************************************)
(* The hash-chained audit ledger: PostgresAuditWriter.Write, ComputeDigest *)
(* and VerifyChain (internal/engine/trace.go), with several writers in     *)
(* flight per tenant.                                                      *)
(*                                                                         *)
(* A write is stamped with the time its query STARTED (auditEntryFromTrace *)
(* copies trace.StartedAt) and runs, when the query ends, in one database  *)
(* transaction: take the tenant's advisory lock, read the digest of the    *)
(* newest row, chain to it, insert, commit.  "Newest" and the verifier's   *)
(* order are both (timestamp_utc, id).                                     *)
(*                                                                         *)
(* The table is kept as the sequence of its rows in commit order.  A       *)
(* digest is the tuple of the fields it hashes (SHA-256 without            *)
(* collisions); the fields that the chain does not depend on are one,      *)
(* `body`.  The empty previous_hash is the empty tuple.                    *)
(***************************************************************************)
EXTENDS Integers, Sequences, FiniteSets

CONSTANTS
    Writers,        \* audit writes, one per query
    Tenants,
    TenantOf,       \* TenantOf[w]: the tenant of the query of w
    Ids,            \* row ids, random UUIDs
    Resolution,     \* clock ticks (ns) per unit of TIMESTAMPTZ (us)
    MaxClock        \* bound on the clock

ASSUME LedgerAssumption ==
    /\ TenantOf \in [Writers -> Tenants]
    /\ Ids \subseteq Nat
    /\ Resolution \in Nat \ {0}
    /\ MaxClock \in Nat

VARIABLES
    clock,
    pc,             \* control point of each writer
    started,        \* trace.StartedAt
    holder,         \* writers holding the advisory lock of a tenant
    prev,           \* prevHash as read under the lock
    pending,        \* the row inserted by the open transaction of w
    table           \* audit_log in commit order

vars == <<clock, pc, started, holder, prev, pending, table>>

Root == << >>
NoRow == [id |-> -1]
Steps == {"idle", "running", "locking", "reading", "inserting", "committing",
          "done", "failed"}
InTransaction == {"reading", "inserting", "committing"}

\* ORDER BY timestamp_utc, id.
Precedes(r, s) ==
    \/ r.stamp < s.stamp
    \/ r.stamp = s.stamp /\ r.id < s.id

Rows(t) == {table[k] : k \in {j \in DOMAIN table : table[j].tenant = t}}

\* ORDER BY timestamp_utc DESC, id DESC LIMIT 1
Newest(S) == CHOOSE r \in S : \A s \in S \ {r} : Precedes(s, r)

\* Mutant: the digest leaves previous_hash out.
ComputeDigestUnchained(r) == <<r.trace, r.tenant, r.stamp, r.body>>

ComputeDigest(r) == <<r.trace, r.tenant, r.stamp, r.body, r.prev>>

\* Mutant: nanoseconds go into the digest.
NormalizeNot(t) == t

\* Truncate(time.Microsecond), before the digest is computed.
Normalize(t) == t - (t % Resolution)

\* What a TIMESTAMPTZ column keeps of a timestamp.
Stored(t) == t - (t % Resolution)

-----------------------------------------------------------------------------
Init ==
    /\ clock = 0
    /\ pc = [w \in Writers |-> "idle"]
    /\ started = [w \in Writers |-> 0]
    /\ holder = [t \in Tenants |-> {}]
    /\ prev = [w \in Writers |-> Root]
    /\ pending = [w \in Writers |-> NoRow]
    /\ table = << >>

Tick ==
    /\ clock < MaxClock
    /\ clock' = clock + 1
    /\ UNCHANGED <<pc, started, holder, prev, pending, table>>

\* The query of w starts.
Start(w) ==
    /\ pc[w] = "idle"
    /\ pc' = [pc EXCEPT ![w] = "running"]
    /\ started' = [started EXCEPT ![w] = clock]
    /\ UNCHANGED <<clock, holder, prev, pending, table>>

\* The query is over: BeginTx, then wait for the lock.
Begin(w) ==
    /\ pc[w] = "running"
    /\ pc' = [pc EXCEPT ![w] = "locking"]
    /\ UNCHANGED <<clock, started, holder, prev, pending, table>>

\* Mutant: the previous hash is read without the tenant's lock.
AcquireLockFree(w) ==
    /\ pc[w] = "locking"
    /\ holder' = [holder EXCEPT ![TenantOf[w]] = @ \union {w}]
    /\ pc' = [pc EXCEPT ![w] = "reading"]
    /\ UNCHANGED <<clock, started, prev, pending, table>>

\* pg_advisory_xact_lock(hashtext(tenant))
AcquireLock(w) ==
    /\ pc[w] = "locking"
    /\ holder[TenantOf[w]] = {}
    /\ holder' = [holder EXCEPT ![TenantOf[w]] = {w}]
    /\ pc' = [pc EXCEPT ![w] = "reading"]
    /\ UNCHANGED <<clock, started, prev, pending, table>>

\* Mutant: the wrong column of the newest row is read.
ReadPrevTrace(w) ==
    /\ pc[w] = "reading"
    /\ LET S == Rows(TenantOf[w])
       IN  prev' = [prev EXCEPT ![w] = IF S = {} THEN Root ELSE <<Newest(S).trace>>]
    /\ pc' = [pc EXCEPT ![w] = "inserting"]
    /\ UNCHANGED <<clock, started, holder, pending, table>>

\* Read the digest of the tenant's newest committed row.
ReadPrev(w) ==
    /\ pc[w] = "reading"
    /\ LET S == Rows(TenantOf[w])
       IN  prev' = [prev EXCEPT ![w] = IF S = {} THEN Root ELSE Newest(S).digest]
    /\ pc' = [pc EXCEPT ![w] = "inserting"]
    /\ UNCHANGED <<clock, started, holder, pending, table>>

\* INSERT INTO audit_log and audit_log_decisions: the digest is computed from
\* the entry, the column keeps what TIMESTAMPTZ keeps, the id is fresh.
Insert(w) ==
    LET entry == [trace |-> w, tenant |-> TenantOf[w], body |-> "original",
                  stamp |-> Normalize(started[w]), prev |-> prev[w]]
    IN  /\ pc[w] = "inserting"
        /\ \E id \in Ids :
            /\ \A k \in DOMAIN table : table[k].id # id
            /\ \A v \in Writers : pending[v].id # id
            /\ pending' = [pending EXCEPT ![w] =
                  [trace |-> w, tenant |-> TenantOf[w], body |-> entry.body,
                   stamp |-> Stored(entry.stamp), prev |-> entry.prev, id |-> id,
                   digest |-> ComputeDigest(entry)]]
        /\ pc' = [pc EXCEPT ![w] = "committing"]
        /\ UNCHANGED <<clock, started, holder, prev, table>>

Release(w) == [holder EXCEPT ![TenantOf[w]] = @ \ {w}]

\* The transaction commits and the lock goes with it.  The caller learns of
\* it, or its deadline passes first and it reports a failure.
Commit(w) ==
    /\ pc[w] = "committing"
    /\ table' = Append(table, pending[w])
    /\ holder' = Release(w)
    /\ pending' = [pending EXCEPT ![w] = NoRow]
    /\ \E outcome \in {"done", "failed"} : pc' = [pc EXCEPT ![w] = outcome]
    /\ UNCHANGED <<clock, started, prev>>

\* Mutant: a failed transaction is never rolled back.
AbortKeepsLock(w) ==
    /\ pc[w] \in InTransaction \union {"locking"}
    /\ pending' = [pending EXCEPT ![w] = NoRow]
    /\ pc' = [pc EXCEPT ![w] = "failed"]
    /\ UNCHANGED <<clock, started, holder, prev, table>>

\* A statement fails, writeCtx expires or the connection is lost: the
\* deferred Rollback (or the server) ends the transaction.
Abort(w) ==
    /\ pc[w] \in InTransaction \union {"locking"}
    /\ holder' = Release(w)
    /\ pending' = [pending EXCEPT ![w] = NoRow]
    /\ pc' = [pc EXCEPT ![w] = "failed"]
    /\ UNCHANGED <<clock, started, prev, table>>

\* The statements of an open write that succeed.
WriteStep(w) ==
    \/ Begin(w) \/ AcquireLock(w) \/ ReadPrev(w) \/ Insert(w) \/ Commit(w)

Next ==
    \/ Tick
    \/ \E w \in Writers : Start(w) \/ WriteStep(w) \/ Abort(w)

Spec == Init /\ [][Next]_vars

\* The database executes the statements of every open transaction.  Nothing
\* is assumed of failures: a waiting writer must not need its own timeout.
LiveSpec == Spec /\ \A w \in Writers : WF_vars(WriteStep(w))

-----------------------------------------------------------------------------
(* VerifyChain: rows are visited oldest first, each is recomputed and, but *)
(* for the first, compared with the one before it.                         *)

DigestMismatches(S) == {r \in S : ComputeDigest(r) # r.digest}

BrokenLinks(S) ==
    {r \in S : LET before == {s \in S : Precedes(s, r)}
               IN  before # {} /\ r.prev # Newest(before).digest}

VerifyChain(S) ==
    {<<r.trace, "digest_mismatch">> : r \in DigestMismatches(S)}
    \union {<<r.trace, "broken_link">> : r \in BrokenLinks(S)}

-----------------------------------------------------------------------------
(* Properties *)

RowOK(r) ==
    /\ r.trace \in Writers /\ r.tenant = TenantOf[r.trace]
    /\ r.stamp \in Nat /\ r.id \in Ids

TypeOK ==
    /\ clock \in 0..MaxClock
    /\ pc \in [Writers -> Steps]
    /\ started \in [Writers -> 0..MaxClock]
    /\ holder \in [Tenants -> SUBSET Writers]
    /\ DOMAIN prev = Writers
    /\ DOMAIN pending = Writers
    /\ \A w \in Writers : pc[w] = "committing" => RowOK(pending[w])
    /\ \A k \in DOMAIN table : RowOK(table[k])

\* Every row read back recomputes to the digest it was written with: what is
\* hashed is what the columns keep (the truncation in Write).
DigestsRecompute == \A t \in Tenants : DigestMismatches(Rows(t)) = {}

\* The rows of a tenant are one tree: only one of them has no previous hash,
\* however many first writes race (the advisory lock in Write).
OneRoot ==
    \A j, k \in DOMAIN table :
        table[j].prev = Root /\ table[k].prev = Root
        /\ table[j].tenant = table[k].tenant => j = k

\* A row's previous hash is the digest of a row of the same tenant that was
\* committed before it, never of another tenant's or of a row that was rolled
\* back (the latest-row query in Write).
LinksResolve ==
    \A k \in DOMAIN table :
        \/ table[k].prev = Root
        \/ \E j \in 1..(k - 1) : /\ table[j].tenant = table[k].tenant
                                 /\ table[j].digest = table[k].prev

\* The rows of tenant t were committed in the order the verifier reads them.
CommittedInOrder(t) ==
    \A j, k \in DOMAIN table :
        j < k /\ table[j].tenant = t /\ table[k].tenant = t
            => Precedes(table[j], table[k])

\* Queries that end in the order in which they started leave a chain that
\* verifies, whichever of their writes failed, lost their answer or waited for
\* the lock (Write, then VerifyChain over LoadAuditChain's order).
InOrderVerifies ==
    \A t \in Tenants : CommittedInOrder(t) => VerifyChain(Rows(t)) = {}

\* VerifyChain's own contract: "A non-empty result means the ledger was
\* tampered with".  Nothing tampers with the table here, so it must verify.
ReportsOnlyTampering == \A t \in Tenants : VerifyChain(Rows(t)) = {}

\* The exact extent of that contract: an untouched chain verifies if and only
\* if the tenant's queries ended in the order in which they started (Write
\* chains in commit order, VerifyChain reads in start order).
VerifiesIffInOrder ==
    \A t \in Tenants : VerifyChain(Rows(t)) = {} <=> CommittedInOrder(t)

\* The forgeries of row r: another body, another time, another link.
Forged(r) ==
    {[r EXCEPT !.body = "altered"], [r EXCEPT !.stamp = @ + Resolution]}
    \union {[r EXCEPT !.prev = d] :
               d \in ({Root} \union {s.digest : s \in Rows(r.tenant)}) \ {r.prev}}

\* Tampering is reported: changing a hashed field of a row, its link included,
\* is reported for that row, and removing a row between two others of a chain
\* that verifies is reported (ComputeDigest and VerifyChain; the first and the
\* last row are beyond their reach).
TamperingReported ==
    \A t \in Tenants : \A r \in Rows(t) :
        LET others == Rows(t) \ {r}
        IN  /\ \A f \in Forged(r) : <<r.trace, "digest_mismatch">> \in VerifyChain(others \union {f})
            /\ VerifyChain(Rows(t)) = {} /\ (\E a, b \in others : Precedes(a, r) /\ Precedes(r, b))
                  => VerifyChain(others) # {}

\* Every write that has begun ends, whichever of the writes before it fail:
\* the lock never stays with a dead transaction (the deferred Rollback).
WritesEnd ==
    \A w \in Writers : pc[w] = "locking" ~> pc[w] \in {"done", "failed"}

-----------------------------------------------------------------------------
(* The inductive invariant behind DigestsRecompute, OneRoot, LinksResolve. *)

\* The advisory lock excludes: a transaction of tenant t is the holder.
LockHeld ==
    \A w \in Writers : pc[w] \in InTransaction => holder[TenantOf[w]] = {w}

\* Row ids are unique, those about to be committed included.
IdsUnique ==
    /\ \A j, k \in DOMAIN table : table[j].id = table[k].id => j = k
    /\ \A w \in Writers : pc[w] = "committing" =>
          /\ \A k \in DOMAIN table : table[k].id # pending[w].id
          /\ \A v \in Writers \ {w} : pc[v] = "committing" => pending[v].id # pending[w].id

\* The rows of a tenant, if any, have a newest one.
NewestExists ==
    \A t \in Tenants : Rows(t) # {} =>
        \E r \in Rows(t) : \A s \in Rows(t) \ {r} : Precedes(s, r)

\* prevHash is not stale while the lock is held.
PrevFresh ==
    \A w \in Writers : pc[w] \in {"inserting", "committing"} =>
        IF Rows(TenantOf[w]) = {} THEN prev[w] = Root
        ELSE \E r \in Rows(TenantOf[w]) : prev[w] = r.digest

\* The inserted row carries the previous hash and its own digest.
PendingSound ==
    \A w \in Writers : pc[w] = "committing" =>
        /\ pending[w].prev = prev[w] /\ pending[w].tenant = TenantOf[w]
        /\ pending[w].digest = ComputeDigest(pending[w])

RowsSound == \A k \in DOMAIN table : table[k].digest = ComputeDigest(table[k])

LedgerInv ==
    /\ TypeOK /\ LockHeld /\ IdsUnique /\ NewestExists /\ PrevFresh
    /\ PendingSound /\ RowsSound /\ OneRoot /\ LinksResolve

-----------------------------------------------------------------------------
(* What VerifiesIffInOrder and TamperingReported need besides LedgerInv.   *)

\* Any rows of a tenant have a newest and an oldest one.
Ranked ==
    \A t \in Tenants : \A S \in SUBSET Rows(t) : S # {} =>
        /\ \E r \in S : \A s \in S \ {r} : Precedes(s, r)
        /\ \E r \in S : \A s \in S \ {r} : Precedes(r, s)

\* The rows of the k-th row's tenant that were committed before it.
Earlier(k) == {table[j] : j \in {i \in 1..(k - 1) : table[i].tenant = table[k].tenant}}

LinkTo(S) == IF S = {} THEN Root ELSE Newest(S).digest

\* A row links to the row that was the newest when it was committed, and a
\* writer that holds the lock is about to.
LinksNewest ==
    /\ \A k \in DOMAIN table : table[k].prev = LinkTo(Earlier(k))
    /\ \A w \in Writers : pc[w] \in {"inserting", "committing"} =>
          prev[w] = LinkTo(Rows(TenantOf[w]))

AsWritten(r) ==
    /\ DOMAIN r = {"trace", "tenant", "body", "stamp", "prev", "id", "digest"}
    /\ r.body = "original"

\* A writer leaves at most one row, as it wrote it, and then it is over.
OneRowEach ==
    /\ \A j, k \in DOMAIN table : table[j].trace = table[k].trace => j = k
    /\ \A k \in DOMAIN table : AsWritten(table[k])
                               /\ pc[table[k].trace] \in {"done", "failed"}
    /\ \A w \in Writers : pc[w] = "committing" =>
          pending[w].trace = w /\ AsWritten(pending[w])

\* The rows of a tenant have a root.
RootThere ==
    \A t \in Tenants : Rows(t) # {} => \E r \in Rows(t) : r.prev = Root

ChainInv == Ranked /\ LinksNewest /\ OneRowEach /\ RootThere

=============================================================================
