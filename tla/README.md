# Groundwork: a TLA+ model of the runtime and its services

Groundwork is a permission-aware retrieval runtime. An agent asks a question on
behalf of a user; the runtime retrieves candidate chunks, asks a live permission
store (OpenFGA) about every one of them, answers with the chunks the user may
read, and writes an audit row to a hash-chained ledger before it answers. A
separate service keeps the permission store in step with the enterprise source
of permissions; an ingestion service fills the indexes. When anything fails, the
answer is empty ("fail closed").

Paths below are relative to `services/query-runtime/internal/` unless they start
with another directory.

## 1. Inventory

| Component | State | Operations | Interacts with | What is hard |
|---|---|---|---|---|
| Query engine (`engine/engine.go`) | three shared circuit breakers; per query: candidates, goroutine results, decisions, counters | `Execute`, `retrieve`, `filterChunksConcurrently`, `rerank`, `writeAudit`, `failClosed` | retrieval backend, permission store, audit ledger | up to 50 goroutines per query, results in any order, two nested deadlines, late results, ambiguous audit writes |
| Engine circuit breaker (`engine/circuit_breaker.go`) | state, failure count, time of opening | `Allow`, `ReportSuccess`, `ReportFailure` | every query | reports from calls admitted in an earlier state; half-open admits everyone |
| Audit ledger (`engine/trace.go`) | `audit_log` rows, per-tenant advisory lock | `Write`, `ComputeDigest`, `VerifyChain`, `LoadAuditChain` | PostgreSQL | concurrent writers, rollbacks, commit order against start order, precision of timestamps |
| Audit read API (`engine/audit_query.go`, `runtime/audit_api.go`) | none | list, get, stats, verify | ledger | cursors and two-statement reads while rows with earlier stamps are committed |
| ACL sync (`aclsync/service.go`, `sync.go`, `fga.go`, `mock.go`) | tuple store, change channel, snapshot and listing of the sync in progress | `Run`, `reconcile`, `applyChange`, `withRetry`, `SyncToOpenFGA`, `DetectDrift` | connector, OpenFGA | lost and reordered events, outages that look like an empty source, retries of requests that took effect |
| Permission tuples, check, leak report (`aclsync/tuples.go`, `fga.go`, `leakreport/`) | none | `PermissionSetToTuples`, `Check`, `Analyze` | snapshots | nested and cyclic groups, inheritance from folders |
| Microsoft Graph connector (`aclsync/msgraph`) | catalogue, delta token | `Snapshot`, `EnumerateDirectory`, `pollDelta`, canonicalizer | Microsoft Graph, ACL sync, alias table | a directory that changes between two requests, failures half way |
| Service breaker and retry (`runtime/circuit_breaker.go`, `retry.go`, `backend.go`, `openfga.go`) | state, count, half-open slots in use | `Allow`, reports, `retryWithBackoff` | OpenFGA, Qdrant, Elasticsearch, embedding endpoint | slots that are taken and must be returned, late reports |
| OpenFGA client (`runtime/openfga.go`) | store id, ready flag | `ensure`, `CanAccess`, `writeTuples` | OpenFGA, ingestion | provisioning in several requests, several processes |
| Identity (`runtime/principal.go`, `identity.go`) | alias table, TTL cache | `Resolve`, `UpsertAliases`, `CanonicalizeIdentity` | server, MCP, directory sync | read-through cache against a table that others write |
| API keys, rate limiter (`runtime/auth.go`, `ratelimit.go`, `server.go`) | key table, windows | `Resolve`, create, rotate, revoke, bootstrap, `Allow` | server, MCP | handlers act on a snapshot of their key, window boundaries, restarts |
| Ingestion (`services/ingestion`) | vector and lexical index | `ingest_file`, dual-index write, rollback, grants | indexes, OpenFGA | failure between the two writes, retries, crashes |
| Discard sink, GitHub connector, metrics, commands, console, examples | | | | not modelled, see section 5 |

What makes each part correct, in one line:

- *engine*: an answer cites only chunks of the asker's tenant and region that the
  permission store allowed during the query, and only if the ledger says so;
  every query is answered; no goroutine leaks;
- *circuits*: state and count agree, whatever is reported when; slots come home;
- *ledger*: rows recompute to their digest; every row links to an earlier row of
  its tenant; tampering is reported;
- *audit reads*: no row twice, none missed, no torn answer;
- *ACL sync*: standing grants survive every fault; the store converges to the source;
- *connector and check*: a snapshot invents and forgets nothing, and what it grants
  is what the directory grants;
- *identity*: a query runs as somebody its token named recently, one person per
  principal;
- *keys*: a key never crosses its tenant, a dead one stays dead, nobody is locked out;
- *ingestion*: after success everything is in both indexes and granted; after a
  failure what is left over is known.

`PROJECT.json` lists the hazards at their lines, with the properties that cover
each.

## 2. Modules

| Module | What it is |
|---|---|
| `CircuitBreaker` | the engine's breaker as functions from breaker to breaker |
| `QueryEngine` | the query path, extends `CircuitBreaker` |
| `AccessGate` | abstract specification of a query; `QueryEngine` implements it |
| `AuditLedger` | the write path of the ledger and its verifier |
| `AuditRead` | the read API over a ledger that grows |
| `AclSync` | the sync service |
| `Permissions` | permission sets, tuples, `Check`, leak report: pure functions |
| `GraphConnector` | the Microsoft Graph connector, extends `Permissions` |
| `Identity` | from a token to the user a query runs as |
| `ApiKeys` | keys, rate limiter, key-management handlers |
| `ServiceCalls` | the runtime's calls behind the half-open breakers |
| `Ingestion` | uploads, and the OpenFGA store that two services provision |
| `MC*` | values for TLC |
| `QueryEngineProofs`, `AuditLedgerProofs`, `AuditReadProofs`, `ApiKeysProofs`, `ServiceCallsProofs`, `IngestionProofs`, `GraphConnectorProofs` | proofs about the module of that name |
| `SyncProofs` | proofs about `AclSync` and `Identity` |

In every module definitions named "Mutant" are wrong variants of the definition
that follows; the specifications do not use them. They show that each property
can fail.

### QueryEngine

`pc[q]` names the statement a query executes next, and the actions follow the
code: `Execute` (the validation and wiring guards), `Retrieve*`, `FilterRefused`
(the ACL circuit is open) or `FilterStart` (one goroutine per candidate),
`Check*` (the steps of goroutine `i`: boundary test, semaphore, `CanAccess`, the
send), `Collect`, `CollectGivesUp` (the `aclCtx.Done` case) and `CollectDone`,
`WriteAudit*` (rerank, `writeAudit`, answer) and `FailAudit*` (`failClosed`). The
environment lets deadlines pass, circuit windows elapse and permissions change
at any moment. A query may find circuits open, left so by queries of the past
(`Tripped`), and permissions in place (`Standing`).

Abstractions: a chunk is a model value with a home tenant and region and a score;
scores are compared, never computed; the reason of an ACL error is one value
(`acl_error`) because nothing but the metrics tells the classes apart; a
breaker's clock is the bit "the open timeout has passed", and its failure count
saturates at the limit, above which the code does not distinguish values. A check
is answered from the permissions of one moment. `seen[q]` is a history variable:
the chunks the user of `q` could read at some moment while `q` ran. A write to
the audit store that is in flight may fail and yet be committed, because the
deadline can pass between the commit and its acknowledgement. A context that is
already done fails the audit call before it reaches the store.

`AccessGate` is the same promise without machinery: a query is asked, then
closed once with a set of chunks inside the boundary and, when enforcement is
on, inside what was readable while it was open; rows are only ever added to the
ledger, and a disclosure has one. Under the refinement mapping `phase` is "open"
from `Execute` until `pc = "done"`, so everything in between, the ambiguous
commits included, happens in the step that closes the query or is a stutter.

### AuditLedger and AuditRead

A writer is a query with its audit write. `started` is the time `Execute` put
into the trace. `Begin`, `AcquireLock`, `ReadPrev`, `Insert`, `Commit` are the
statements of `Write`; `Abort` is a failure of any of them followed by the
deferred rollback; `Commit` may be reported as failed. The table is the sequence
of rows in commit order; `Precedes` is `ORDER BY timestamp_utc, id`, used, as in
the code, both for "the latest row" and for the verifier's order. A digest is the
tuple of the hashed fields, so SHA-256 is taken as collision free. `body` stands
for the hashed fields that are neither stamp nor link. A clock tick is a
nanosecond and `Resolution` ticks are what TIMESTAMPTZ keeps apart. Row ids are
random UUIDs: any unused id.

`AuditRead` takes a committed row as one step and looks at the readers: one step
per SQL statement of a listing (page by page, with the `(timestamp_utc, id)`
cursor and the one extra row that tells whether there is more), a detail (the
row, then the decisions, then the blob as a fallback), statistics, and a
verification (count, then load). Readers share nothing, so there is one. The
columns that filters compare are an arbitrary set.

### AclSync

One service per tenant: `TakeSnapshot`, `ListTuples`, `WriteMissing`,
`DeleteExtra` are the calls of `SyncToOpenFGA`; `SyncFails` is a failed call and
the restart by `withRetry`; `ReceiveChange`, `SyncTick` are the cases of `Run`'s
`select`; `ApplyChange`, `ApplyFails` are `applyChange`. `SourceChanges` updates
the source and, for a membership, leaves an event to be sent by `Emit`, which
runs outside the connector's mutex and drops the event when the channel is full.
A request that fails may have taken effect (`Lost`). `strict` tells OpenFGA
(refuses to write an existing or to delete a missing tuple) from `MemoryFGA`.
`StoreOf` says which services share a store: `OpenFGASink` ignores the tenant and
lists the whole store, as `ListTuples` does, so a service that shares one deletes
whatever its own source does not grant. `TakeEmptySnapshot` is a connector that
answers with nothing. A failed snapshot and the drift check change nothing and are
not actions. Two history variables: `absent`, the tuples the source of the tenant
lacked at some moment, and `disturbed`, whether another service has changed the store
since the listing of the sync in progress.

### Permissions and GraphConnector

`Permissions` has `PermissionSetToTuples`, `MemoryFGA.Check` and the report's
`Analyze` as operators. The search through nested groups (`memberOf`) is a
recursive function of the visited set, which grows by a group at each call.
`GraphConnector` is the environment they run in: a directory and a drive that
change between any two requests, `Snapshot` as one step per request,
`EnumerateDirectory` as one step per upsert, `pollDelta` as fetch and save, and a
failure of any request (`JobFails`), which is what remains when the retries are
used up. The drive is walked as `ListDriveItems` walks it: `WalkRoot` lists the root, `Walk`
one folder found before, and only then are the permissions of each item found read
(`SnapshotPermissions`), with the place where it was found. Items move between the
requests, so an item may be found twice or nowhere. A listing is one page, folders
are listed in any order (depth first is one of them), the drive stays a tree, and
items are neither made nor deleted. `job.ever` and `job.always` are history variables:
the facts that held at some time, and all the time, since the job began; `job.mails`
are the addresses each person had meanwhile, since a person is known by the address of
the moment of each listing. `CheckDecides` compares `Check` with a definition of membership by
closed sets of groups, for a person who had one key while the snapshot was taken
and shared it with nobody.

### Identity

A request (`query` over HTTP, `executeSearch` over MCP) carries a token with some
of the claims `oid`, `sub`, `email`, `preferred_username`; the last two are two
namespaces of addresses (`Spaces`), and `Space` says to which one an address belongs.
That one person's mail is another's user principal name is excluded. A cache hit is used at once; otherwise
`ResolveInner`, `ResolveFails` and `Store` are the steps of the caching resolver,
which holds no lock between the database's answer and the caching. The Graph sync
lists the people (`FetchUsers`), resolves or mints a principal for each
(`ObserveResolve`), upserts the aliases (`ObserveUpsert`) and finally writes the
tuples (`Rewrite`); `ObserveFails` may happen anywhere. `since` is a history variable:
how long ago an alias last named each principal. The configurations are canonical
mode, raw subjects, and demo mode. (`IdentityInit`, `IdentityNext`, `IdentitySpec`
carry the module's name because `SyncProofs` extends `AclSync` as well.)

### ApiKeys

`requireAPIKey` resolves a key once; `AdmitAdmin` is a request that goes on to a
handler with that snapshot. `createAPIKey`, `rotateAPIKey` and `revokeAPIKey` are
the handlers with their SQL conditions, `AdminNoEffect` their ways out without an
effect. `Restart` loses the limiter and the requests in flight and bootstraps the
table. `crossed` notes the tenants in which a request changed a key after its own
had died; `recent` keeps the admissions of each key by age. `normalizeBudget` gives a
key that was created without a budget the default of 60, `DefaultRPM`.

### ServiceCalls

A caller walks its plan (embedding then Qdrant, or Elasticsearch, or OpenFGA): it
asks the breaker (`AllowCall`, `RefuseCall`), makes up to `Attempts` requests
with a wait in between, during which the query may be cancelled
(`CancelledWaiting`), and reports once, whatever the breaker has become
meanwhile. An embedding that arrives but is empty is reported as a success and ends the
search before Qdrant is called (`AnsweredEmpty`). `weather` says whether a service may fail requests. `probes` is a
history variable: the callers a half-open breaker has let in.

### Ingestion

`VectorUpsert` and `LexicalUpsert` alternate chunk by chunk; a failed one, with or
without effect, leads into the rollback of what the writer remembers
(`DeleteVector`, `DeleteLexical`), which may fail itself, and to the next attempt
on the same writer. Elasticsearch shows what was indexed to a search only after a
refresh, and the rollback's `delete_by_query` is a search: `DeleteLexical` removes a
chunk that is searchable and passes over one that is not, which then stays; `Refresh`
happens at any time. Then the tags are granted (`Grant`, with the refusals that
count as success). `Crash` ends the process anywhere. The runtimes (`Pods`)
provision the store meanwhile: list, create, inspect, write the model, seed.

## 3. Runs

| Run | Checks | Bounds and why they are enough |
|---|---|---|
| `one` | `TypeOK`, `OnlyReadableCited`, `BoundaryHeld`, `DisclosureRecorded`, `RowsAddUp`, `DecisionsAttributed`, `ShadowComparesAll`, `ImplementsGate` | one query, two readable chunks and one of another tenant, two candidates, one check at a time, one citation: results come in both orders, a candidate waits for the semaphore, the rerank limit cuts, the deadline falls between two results; both modes and each dependency missing |
| `live` | `CircuitsConsistent`, `QueryAnswered`, `ChecksDrain` | a verified query with two candidates for one semaphore slot and an unverified one, both of which write to the ledger, circuits found closed or open, all limits 1: one query is refused by a circuit the other opened, and a report arrives after the state has changed under it; nobody has permissions, since "allowed" and "denied" move control alike |
| `chain` | `DigestsRecompute`, `InOrderVerifies`, `TamperingReported`, `OneRoot`, `LinksResolve`, `WritesEnd` | three writers of a tenant, any of which may fail at any statement, four clock values, two of them equal after truncation: an inner row exists, stamps tie and are resolved by id, commits overtake starts |
| `overlap` | `ReportsOnlyTampering`: **violated** | two writers of a tenant. The one that started first commits last, links to the other and sorts before it: the verifier reports a broken link in a ledger nobody touched. `engine/trace.go:321` says "A non-empty result means the ledger was tampered with" |
| `memory` | `GrantsKept`, `SyncEstablishesSnapshot`, `Converges` | (a) one service alone on a store, a membership (announced) and a parent (not), three source changes, a channel of one: events are dropped, reordered and applied between any two calls of a sync; (b) two tenants' services in one OpenFGA store, t2 watching and one sync of t1: each deletes the other's tuples between any two calls of the other. In (b) t2 converges once t1's single sync is over; two watching services in one store would take turns for ever, so that `Converges` is not claimed of them |
| `keys` | `AdminSurvives`, `SecretsStayInTenant`, `SlidingBudget`, `RevocationFinal` | two requests in flight, two tenants, four rows, keys created without a budget (which get 1 here) beside the bootstrap key's 2, a window of one tick: two administrators revoke each other, a rotation meets a revocation, a window is used up on both sides of its reset |
| `identity` | `OnePerson`, `RunsAsResolved` | two people and one mail address that changes hands (a second address, needed for the other namespace, is beyond what TLC enumerates in minutes; the theorems cover any number in both), one request and one sync, a TTL and a lag of one tick: an answer is cached after its alias has moved, a sync stops between aliases and tuples |
| `calls` | `SlotsAccounted`, `ProbesComeHome`, `Recovers` | two callers, a search over two services and a check, one half-open slot, failure limit 2, two attempts: a report of an earlier state arrives in every later one |
| `ingest` | `DualWrite`, `GrantsLand`, `ReadyStore` | a document of two chunks, two attempts, two runtimes, two stores: a rollback with something to undo, before and after a refresh, a second attempt, a race to create the store |
| `auditread` | `PagesAreExact`, `DetailIsWhole`, `StatsAddUp` | three rows of two tenants and two instants, pages of one and two: stamps tie, pages end in the middle of a tie, a row commits on either side of the cursor |
| `graph` | `SnapshotBracketed`, `CheckDecides`, `ReportIsTight`, `CatalogCatchesUp`, `NoChangeSkipped` | a user, a guest, two groups that may contain each other, a folder in a folder and a document below, two changes: a change before and after each request, items that move ahead of the walk and behind it, membership cycles, an address that appears or goes |
| `wedge` | `Converges` with a strict store: **violated** | a sync has already applied the change whose event is received next; OpenFGA refuses it, `applyChange` retries for ever and no tick is served. The comment of `Run` promises that it "keeps OpenFGA reconciled ... until the context is cancelled" (`aclsync/service.go`). It concerns connectors that send events (today the mock connector); the Microsoft Graph and GitHub connectors open a channel and leave it empty |

Where a run does not list its type invariant, that is the first conjunct of an
invariant of the run (`OnePerson`, `SlotsAccounted`, `DualWrite`,
`PagesAreExact`, `SnapshotBracketed`).

Deadlock is checked in `one` (permissions can always change) and in
`calls`. It is switched off where the system or its bounded environment
really stops: every query answered (`live`), every write of the finite set ended
(`chain`, `auditread`), the service shut down (`memory`), the bounded supply of
secrets, principals, stores and changes used up (`keys`, `identity`, `ingest`,
`graph`).

### What the properties say about known limits of the code

Several properties are exact: they say where a promise ends as well as where it
holds. Where the repository's own words claim more, `PROJECT.json` has a finding that
names the property and quotes them. In words:

- `DecisionsAttributed`: when the ACL deadline passes, the code marks the tail
  `candidates[len(decisions):]` as timed out (`engine/engine.go:267`), but results
  arrive in completion order, so a chunk may have two decisions and another none.
  Chunks that were permitted keep their entry, and the counters are right
  (`RowsAddUp`).
- `ShadowComparesAll`: shadow mode returns what enforcement would block, unless
  the ACL circuit is open or the deadline passed (`engine/engine.go:188`): then
  unconfirmed chunks are dropped in shadow mode too.
- `InOrderVerifies` and `ReportsOnlyTampering`: an untouched ledger verifies if a
  tenant's queries end in the order they started. The run `overlap` shows that it may
  fail otherwise, against `engine/trace.go:321` and "chain verification still works"
  (`:164-165`). The theorem `VerifiesIffInOrderHolds` has the exact extent: the ledger
  verifies exactly when the rows were committed in the order of their stamps.
- `GrantsKept`: a service removes nothing its own source has granted all along. Of the
  other tenants in the store it removes everything: `OpenFGASink` lists the whole store
  (`aclsync/fga.go:252`), while `docs/acl-sync-framework.md:190` says "One OpenFGA store
  is used for all tenants". `SyncEstablishesSnapshot` accordingly excepts a sync that
  another service disturbed after its listing.
- `Converges` excludes an empty source: `SyncToOpenFGA` treats it as an outage on
  purpose (`aclsync/sync.go:82`), so the last revocation of a tenant relies on its
  event.
- `DisclosureRecorded` speaks of answers with citations: the row of a failed query
  is best effort, under a context that may be the very one that expired
  (`engine/engine.go:335`).
- `OnePerson` excludes recycled addresses: an address that passes to another
  person brings that person the former owner's principal
  (`aclsync/msgraph/canonical.go:71`).
- `AdminSurvives` excludes a tenant in which a request acted after its own key had
  been revoked: two administrators that revoke each other lock the tenant out.
- `RevocationFinal` excludes the bootstrap key, which every restart revives.
- `SlidingBudget`: between two restarts (a restart empties the limiter) a key may pass
  up to twice its budget less one around a reset. That includes keys created without an
  explicit budget, which get 60 (`runtime/auth.go:414`), while `runtime/ratelimit.go:13`
  says they "are never throttled".
- `DualWrite`: after a failed upload with a complete rollback Qdrant may hold the chunk
  at which an attempt failed, and Elasticsearch also the chunks that no search found
  when they were to be deleted (`indexes.py:134-145`). The README of the repository
  (line 8) and `docs/architecture.md:76` speak of an "atomic dual-write".
- `GrantsLand` excepts grants refused for want of a model, and re-uploads: "already"
  then hides that the other tuples of the request were not written.
- `ReadyStore`: a ready runtime may have a store without memberships if it found the
  model while another runtime was about to seed them, or after that one had failed.
  `services/ingestion/groundwork_ingestion/openfga.py:41` says "the runtime guarantees
  they exist", and `runtime/openfga.go:122-129` that existing stores are seeded too.
  Runtimes may settle on different stores, but each on the first of the name or on one
  that it created itself.
- `SnapshotBracketed`: an item that moves from a folder not yet listed to one already
  listed is found nowhere, and with it everything below it; its grants, though they
  lasted, are missing from the snapshot, and the sync deletes them until the next one
  finds it. Only such items are missed: whatever stayed in a place whose folder was
  found, or in the root, is there. The framework calls a snapshot "a full snapshot of a
  tenant's source permissions" (`aclsync/connector.go:37`).
- `ReportIsTight`: a document reported as orphaned is seen by the viewers of its folder,
  and by nobody else; the comment says "Orphaned: nobody can see it."
  (`leakreport/leakreport.go:110`).
- `CheckDecides` is about people with one key: a user whose address changes while the
  snapshot is taken is a member under one key and a grantee under another
  (`aclsync/msgraph/connector.go:62`).

### Fairness

- `QueryEngine!LiveSpec`: a running query takes its next step, because every call
  it makes is under a context with a deadline and returns, and the ACL timer
  fires. Nothing is assumed of goroutines inside `CanAccess`: `QueryAnswered`
  holds with a permission store that hangs. `ChecksDrain` adds, as a hypothesis,
  that goroutines move, that is, that `CanAccess` honours its context.
- `AuditLedger!LiveSpec`: the database executes the statements of an open
  transaction. Failures are possible, never required: `WritesEnd` does not lean
  on a waiting writer's own timeout.
- `AclSync!LiveSpec`: the service runs, outages end eventually, and `select`,
  which picks at random among ready cases, starves neither events nor ticks
  (strong fairness). The wedge occurs under the same fairness.
- `ServiceCalls!LiveSpec`: a call that was let in ends (every HTTP request has a
  timeout and every backoff a timer), time passes for open breakers, and queries
  of every kind keep coming (strong fairness per kind): a breaker closes only when
  somebody calls. `Recovers` has good weather from some time on as its hypothesis.

## 4. Proofs

All theorems are for every value of the constants that satisfies the named
assumption of the module. `EngineAssumption`, `LedgerAssumption`,
`SyncAssumption`, `KeysAssumption`, `ServiceAssumption`, `ReadAssumption` and
`IdentityAssumption` say no more than that limits are natural numbers, that each
query, chunk, writer or address has a home, that no caller's plan is empty, that
there are finitely many chunks, and that a placeholder (`NoOne`) is none of the
things it stands in for. `IngestionAssumption` adds that a document has a chunk and
that two documents share none: a chunk's id is a digest of its document's id and
its text. `DirectoryAssumption` says that ids of different kinds differ, that groups
are finitely many, and that no two people have the same address at the start. TLC
evaluates each of them on the values of its runs.

Every invariant and every action property that a passing run checks is also a
theorem, and so is the refinement of `AccessGate`. Each inductive invariant below
was checked by TLC on the run's instance before it was proved.

*QueryEngineProofs.* `TypeCorrect` is shown first and separately. `EngineInv`
adds what the safety properties need to be inductive: a goroutine exists only for
a candidate and only after the filter has begun (`ChecksPlaced`); whatever is past
the boundary test is inside, and an "allowed" that waits in the result channel was
true at some moment of the query (`ChecksSound`); the history keeps up with the
permissions (`SeenTracksAcl`); hence what the collector gathered (`ResultsSound`)
and what is about to be cited (`CitationsSound`) may be disclosed. From
`EngineInvariant` follow `OnlyReadableCitedHolds`, `BoundaryHeldHolds`,
`DisclosureRecordedHolds` and, step by step, the refinement
`ImplementsGateHolds`. `CircuitsConsistentHolds` needs only the types.
The books are a second invariant, `BooksInv`, beside the first. While results
arrive, there are as many decisions as results received, one about each, and every
one is in exactly one of the three counts; each permitted chunk has its decision
and each received chunk inside the boundary is in one of the two result lists. When
the collector gives up, the counts are made up to the number of candidates but the
decisions are about the tail of the list, so from there on only the counts and,
if everything was received, the decisions are claimed (`BooksOf` states what holds
at which statement). `RowsAddUpHolds`, `DecisionsAttributedHolds` and
`ShadowComparesAllHolds` follow. The number of citations after the rerank is the
cardinality of the best `MaxCitations` of a finite set of chunks.

*AuditLedgerProofs.* `OneRoot` and `LinksResolve` are not inductive: the previous
hash is read in one statement and used two statements later. `LedgerInv` adds that
a transaction past the lock is its only holder (`LockHeld`), that while it is, the
hash it read is still that of a row, or the tenant still has no row (`PrevFresh`),
that ids are unique and the rows of a tenant therefore have a newest one
(`NewestExists`), and that the inserted row carries its own digest
(`PendingSound`), which rests on truncation being idempotent.
`ChainInv` goes on from there to what the verifier sees: any rows of a tenant have
a newest and an oldest one (`Ranked`), each row links to the newest of the rows
committed *before* it (`LinksNewest`), and a writer leaves at most one row, as it
computed it (`OneRowEach`). If rows were committed in the order of their stamps,
the newest before a row is the one the verifier expects; if not, the first row
committed out of order gives a broken link. That is `VerifiesIffInOrderHolds`;
`InOrderVerifiesHolds` is its half about the queries' own order.
`TamperingReportedHolds` is about chains of any length: a changed field no longer
recomputes, a changed link disagrees with the row before, and a removed inner row
leaves a successor that links to nothing.

*AuditReadProofs.* `ReadInv` says how far a reader has come: of the rows there were
when a listing began, each is among those already handed out or below the cursor
(`ListInv`); a row found by the first statement of a detail is still there, with its
decisions, at the second (`DetailInv`); statistics are those of one window of rows
that are there still (`StatsInv`). Rows that are committed between two pages may lie
above the cursor, and then they are not part of the answer, or below, and then they
are. That a page is the sorted top of the rows below the cursor, and that a column's
counts sum to the number of rows, are facts about sorting and folding finite sets of
any size; they are proved by taking a least counterexample instead of by induction.

*SyncProofs, on AclSync.* For any sharing of stores and for both sinks: `SyncInv` says
that a snapshot that is not empty holds everything granted all along (`SnapshotSound`),
that a revocation on its way was one (`EventsSound`), and that between listing and
deleting the store is what was listed, plus what the sync wrote, unless another service
changed it (`ListingCurrent`, with `disturbed`). `GrantsKeptHolds` follows from the first
two, `SyncEstablishesSnapshotHolds` from the last.

*SyncProofs, on Identity.* `RunsAsResolved` speaks of the moment a query starts, but
the answer it runs on may have been read, stored and cached by others long before.
`IdentityInv` therefore follows answers around: what an alias names it named at age
zero; an answer not yet stored is as old as its `age`, at most `Lag`; and the age of
a cached answer plus what its entry has left is at most `TTL + Lag` (`Recent`). A
hit needs something left, so the bound on its age is strict. `OnePerson` likewise
looks at tuples and running queries only, while principals travel through aliases,
syncs half way, cache entries and requests. `Used(o, p)` says that person `o` goes by
`p` in any of those places; every step only copies a use from one place to another,
or mints a principal that nobody uses for one person (`OnlyMints`), so while no
address has changed hands no principal is used for two (`OwnPrincipals`).

*ApiKeysProofs.* `AdminSurvives` is not inductive: that a revocation leaves an
administrator depends on what the request knew when it was admitted. `KeyInv` adds
that a request in flight was admitted by a row that is still there and has the
admin scope (`AdmittedByAdmin`), and that every row's secret has been generated and
the bootstrap key is its tenant's (`SecretsIssued`), without which a fresh secret
could coincide with another tenant's, or a restart hand a row over. One lemma per
handler says what it does to the table (`CreateEffect`, `RotateEffect`,
`RevokeEffect`, `BootstrapEffect`); the invariant and `RevocationFinalHolds` are
proved from those.
`BudgetInv` relates the limiter's fixed windows to a sliding one: an open window
began with an admission at exactly the age it has run and counted everything since;
what is older belongs to an earlier window, whose own first admission is older still
and has left the stretch, so that window contributes at most its budget less one.
The two together give `SlidingBudgetHolds`, twice the budget less one, and no less
is true.

*ServiceCallsProofs.* `SlotsAccounted` is not inductive, since a caller's report
reaches a breaker that has changed since it was let in. `CallsInv` adds that slots
are in use only while a breaker is half open (`BreakerOK`) and that the callers let
in are finitely many, as many as the slots in use, and still under way
(`ProbesOK`). Every report ends the half-open state, so a late one cannot free a
slot that somebody else took: slots and the callers that hold them are forgotten
together (`ReportKeeps`).

*IngestionProofs.* The three properties speak of uploads that have ended and of
ready runtimes; `IngestionInv` says what holds before. Both indexes hold the chunks
before the current one (`JobInv`); what an index holds of a document that is being
uploaded for the first time is what the rollback still knows of, a chunk at which an
attempt failed or, in Elasticsearch, one that a rollback missed (`Accounted`); a store has all or none of a document's grants
(`Granted`), because one request writes them all; and a store with the current model
has the memberships, or a runtime is about to seed them, or lost the chance
(`Seeded`). `Accounted` needs that documents share no chunk: otherwise one upload's
rollback would remove another's.

*GraphConnectorProofs.* `GraphInv` brackets everything a job has read by what held
all the time and what held at some time since it began (`Reads`), request by
request: of the walk it says that what was found lay there at some time, and that what
lay all the time in a place that was listed has been found (`Walks`); a person is known by
an address of that time. When nothing changed
meanwhile the two ends of the bracket coincide, so the tuples of the snapshot have the
edges of the directory. That `Check` finds a person exactly if it is in the least
closed set of groups is a statement about the search from every visited set, proved
by induction on the number of groups left to visit; a cycle does no harm because a
group is visited once. `ReportIsTightHolds` needs no invariant beyond the
shape of a snapshot. `CatalogCatchesUpHolds` and `NoChangeSkippedHolds` rest on
`Enumerates` and `Polls`.

Only model-checked: the liveness properties `QueryAnswered`, `ChecksDrain`,
`WritesEnd`, `Converges`, `ProbesComeHome` and `Recovers`, because the prover does not
reason about fairness and ENABLED.

## 5. Not modelled

- *Discard sink and model guard*: one conditional each.
- *GitHub connector, `connectorsvc`*: one full read per request, mapped field by
  field; `AclSync` takes any snapshot, so nothing in it depends on how the
  snapshot was obtained.
- *Graph token acquisition, reads of a single item*: they change no state that
  another part reads.
- *`DetectDrift`, `RunOnce`*: a read, and one call of `SyncToOpenFGA`.
- *In-memory resolvers and stores* used in tests and demos: the tables without SQL.
- *Chunking, embedding, parsing, scoring*: pure functions of text whose results are
  opaque to everything modelled.
- *HTTP and JSON plumbing, JSON-RPC framing, metrics, commands, console, examples*:
  input and output; the order of the tests before a handler runs is in `ApiKeys`
  and `Identity`.
