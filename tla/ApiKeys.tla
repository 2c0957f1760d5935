------------------------------- MODULE ApiKeys -------------------------------
(***************************************************************************)
(* API keys and what hangs on them: the api_keys table                     *)
(* (PostgresAPIKeyResolver, internal/runtime/auth.go), the per-key rate    *)
(* limiter (ratelimit.go), and the HTTP layer that uses both: the          *)
(* requireAPIKey middleware and the key-management handlers (server.go).   *)
(*                                                                         *)
(* requireAPIKey resolves the key once and hands the handler a SNAPSHOT of *)
(* the row (TenantContext).  The handler acts on that snapshot later, when *)
(* the row may have been revoked or rotated by another request.            *)
(*                                                                         *)
(* A secret is a number: 0 is the bootstrap key of the configuration, the  *)
(* others are issued in the order in which they are generated; hashing and *)
(* the prefix lookup are exact matching.  The id of a row is its index.    *)
(* Time is relative: a window keeps the time left until it resets.         *)
(***************************************************************************)
EXTENDS Integers, Sequences, FiniteSets

CONSTANTS
    Slots,          \* requests in flight
    BootTenant,     \* BOOTSTRAP_TENANT_ID
    OtherTenant,    \* a tenant with a key provisioned earlier
    BootRPM,        \* rate_limit_rpm that bootstrap writes (600)
    DefaultRPM,     \* rate_limit_rpm of a key created without one (60)
    Budgets,        \* what a creation may ask for; none, or 0, is no explicit budget
    Window,         \* length of a rate-limit window (one minute)
    MaxKeys,        \* bound on the rows of the table
    MaxSecret       \* bound on the secrets generated

ASSUME KeysAssumption ==
    /\ BootTenant # OtherTenant
    /\ BootRPM \in Nat \ {0}
    /\ DefaultRPM \in Nat \ {0}
    /\ Budgets \subseteq Int
    /\ Window \in Nat \ {0}
    /\ MaxKeys \in Nat /\ MaxKeys >= 2
    /\ MaxSecret \in Nat /\ MaxSecret >= 1

VARIABLES
    keys,           \* the table api_keys
    nextSecret,     \* the secrets below it have been generated
    issuedTo,       \* the tenant whose request was handed a secret
    windows,        \* RateLimiter.windows
    recent,         \* admissions of each key, by age, since the process started
    reqs,           \* admin requests that run with a snapshot of their key
    crossed         \* tenants where a request whose own key was already dead
                    \* changed a key

vars == <<keys, nextSecret, issuedTo, windows, recent, reqs, crossed>>

Boot == 0
Secrets == 0..MaxSecret
KeyIds == 1..MaxKeys
Tenants == {BootTenant, OtherTenant}
Ages == 0..Window
Scopes == {"query", "audit", "admin"}

\* A row of api_keys; `active` stands for active = TRUE AND revoked_at IS NULL.
Row(secret, tenant, scopes, rpm) ==
    [secret |-> secret, tenant |-> tenant, scopes |-> scopes, rpm |-> rpm,
     active |-> TRUE]

Rows == [secret : Secrets, tenant : Tenants, scopes : SUBSET Scopes,
         rpm : Nat, active : BOOLEAN]

\* TenantContext: what the handler knows of the key.
Contexts == [id : KeyIds, tenant : Tenants, scopes : SUBSET Scopes, rpm : Nat]

NoWindow == [count |-> 0, left |-> -1]

\* No request, or an answered one; the answers are the names of the actions.
Waiting == [pc |-> "waiting"]
Admission(ctx) == [pc |-> "admitted", ctx |-> ctx]

Requests == {Waiting} \union [pc : {"admitted"}, ctx : Contexts]

TypeOK ==
    /\ keys \in Seq(Rows) /\ Len(keys) <= MaxKeys
    /\ nextSecret \in 1..(MaxSecret + 1)
    /\ issuedTo \in [Secrets -> Tenants]
    /\ windows \in [KeyIds -> [count : Nat, left : Ages \union {-1}]]
    /\ recent \in [KeyIds -> [Ages -> Nat]]
    /\ reqs \in [Slots -> Requests]
    /\ crossed \in [Tenants -> BOOLEAN]

-----------------------------------------------------------------------------
(* Resolving a key *)

\* WHERE key_hash = ... AND active = TRUE AND revoked_at IS NULL
Matching(secret) ==
    {id \in DOMAIN keys : keys[id].active /\ keys[id].secret = secret}

Context(id) ==
    [id |-> id, tenant |-> keys[id].tenant, scopes |-> keys[id].scopes,
     rpm |-> keys[id].rpm]

hasScope(ctx, scope) == ctx.scopes \intersect {scope, "admin"} # {}

\* The scopes a key is created with: none asked for means "query".
normalizeScopes(scopes) == IF scopes = {} THEN {"query"} ELSE scopes

\* The budget a key is created with: without an explicit one, the default.
normalizeBudget(asked) == IF asked <= 0 THEN DefaultRPM ELSE asked

-----------------------------------------------------------------------------
(* The rate limiter *)

\* Mutant: the window is over at resetAt itself.
WindowOverAtReset(id) == windows[id].left <= 0

\* now.After(resetAt) is strict.
WindowOver(id) == windows[id].left < 0

\* RateLimiter.Allow: whether a request of a key is within the budget, and the
\* window of the key after it.
Allow(id, rpm) ==
    [ok |-> IF rpm <= 0 \/ WindowOver(id) THEN TRUE ELSE windows[id].count < rpm,
     window |-> IF rpm <= 0 THEN windows[id]
                ELSE IF WindowOver(id) THEN [count |-> 1, left |-> Window]
                ELSE [windows[id] EXCEPT !.count = @ + 1]]

\* Time passes for every window and every admission.
Tick ==
    /\ windows' = [id \in KeyIds |->
            IF windows[id].left <= 0 THEN NoWindow
            ELSE [windows[id] EXCEPT !.left = @ - 1]]
    /\ recent' = [id \in KeyIds |->
            [age \in Ages |-> IF age = 0 THEN 0 ELSE recent[id][age - 1]]]
    /\ UNCHANGED <<keys, nextSecret, issuedTo, reqs, crossed>>

-----------------------------------------------------------------------------
(* requireAPIKey *)

\* What a request presents: a key that some row has, on a route with a scope.
Presented == {ks \in KeyIds \X Scopes :
                ks[1] \in DOMAIN keys /\ ks[1] \in Matching(keys[ks[1]].secret)}

\* 401 (no active row has the key, or the lookup failed), 403 (the key lacks
\* the scope of the route), 429 (its budget is used up): nothing changes.
Unauthorized(r) == reqs[r] = Waiting /\ UNCHANGED vars

Forbidden(r) ==
    /\ reqs[r] = Waiting
    /\ \E ks \in Presented : ~hasScope(Context(ks[1]), ks[2])
    /\ UNCHANGED vars

RateLimited(r) ==
    /\ reqs[r] = Waiting
    /\ \E ks \in Presented :
        /\ hasScope(Context(ks[1]), ks[2])
        /\ ~Allow(ks[1], keys[ks[1]].rpm).ok
    /\ UNCHANGED vars

\* The request is within scope and budget: its window and its history.
Passes(id, scope) ==
    /\ hasScope(Context(id), scope)
    /\ Allow(id, keys[id].rpm).ok
    /\ windows' = [windows EXCEPT ![id] = Allow(id, keys[id].rpm).window]
    /\ recent' = [recent EXCEPT ![id][0] = @ + 1]

\* A key-management handler gets the snapshot and runs later.
AdmitAdmin(r) ==
    /\ reqs[r] = Waiting
    /\ \E ks \in Presented :
        /\ ks[2] = "admin"
        /\ Passes(ks[1], "admin")
        /\ reqs' = [reqs EXCEPT ![r] = Admission(Context(ks[1]))]
    /\ UNCHANGED <<keys, nextSecret, issuedTo, crossed>>

\* The query, audit and leak-report handlers leave the keys alone.
AdmitOther(r) ==
    /\ reqs[r] = Waiting
    /\ \E ks \in Presented : ks[2] # "admin" /\ Passes(ks[1], ks[2])
    /\ UNCHANGED <<keys, nextSecret, issuedTo, reqs, crossed>>

-----------------------------------------------------------------------------
(* Key management *)

Administers(r) == reqs[r].pc = "admitted"

Answered(r) == reqs' = [reqs EXCEPT ![r] = Waiting]

\* The request r has changed a key: note whether its own key was still alive.
Acted(r) ==
    LET ctx == reqs[r].ctx
    IN  crossed' = [crossed EXCEPT ![ctx.tenant] = @ \/ ~keys[ctx.id].active]

\* generateAPIKey on behalf of a tenant.
Generated(tenant) ==
    /\ nextSecret <= MaxSecret
    /\ nextSecret' = nextSecret + 1
    /\ issuedTo' = [issuedTo EXCEPT ![nextSecret] = tenant]

\* createAPIKey: 201, or 500 although the row was inserted (the 700ms ran out
\* between the commit and the reply), as for the two handlers below.
createAPIKey(r) ==
    LET tenant == reqs[r].ctx.tenant
    IN  /\ Administers(r)
        /\ Len(keys) < MaxKeys
        /\ Generated(tenant)
        /\ \E scopes \in {{}, {"audit"}, {"admin"}}, asked \in Budgets :
            keys' = Append(keys, Row(nextSecret, tenant, normalizeScopes(scopes),
                                     normalizeBudget(asked)))
        /\ Answered(r)
        /\ Acted(r)
        /\ UNCHANGED <<windows, recent>>

\* Mutant: a handler does not compare the id with the id of its own key.
IsOwnKeyNever(r, id) == FALSE

\* cannot_revoke_current_key, cannot_rotate_current_key
IsOwnKey(r, id) == id = reqs[r].ctx.id

\* Mutant: a revoked key can be rotated.
RotatableRevoked(r) ==
    {id \in DOMAIN keys : keys[id].tenant = reqs[r].ctx.tenant}

\* Mutant: the tenant is not in the WHERE clause.
RotatableAnyTenant(r) == {id \in DOMAIN keys : keys[id].active}

\* WHERE id = $3 AND tenant_id = $4 AND active = TRUE AND revoked_at IS NULL
Rotatable(r) ==
    {id \in DOMAIN keys : keys[id].tenant = reqs[r].ctx.tenant /\ keys[id].active}

\* rotateAPIKey: the row gets a new secret, the old one is gone.
rotateAPIKey(r) ==
    /\ Administers(r)
    /\ \E id \in Rotatable(r) :
        /\ ~IsOwnKey(r, id)
        /\ Generated(reqs[r].ctx.tenant)
        /\ keys' = [keys EXCEPT ![id].secret = nextSecret, ![id].active = TRUE]
    /\ Answered(r)
    /\ Acted(r)
    /\ UNCHANGED <<windows, recent>>

\* WHERE id = $1 AND tenant_id = $2 AND revoked_at IS NULL
Revocable(r) ==
    {id \in DOMAIN keys : keys[id].tenant = reqs[r].ctx.tenant /\ keys[id].active}

\* revokeAPIKey
revokeAPIKey(r) ==
    /\ Administers(r)
    /\ \E id \in Revocable(r) :
        /\ ~IsOwnKey(r, id)
        /\ keys' = [keys EXCEPT ![id].active = FALSE]
    /\ Answered(r)
    /\ Acted(r)
    /\ UNCHANGED <<nextSecret, issuedTo, windows, recent>>

\* The handlers' ways out without an effect: 400 (bad body, bad id, the
\* request's own key), 404 (no such row), 500 (the statement failed), and 200
\* for connectGitHub, which has the admin scope and leaves the keys alone.
AdminNoEffect(r) ==
    /\ Administers(r)
    /\ Answered(r)
    /\ UNCHANGED <<keys, nextSecret, issuedTo, windows, recent, crossed>>

-----------------------------------------------------------------------------
(* Start and restart of the process *)

BootRow == Row(Boot, BootTenant, {"query", "admin"}, BootRPM)

\* bootstrap: INSERT ... ON CONFLICT (key_hash) DO UPDATE.  The table as it is
\* afterwards; without room for a new row (a bound) there is no restart.
Bootstrapped(table) ==
    IF \E id \in DOMAIN table : table[id].secret = Boot
    THEN [id \in DOMAIN table |->
            IF table[id].secret = Boot THEN BootRow ELSE table[id]]
    ELSE Append(table, BootRow)

\* A key of another tenant, left in the database by an earlier configuration.
OtherRow == Row(1, OtherTenant, {"query", "admin"}, DefaultRPM)

Init ==
    /\ keys = Bootstrapped(<<OtherRow>>)
    /\ nextSecret = 2
    /\ issuedTo = [s \in Secrets |-> IF s = 1 THEN OtherTenant ELSE BootTenant]
    /\ windows = [id \in KeyIds |-> NoWindow]
    /\ recent = [id \in KeyIds |-> [age \in Ages |-> 0]]
    /\ reqs = [r \in Slots |-> Waiting]
    /\ crossed = [t \in Tenants |-> FALSE]

\* The process dies and starts again: the limiter and the requests are gone,
\* the table is bootstrapped.
Restart ==
    /\ Len(Bootstrapped(keys)) <= MaxKeys
    /\ keys' = Bootstrapped(keys)
    /\ windows' = [id \in KeyIds |-> NoWindow]
    /\ recent' = [id \in KeyIds |-> [age \in Ages |-> 0]]
    /\ reqs' = [r \in Slots |-> Waiting]
    /\ UNCHANGED <<nextSecret, issuedTo, crossed>>

Next ==
    \/ \E r \in Slots :
        \/ Unauthorized(r)
        \/ Forbidden(r)
        \/ RateLimited(r)
        \/ AdmitAdmin(r)
        \/ AdmitOther(r)
        \/ createAPIKey(r)
        \/ rotateAPIKey(r)
        \/ revokeAPIKey(r)
        \/ AdminNoEffect(r)
    \/ Tick
    \/ Restart

Spec == Init /\ [][Next]_vars

-----------------------------------------------------------------------------
(* Properties *)

Live(secret) == Matching(secret) # {}

\* A secret that was issued and no longer opens anything never opens anything
\* again, whatever admins rotate, revoke and create at the same time; and a
\* revoked row is never active again.  The one exception is the bootstrap key,
\* which a restart brings back even when an admin had revoked it.
RevocationFinal ==
    [][/\ \A s \in 1..(nextSecret - 1) : ~Live(s) => ~Live(s)'
       /\ \A id \in DOMAIN keys :
            /\ ~keys[id].active
            /\ keys[id].secret # Boot \/ reqs' # [r \in Slots |-> Waiting]
            => ~keys'[id].active]_vars

\* A tenant that has keys keeps an active admin key: a handler refuses to
\* revoke the key it is called with.  The refusal looks at a snapshot, so the
\* promise needs that no request of the tenant acted after its own key had
\* been revoked (two admins revoking each other).
AdminSurvives ==
    \A t \in Tenants :
        crossed[t] \/ \E id \in DOMAIN keys :
            keys[id].active /\ keys[id].tenant = t /\ "admin" \in keys[id].scopes

\* A secret handed to a request of one tenant never opens a row of another:
\* neither in the table nor in the snapshot of a request in flight.
SecretsStayInTenant ==
    /\ \A id \in DOMAIN keys : issuedTo[keys[id].secret] = keys[id].tenant
    /\ \A r \in Slots :
        reqs[r].pc = "admitted" => reqs[r].ctx.tenant = keys[reqs[r].ctx.id].tenant

\* For every age, how many admissions of a history are not older.
UpTo(history) ==
    LET upTo[age \in Ages] == history[age] + (IF age = 0 THEN 0 ELSE upTo[age - 1])
    IN  upTo

\* The admissions of the last Window + 1 instants.
InWindow(id) == UpTo(recent[id])[Window]

\* Windows are fixed, not sliding: within any stretch as long as a window in
\* which the process does not restart, a key gets at most twice its budget less
\* one, never more.  This holds of every key in the table: one that was created
\* without an explicit budget has the default, so it is throttled as well.  The
\* limiter is in memory: a restart forgets what was admitted, and the promise
\* begins anew.
SlidingBudget ==
    \A id \in DOMAIN keys : InWindow(id) <= 2 * keys[id].rpm - 1

-----------------------------------------------------------------------------
(* The inductive invariant behind AdminSurvives and SecretsStayInTenant.   *)

\* A row has a secret that was generated; the bootstrap key is BootTenant's.
SecretsIssued ==
    /\ issuedTo[Boot] = BootTenant
    /\ \A id \in DOMAIN keys : keys[id].secret < nextSecret

\* A request in flight was admitted by a row that is still there, alive or
\* not, and is an administrator's.
AdmittedByAdmin ==
    \A r \in Slots : Administers(r) =>
        reqs[r].ctx.id \in DOMAIN keys /\ "admin" \in keys[reqs[r].ctx.id].scopes

KeyInv ==
    TypeOK /\ SecretsIssued /\ AdmittedByAdmin /\ SecretsStayInTenant /\ AdminSurvives

-----------------------------------------------------------------------------
(* The inductive invariant behind SlidingBudget *)

\* An open window began with an admission, as long ago as it has run, and has
\* counted all since; what was admitted before it, or without one, and is not yet
\* forgotten lacks the admission that began its own window, which is older.
WithinBudget(window, history, rpm) ==
    LET begun == Window - window.left
    IN  IF window.left < 0
        THEN history[0] = 0 /\ UpTo(history)[Window] <= rpm - 1
        ELSE /\ history[begun] > 0
             /\ UpTo(history)[begun] = window.count /\ window.count <= rpm
             /\ UpTo(history)[Window] - UpTo(history)[begun] <= rpm - 1

NoHistory == [age \in Ages |-> 0]

\* Every row has a budget and keeps to it; an id without a row has no history.
BudgetInv ==
    /\ \A id \in DOMAIN keys : /\ keys[id].rpm > 0
                               /\ WithinBudget(windows[id], recent[id], keys[id].rpm)
    /\ \A id \in KeyIds \ DOMAIN keys : windows[id] = NoWindow /\ recent[id] = NoHistory
=============================================================================
