------------------------------ MODULE Identity ------------------------------
(***************************************************************************)
(* Who a query runs as.  The transports (POST /v1/query in server.go, the  *)
(* MCP tool in internal/mcp) verify a signed assertion (identity.go) and,  *)
(* in canonical mode, map its claims to a tenant's principal through a     *)
(* cache in front of the alias table (principal.go).  The aliases are      *)
(* written by another process: the Microsoft Graph sync, which resolves or *)
(* mints a principal for every person of the directory, upserts the        *)
(* person's aliases and writes the tuples for that principal               *)
(* (aclsync/msgraph/canonical.go and connector.go).                        *)
(*                                                                         *)
(* A person is an Entra object id.  An address is a mail address or a user *)
(* principal name; it belongs to one person at a time and may pass to      *)
(* another.  A principal is a number, minted in increasing order (a UUID). *)
(* Time is relative: a cache entry keeps the time left, an alias the time  *)
(* since it last named a principal.  No writer in the program sets         *)
(* expires_at, and none calls UpsertAliases through the cache: both are    *)
(* left out.                                                               *)
(***************************************************************************)
EXTENDS Integers, FiniteSets

\* The namespaces of addresses: mail and userPrincipalName.
Spaces == {"jwt:email", "jwt:preferred_username"}

CONSTANTS
    Configs,        \* deployments: is there a verifier, demo mode, canonical mode
    Slots,          \* requests in flight
    Syncs,          \* Graph sync processes
    People,         \* directory object ids
    Mails,          \* addresses
    Space,          \* the namespace of each
    Owner,          \* Owner[m]: the person m belongs to at first
    Home,           \* the tenant that the sync serves
    Abroad,         \* another tenant, which knows the same mail addresses
    Shapes,         \* which claims the tokens of the identity providers carry
    TTL,            \* GROUNDWORK_PRINCIPAL_CACHE_TTL_MS
    Lag,            \* most time between the database's answer and the caching
    MaxPrincipals,  \* bound on the principals minted
    NoOne           \* no person, no address, no principal

ASSUME IdentityAssumption ==
    /\ Configs \subseteq [verifier : BOOLEAN, allowDemo : BOOLEAN,
                          canonical : BOOLEAN]
    /\ Home # Abroad
    /\ Space \in [Mails -> Spaces]
    /\ Owner \in [Mails -> People \union {NoOne}]
    /\ Shapes \subseteq [oid : BOOLEAN, sub : BOOLEAN, mail : BOOLEAN,
                         name : BOOLEAN, verified : BOOLEAN]
    /\ TTL \in Nat \ {0} /\ Lag \in Nat
    /\ MaxPrincipals \in Nat \ {0}
    /\ NoOne \notin People \union Mails \union 0..MaxPrincipals

VARIABLES
    config,     \* what the deployment switched on
    holder,     \* the directory: who has each address now
    aliases,    \* the table principal_aliases
    minted,     \* principals minted so far
    grants,     \* the tuple store: whose permissions each principal has
    cache,      \* CachingResolver.cache
    reqs,       \* requests
    syncs,      \* sync processes
    since,      \* for each alias of Home, how long ago it named each principal
    recycled    \* addresses that have passed to another person

identityVars == <<config, holder, aliases, minted, grants, cache, reqs, syncs, since,
          recycled>>

BothTenants == {Home, Abroad}
Principals == 0..MaxPrincipals
Foreign == 0    \* the principal that Abroad's aliases name
Aliases == ({"entra:id", "jwt:sub"} \X People) \union {<<Space[m], m>> : m \in Mails}
In(space) == {m \in Mails : Space[m] = space}
Keys == BothTenants \X SUBSET Aliases
Never == TTL + Lag + 1

Idle == [pc |-> "idle"]

-----------------------------------------------------------------------------
(* Tokens and assertions *)

\* The claims of a token of a shape, issued to a person now.
Address(space, person, dir) ==
    LET own == {m \in In(space) : dir[m] = person}
    IN  IF own = {} THEN NoOne ELSE CHOOSE m \in own : TRUE

Claims(person, shape) ==
    [oid |-> IF shape.oid THEN person ELSE NoOne,
     sub |-> IF shape.sub THEN person ELSE NoOne,
     mail |-> IF shape.mail THEN Address("jwt:email", person, holder) ELSE NoOne,
     name |-> IF shape.name THEN Address("jwt:preferred_username", person, holder)
              ELSE NoOne,
     verified |-> shape.verified]

\* effectiveUserID: sub, then email, then preferred_username.  Without any of
\* them Verify rejects the token.
effectiveUserID(token) ==
    IF token.sub # NoOne THEN <<"jwt:sub", token.sub>>
    ELSE IF token.mail # NoOne THEN <<"jwt:email", token.mail>>
    ELSE <<"jwt:preferred_username", token.name>>

Acceptable(token) == effectiveUserID(token)[2] # NoOne

\* verifiedOnly(AssertionsFromIdentity(id)): oid and sub are trusted, the
\* addresses only when the token says email_verified.
verifiedAssertions(token) ==
    {a \in {<<"entra:id", token.oid>>, <<"jwt:sub", token.sub>>,
            <<"jwt:email", IF token.verified THEN token.mail ELSE NoOne>>,
            <<"jwt:preferred_username", IF token.verified THEN token.name ELSE NoOne>>} :
        a[2] # NoOne}

\* The assertions of a person as the directory lists it (directoryAssertions).
directoryAssertions(person, dir) ==
    {<<"entra:id", person>>} \union
    {<<Space[m], m>> : m \in {n \in Mails : dir[n] = person}}

\* The order in which assertions are looked up.
Rank(alias) == CASE alias[1] = "entra:id" -> 1
                 [] alias[1] = "jwt:sub" -> 2
                 [] alias[1] = "jwt:email" -> 3
                 [] OTHER -> 4

\* PostgresPrincipalResolver.Resolve: the principal of the first assertion
\* that has one.
Resolve(tenant, assertions) ==
    LET known == {a \in assertions : aliases[tenant][a] # NoOne}
    IN  IF known = {} THEN NoOne
        ELSE aliases[tenant][CHOOSE a \in known :
                                \A b \in known : Rank(a) <= Rank(b)]

\* Mutant: the key leaves the tenant out.
resolveCacheKeyShared(tenant, assertions) == <<Home, assertions>>

resolveCacheKey(tenant, assertions) == <<tenant, assertions>>

-----------------------------------------------------------------------------
IdentityInit ==
    /\ config \in Configs
    /\ holder = Owner
    /\ aliases = [t \in BothTenants |-> [a \in Aliases |->
            IF t = Abroad /\ a[1] \in Spaces THEN Foreign ELSE NoOne]]
    /\ minted = 0
    /\ grants = [p \in Principals |-> {}]
    /\ cache = << >>
    /\ reqs = [r \in Slots |-> Idle]
    /\ syncs = [s \in Syncs |-> Idle]
    /\ since = [a \in Aliases |-> [p \in Principals |-> Never]]
    /\ recycled = {}

\* Time passes; an answer of the database is not held back longer than Lag.
Tick ==
    /\ \A r \in Slots : reqs[r].pc = "storing" => reqs[r].age < Lag
    /\ cache' = [k \in {c \in DOMAIN cache : cache[c].left > 1} |->
            [cache[k] EXCEPT !.left = @ - 1]]
    /\ reqs' = [r \in Slots |-> IF reqs[r].pc = "storing"
                                THEN [reqs[r] EXCEPT !.age = @ + 1] ELSE reqs[r]]
    /\ since' = [a \in Aliases |-> [p \in Principals |->
            IF aliases[Home][a] = p THEN 0
            ELSE IF since[a][p] = Never THEN Never ELSE since[a][p] + 1]]
    /\ UNCHANGED <<config, holder, aliases, minted, grants, syncs, recycled>>

-----------------------------------------------------------------------------
(* Requests *)

\* Engine.Execute starts for a user.
Run(r, tenant, token, user) ==
    reqs' = [reqs EXCEPT ![r] = [pc |-> "executing", tenant |-> tenant,
                                 token |-> token, user |-> user]]

Raw(id) == <<"user", id>>
Canonical(p) == <<"principal", p>>
Anonymous == [oid |-> NoOne, sub |-> NoOne, mail |-> NoOne, name |-> NoOne,
              verified |-> FALSE]

\* CanonicalizeIdentity up to the cache: off, the raw subject runs; on, a
\* cached principal runs or the database has to be asked.
CanonicalizeIdentity(r, tenant, token) ==
    LET key == resolveCacheKey(tenant, verifiedAssertions(token))
    IN  IF ~config.canonical
        THEN Run(r, tenant, token, Raw(effectiveUserID(token)))
        ELSE IF key \in DOMAIN cache
        THEN Run(r, tenant, token, Canonical(cache[key].principal))
        ELSE reqs' = [reqs EXCEPT ![r] =
                [pc |-> "resolving", tenant |-> tenant, token |-> token]]

\* ResolveEffectiveIdentity: a token is verified or the request is refused
\* (nothing changes); without a token the caller's own word counts in demo
\* mode only.
Identify(r, tenant, token, demoUser) ==
    /\ IF token = Anonymous
       THEN /\ config.allowDemo
            /\ Run(r, tenant, token, Raw(demoUser))
       ELSE /\ config.verifier
            /\ Acceptable(token)
            /\ CanonicalizeIdentity(r, tenant, token)
    /\ UNCHANGED <<config, holder, aliases, minted, grants, cache, syncs, since,
                   recycled>>

Tokens == {Anonymous} \union {Claims(o, shape) : o \in People, shape \in Shapes}

\* POST /v1/query: the assertion is the header, the demo user is in the body.
query(r) ==
    /\ reqs[r] = Idle
    /\ \E tenant \in BothTenants, header \in Tokens, o \in People :
        Identify(r, tenant, header, o)

\* The MCP tool: the header wins over the user_token argument.
executeSearch(r) ==
    /\ reqs[r] = Idle
    /\ \E tenant \in BothTenants, header \in Tokens, argument \in Tokens, o \in People :
        Identify(r, tenant, IF header # Anonymous THEN header ELSE argument, o)

\* CachingResolver.Resolve after a miss: ask the database, without the lock.
ResolveInner(r) ==
    /\ reqs[r].pc = "resolving"
    /\ LET p == Resolve(reqs[r].tenant, verifiedAssertions(reqs[r].token))
       IN  reqs' = [reqs EXCEPT ![r] = IF p = NoOne THEN Idle
                ELSE [pc |-> "storing", tenant |-> @.tenant, token |-> @.token,
                      principal |-> p, age |-> 0]]
    /\ UNCHANGED <<config, holder, aliases, minted, grants, cache, syncs, since,
                   recycled>>

\* The query to the database failed: fail closed.
ResolveFails(r) ==
    /\ reqs[r].pc = "resolving"
    /\ reqs' = [reqs EXCEPT ![r] = Idle]
    /\ UNCHANGED <<config, holder, aliases, minted, grants, cache, syncs, since,
                   recycled>>

\* c.cache[key] = cacheRecord{principal, until}
Cached(req, ttl) ==
    LET key == resolveCacheKey(req.tenant, verifiedAssertions(req.token))
    IN  cache' = [k \in DOMAIN cache \union {key} |->
            IF k = key THEN [principal |-> req.principal, left |-> ttl] ELSE cache[k]]

\* The answer is cached for TTL from now on, and used.
Store(r) ==
    /\ reqs[r].pc = "storing"
    /\ Cached(reqs[r], TTL)
    /\ Run(r, reqs[r].tenant, reqs[r].token, Canonical(reqs[r].principal))
    /\ UNCHANGED <<config, holder, aliases, minted, grants, syncs, since, recycled>>

Done(r) ==
    /\ reqs[r].pc = "executing"
    /\ reqs' = [reqs EXCEPT ![r] = Idle]
    /\ UNCHANGED <<config, holder, aliases, minted, grants, cache, syncs, since,
                   recycled>>

\* The runtime restarts: cache and requests are gone.
Restart ==
    /\ cache' = << >>
    /\ reqs' = [r \in Slots |-> Idle]
    /\ UNCHANGED <<config, holder, aliases, minted, grants, syncs, since, recycled>>

-----------------------------------------------------------------------------
(* The directory and its sync *)

\* An address is withdrawn, or given to somebody.
Withdraw(m) ==
    /\ holder[m] # NoOne
    /\ holder' = [holder EXCEPT ![m] = NoOne]
    /\ UNCHANGED <<config, aliases, minted, grants, cache, reqs, syncs, since,
                   recycled>>

Assign(m, o) ==
    /\ holder[m] = NoOne
    /\ \A n \in In(Space[m]) : holder[n] # o
    /\ holder' = [holder EXCEPT ![m] = o]
    /\ recycled' = IF o = Owner[m] THEN recycled ELSE recycled \union {m}
    /\ UNCHANGED <<config, aliases, minted, grants, cache, reqs, syncs, since>>

\* FetchPermissions: the users of the directory, as they are now.
FetchUsers(s) ==
    /\ config.canonical
    /\ syncs[s] = Idle
    /\ syncs' = [syncs EXCEPT ![s] =
            [pc |-> "observing", dir |-> holder, todo |-> People,
             mapped |-> [o \in People |-> NoOne]]]
    /\ UNCHANGED <<config, holder, aliases, minted, grants, cache, reqs, since,
                   recycled>>

\* The next person of the list.
Observed(s) == CHOOSE o \in syncs[s].todo : TRUE

PrincipalFor(s) == Resolve(Home, directoryAssertions(Observed(s), syncs[s].dir))

\* Mutant: the random source fails, and nobody looks at its error.
NewPrincipalIDSame == 1

NewPrincipalID == minted + 1

\* observe, first half: the person's principal, or a new one.
ObserveResolve(s) ==
    /\ syncs[s].pc = "observing"
    /\ syncs[s].todo # {}
    /\ LET found == PrincipalFor(s)
       IN  /\ found = NoOne => minted < MaxPrincipals
           /\ minted' = IF found = NoOne THEN minted + 1 ELSE minted
           /\ syncs' = [syncs EXCEPT ![s] =
                [pc |-> "upserting", dir |-> @.dir, todo |-> @.todo,
                 mapped |-> @.mapped, person |-> Observed(s),
                 principal |-> IF found = NoOne THEN NewPrincipalID ELSE found]]
    /\ UNCHANGED <<config, holder, aliases, grants, cache, reqs, since, recycled>>

\* observe, second half: UpsertAliases, one transaction.
ObserveUpsert(s) ==
    LET at == syncs[s]
        written == directoryAssertions(at.person, at.dir)
    IN  /\ at.pc = "upserting"
        /\ aliases' = [aliases EXCEPT ![Home] = [a \in Aliases |->
                IF a \in written THEN at.principal ELSE @[a]]]
        /\ since' = [a \in Aliases |-> IF a \in written
                THEN [since[a] EXCEPT ![at.principal] = 0] ELSE since[a]]
        /\ syncs' = [syncs EXCEPT ![s] =
                [pc |-> "observing", dir |-> at.dir, todo |-> at.todo \ {at.person},
                 mapped |-> [at.mapped EXCEPT ![at.person] = at.principal]]]
        /\ UNCHANGED <<config, holder, minted, grants, cache, reqs, recycled>>

\* An error of the resolver, or a crash, ends the sync.
ObserveFails(s) ==
    /\ syncs[s] # Idle
    /\ syncs' = [syncs EXCEPT ![s] = Idle]
    /\ UNCHANGED <<config, holder, aliases, minted, grants, cache, reqs, since,
                   recycled>>

\* rewrite and Reconcile: the tuples of the snapshot replace the old ones.
Rewrite(s) ==
    /\ syncs[s].pc = "observing"
    /\ syncs[s].todo = {}
    /\ grants' = [p \in Principals |-> {o \in People : syncs[s].mapped[o] = p}]
    /\ syncs' = [syncs EXCEPT ![s] = Idle]
    /\ UNCHANGED <<config, holder, aliases, minted, cache, reqs, since, recycled>>

IdentityNext ==
    \/ \E r \in Slots : \/ query(r)
                        \/ executeSearch(r)
                        \/ ResolveInner(r)
                        \/ ResolveFails(r)
                        \/ Store(r)
                        \/ Done(r)
    \/ \E m \in Mails : Withdraw(m) \/ \E o \in People : Assign(m, o)
    \/ \E s \in Syncs : \/ FetchUsers(s)
                        \/ ObserveResolve(s)
                        \/ ObserveUpsert(s)
                        \/ ObserveFails(s)
                        \/ Rewrite(s)
    \/ Tick
    \/ Restart

IdentitySpec == IdentityInit /\ [][IdentityNext]_identityVars

-----------------------------------------------------------------------------
(* Properties *)

IdentityTypeOK ==
    /\ config \in Configs
    /\ holder \in [Mails -> People \union {NoOne}]
    /\ aliases \in [BothTenants -> [Aliases -> Principals \union {NoOne}]]
    /\ minted \in Principals
    /\ grants \in [Principals -> SUBSET People]
    /\ DOMAIN cache \subseteq Keys
    /\ \A k \in DOMAIN cache : cache[k] \in [principal : Principals, left : 1..TTL]
    /\ \A r \in Slots : reqs[r].pc \in {"idle", "resolving", "storing", "executing"}
    /\ \A s \in Syncs : syncs[s].pc \in {"idle", "observing", "upserting"}
    /\ since \in [Aliases -> [Principals -> 0..Never]]
    /\ recycled \subseteq Mails

\* The aliases a token may be resolved by: the object id and the subject, and
\* an address that the identity provider has verified.
Trusted(token) ==
    {<<"entra:id", token.oid>>, <<"jwt:sub", token.sub>>} \union
    (IF token.verified
     THEN {<<"jwt:email", token.mail>>, <<"jwt:preferred_username", token.name>>}
     ELSE {})

Executing(r) == reqs[r].pc = "executing"

\* Staleness is bounded: when a query starts as a principal of Home, one of the
\* verified aliases of its token named that principal less than TTL + Lag ago,
\* although the sync never clears the cache and an answer may be cached after
\* the alias has moved on.  A query of another tenant runs as that tenant's
\* principal.  In canonical mode no verified token runs as a raw subject, and
\* only demo mode takes the caller's word.
RunsAsResolved ==
    [][\A r \in Slots : Executing(r)' /\ ~Executing(r) =>
        LET req == reqs'[r]
        IN  IF req.token = Anonymous THEN config.allowDemo
            ELSE IF ~config.canonical THEN req.user = Raw(effectiveUserID(req.token))
            ELSE /\ req.user[1] = "principal"
                 /\ IF req.tenant = Abroad THEN req.user[2] = Foreign
                    ELSE \E a \in Trusted(req.token) \intersect Aliases :
                            since[a][req.user[2]] < TTL + Lag]_identityVars

\* One person, one principal: the object id is the join, so the permissions
\* that a principal has are those of one person, and a query with an object id
\* in its token runs with nobody else's, however syncs fail half way and
\* addresses come and go, unless an address has passed to another person.
\* The state is well typed throughout.
OnePerson ==
    /\ IdentityTypeOK
    /\ recycled = {} =>
        /\ \A p \in Principals : Cardinality(grants[p]) <= 1
        /\ \A r \in Slots :
            /\ Executing(r)
            /\ reqs[r].user[1] = "principal"
            /\ reqs[r].token.oid # NoOne
            => grants[reqs[r].user[2]] \subseteq {reqs[r].token.oid}
-----------------------------------------------------------------------------
(* The inductive invariant behind the two properties *)

Claimed == [oid : People \union {NoOne}, sub : People \union {NoOne},
            mail : In("jwt:email") \union {NoOne},
            name : In("jwt:preferred_username") \union {NoOne}, verified : BOOLEAN]

\* Requests and syncs have their fields.
Shaped ==
    /\ IdentityTypeOK
    /\ DOMAIN reqs = Slots /\ DOMAIN syncs = Syncs
    /\ \A r \in Slots : reqs[r].pc # "idle" =>
        /\ reqs[r].tenant \in BothTenants /\ reqs[r].token \in Claimed
        /\ reqs[r].pc = "storing" =>
            /\ DOMAIN reqs[r] = {"pc", "tenant", "token", "principal", "age"}
            /\ reqs[r].principal \in Principals /\ reqs[r].age \in 0..Lag
        /\ Executing(r) /\ reqs[r].user[1] = "principal" => reqs[r].user[2] \in Principals
    /\ \A s \in Syncs : syncs[s].pc # "idle" =>
        /\ syncs[s].dir \in [Mails -> People \union {NoOne}]
        /\ syncs[s].todo \subseteq People
        /\ syncs[s].mapped \in [People -> Principals \union {NoOne}]
        /\ syncs[s].pc = "upserting" => /\ syncs[s].person \in People
                                       /\ syncs[s].principal \in Principals

\* Only a canonical deployment resolves, and only verified tokens.
Resolving ==
    \A r \in Slots : reqs[r].pc \in {"resolving", "storing"} =>
        config.canonical /\ reqs[r].token # Anonymous

\* The other tenant's aliases name its own principal.
ApartAbroad ==
    /\ \A a \in Aliases : aliases[Abroad][a] \in {Foreign, NoOne}
    /\ \A k \in DOMAIN cache : k[1] = Abroad => cache[k].principal = Foreign
    /\ \A r \in Slots : reqs[r].pc # "idle" /\ reqs[r].tenant = Abroad =>
        /\ reqs[r].pc = "storing" => reqs[r].principal = Foreign
        /\ Executing(r) /\ reqs[r].user[1] = "principal" => reqs[r].user[2] = Foreign

\* How long ago each alias named what is held of it: not at all, at most as long as
\* the answer is old, and at most TTL + Lag less what a cache entry has left.
Recent ==
    /\ \A a \in Aliases, p \in Principals : aliases[Home][a] = p => since[a][p] = 0
    /\ \A r \in Slots : reqs[r].pc = "storing" /\ reqs[r].tenant = Home =>
        \E a \in verifiedAssertions(reqs[r].token) : since[a][reqs[r].principal] <= reqs[r].age
    /\ \A k \in DOMAIN cache : k[1] = Home =>
        \E a \in k[2] : since[a][cache[k].principal] + cache[k].left <= TTL + Lag

\* The person an alias stands for while no address has changed hands.
PersonOf(a) == IF a[1] \in Spaces THEN Owner[a[2]] ELSE a[2]

\* The person o goes by the principal p somewhere at Home.
Used(o, p) ==
    \/ \E a \in Aliases : PersonOf(a) = o /\ aliases[Home][a] = p
    \/ \E s \in Syncs : syncs[s].pc = "upserting" /\ syncs[s].person = o /\ syncs[s].principal = p
    \/ \E s \in Syncs : syncs[s].pc # "idle" /\ syncs[s].mapped[o] = p
    \/ o \in grants[p]
    \/ \E k \in DOMAIN cache : /\ k[1] = Home /\ cache[k].principal = p
                              /\ \E a \in k[2] : PersonOf(a) = o
    \/ \E r \in Slots : /\ reqs[r].pc # "idle" /\ reqs[r].tenant = Home
                        /\ \/ reqs[r].pc = "storing" /\ reqs[r].principal = p
                           \/ Executing(r) /\ reqs[r].user[1] = "principal" /\ reqs[r].user[2] = p
                        /\ \E a \in verifiedAssertions(reqs[r].token) : PersonOf(a) = o

\* While no address has changed hands: addresses are their owners', a token is
\* about one person, and a principal that is used has been minted for one person.
OwnPrincipals ==
    recycled = {} =>
        /\ \A m \in Mails : holder[m] \in {Owner[m], NoOne}
        /\ \A s \in Syncs, m \in Mails : syncs[s].pc # "idle" => syncs[s].dir[m] \in {Owner[m], NoOne}
        /\ \A r \in Slots : reqs[r].pc # "idle" =>
            \A a, b \in verifiedAssertions(reqs[r].token) : PersonOf(a) = PersonOf(b)
        /\ \A o \in People, p \in Principals : Used(o, p) => p \in 1..minted
        /\ \A o, n \in People, p \in Principals : Used(o, p) /\ Used(n, p) => o = n

IdentityInv == Shaped /\ Resolving /\ ApartAbroad /\ Recent /\ OwnPrincipals

=============================================================================
