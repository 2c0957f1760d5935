--------------------------- MODULE ApiKeysProofs ----------------------------
(***************************************************************************)
(* Proofs about ApiKeys, for every number of requests in flight, rows,     *)
(* secrets, budgets and window lengths: types, the inductive invariant     *)
(* KeyInv behind the three properties of the table, and the inductive      *)
(* invariant BudgetInv behind the budget of the limiter.                   *)
(***************************************************************************)
EXTENDS ApiKeys, FiniteSetTheorems, SequenceTheorems, TLAPS

-----------------------------------------------------------------------------
(* The rows and what happens to them *)

\* A new row of a tenant is a row.
LEMMA RowTyping ==
    ASSUME NEW s \in Secrets, NEW t \in Tenants, NEW S \in SUBSET Scopes, NEW n \in Nat
    PROVE  Row(s, t, S, n) \in Rows
BY DEF Row, Rows

\* The bootstrap row is a row.
LEMMA BootTyping == BootRow \in Rows
<1>1. Boot \in Secrets /\ BootTenant \in Tenants /\ {"query", "admin"} \in SUBSET Scopes
      /\ BootRPM \in Nat
  BY KeysAssumption DEF Boot, Secrets, Tenants, Scopes
<1>. QED  BY <1>1, RowTyping DEF BootRow

\* What bootstrap does to a table: it grows by one row at most, a row whose
\* secret is not the bootstrap key stays as it is, and one whose secret is the
\* bootstrap key is the bootstrap row.
LEMMA BootstrapEffect ==
    ASSUME NEW table \in Seq(Rows)
    PROVE  /\ Bootstrapped(table) \in Seq(Rows)
           /\ Len(table) <= Len(Bootstrapped(table))
           /\ Len(Bootstrapped(table)) <= Len(table) + 1
           /\ \A id \in DOMAIN table :
                /\ table[id].secret # Boot => Bootstrapped(table)[id] = table[id]
                /\ table[id].secret = Boot => Bootstrapped(table)[id] = BootRow
           /\ \A id \in DOMAIN Bootstrapped(table) :
                id \in DOMAIN table \/ Bootstrapped(table)[id] = BootRow
<1>1. CASE \E id \in DOMAIN table : table[id].secret = Boot
  <2> DEFINE after == [id \in DOMAIN table |->
                          IF table[id].secret = Boot THEN BootRow ELSE table[id]]
  <2>1. Bootstrapped(table) = after
    BY <1>1 DEF Bootstrapped
  <2>2. DOMAIN table = 1..Len(table) /\ Len(table) \in Nat
    OBVIOUS
  <2>3. after \in [1..Len(table) -> Rows]
    BY <2>2, BootTyping
  <2>4. after \in Seq(Rows) /\ Len(after) = Len(table)
    BY <2>2, <2>3
  <2>. HIDE DEF after
  <2>5. \A id \in DOMAIN table :
            after[id] = IF table[id].secret = Boot THEN BootRow ELSE table[id]
    BY DEF after
  <2>. QED  BY <2>1, <2>2, <2>4, <2>5
<1>2. CASE ~ \E id \in DOMAIN table : table[id].secret = Boot
  <2>1. Bootstrapped(table) = Append(table, BootRow)
    BY <1>2 DEF Bootstrapped
  <2>. QED  BY <1>2, <2>1, BootTyping
<1>. QED  BY <1>1, <1>2

-----------------------------------------------------------------------------
(* Types *)

\* The initial state is well typed.
LEMMA TypeInit == Init => TypeOK
<1> SUFFICES ASSUME Init PROVE TypeOK
  OBVIOUS
<1> USE KeysAssumption
<1>1. <<OtherRow>> \in Seq(Rows) /\ Len(<<OtherRow>>) = 1
  <2>1. OtherRow \in Rows
    BY RowTyping DEF OtherRow, Secrets, Tenants, Scopes
  <2>. QED  BY <2>1
<1>2. keys \in Seq(Rows) /\ Len(keys) <= MaxKeys
  <2>1. /\ Bootstrapped(<<OtherRow>>) \in Seq(Rows)
        /\ Len(Bootstrapped(<<OtherRow>>)) <= Len(<<OtherRow>>) + 1
    BY <1>1, BootstrapEffect
  <2>2. keys = Bootstrapped(<<OtherRow>>)
    BY DEF Init
  <2>3. keys \in Seq(Rows) /\ Len(keys) <= 1 + 1
    BY <1>1, <2>1, <2>2
  <2>4. Len(keys) \in Nat
    BY <2>3
  <2>. QED  BY <2>3, <2>4
<1>3. nextSecret \in 1..(MaxSecret + 1) /\ issuedTo \in [Secrets -> Tenants]
  BY DEF Init, Tenants, Secrets
<1>4. /\ windows \in [KeyIds -> [count : Nat, left : Ages \union {-1}]]
      /\ recent \in [KeyIds -> [Ages -> Nat]]
  BY DEF Init, NoWindow
<1>5. reqs \in [Slots -> Requests] /\ crossed \in [Tenants -> BOOLEAN]
  BY DEF Init, Requests
<1>. QED  BY <1>2, <1>3, <1>4, <1>5 DEF TypeOK

\* Revoking or rotating a row leaves a table with the same rows in number,
\* tenant and scopes; only that row has another secret or state.
LEMMA UpdateEffect ==
    ASSUME NEW table \in Seq(Rows), NEW id \in DOMAIN table, NEW row \in Rows, NEW new,
           row.tenant = table[id].tenant, row.scopes = table[id].scopes,
           new = [table EXCEPT ![id] = row]
    PROVE  /\ new \in Seq(Rows) /\ Len(new) = Len(table) /\ DOMAIN new = DOMAIN table
           /\ \A j \in DOMAIN table : /\ new[j].tenant = table[j].tenant
                                      /\ new[j].scopes = table[j].scopes
                                      /\ j # id => new[j] = table[j]
           /\ new[id] = row
<1>1. new \in Seq(Rows) /\ Len(new) = Len(table) /\ DOMAIN new = DOMAIN table
  OBVIOUS
<1>2. \A j \in DOMAIN table : new[j] = IF j = id THEN row ELSE table[j]
  OBVIOUS
<1>. QED  BY <1>1, <1>2

\* An admitted request has a context.
LEMMA AdmittedContext ==
    ASSUME TypeOK, NEW r \in Slots, Administers(r)
    PROVE  reqs[r].ctx \in Contexts
<1>1. reqs[r] \in Requests
  BY DEF TypeOK
<1>2. reqs[r] # Waiting
  BY DEF Administers, Waiting
<1>3. reqs[r] \in [pc : {"admitted"}, ctx : Contexts]
  BY <1>1, <1>2 DEF Requests
<1>. QED  BY <1>3

\* What an admitted request does to the windows and to the history.
LEMMA PassesTyping ==
    ASSUME TypeOK, NEW id \in DOMAIN keys, NEW scope, Passes(id, scope)
    PROVE  /\ windows' \in [KeyIds -> [count : Nat, left : Ages \union {-1}]]
           /\ recent' \in [KeyIds -> [Ages -> Nat]]
<1> DEFINE W == [count : Nat, left : Ages \union {-1}]
<1>1. keys \in Seq(Rows) /\ Len(keys) <= MaxKeys /\ MaxKeys \in Nat
  BY KeysAssumption DEF TypeOK
<1>2. id \in KeyIds
  BY <1>1 DEF KeyIds
<1>3. windows[id] \in W /\ windows \in [KeyIds -> W]
  BY <1>2 DEF TypeOK
<1>4. [windows[id] EXCEPT !.count = @ + 1] \in W
  BY <1>3
<1>5. [count |-> 1, left |-> Window] \in W
  BY KeysAssumption DEF Ages
<1>6. Allow(id, keys[id].rpm).window \in W
  BY <1>3, <1>4, <1>5 DEF Allow
<1>7. windows' = [windows EXCEPT ![id] = Allow(id, keys[id].rpm).window]
  BY DEF Passes
<1>. HIDE DEF W
<1>8. windows' \in [KeyIds -> W]
  BY <1>3, <1>6, <1>7
<1>9. recent' \in [KeyIds -> [Ages -> Nat]]
  <2>1. recent' = [recent EXCEPT ![id] = [recent[id] EXCEPT ![0] = recent[id][0] + 1]]
    BY DEF Passes
  <2>2. recent \in [KeyIds -> [Ages -> Nat]] /\ recent[id] \in [Ages -> Nat] /\ 0 \in Ages
    BY <1>2, KeysAssumption DEF TypeOK, Ages
  <2>3. [recent[id] EXCEPT ![0] = recent[id][0] + 1] \in [Ages -> Nat]
    BY <2>2
  <2>. QED  BY <2>1, <2>2, <2>3
<1>. QED  BY <1>8, <1>9 DEF W

\* Time leaves the windows and the history well typed.
LEMMA TickTyping ==
    ASSUME TypeOK, Tick
    PROVE  /\ windows' \in [KeyIds -> [count : Nat, left : Ages \union {-1}]]
           /\ recent' \in [KeyIds -> [Ages -> Nat]]
<1> USE KeysAssumption
<1>1. ASSUME NEW id \in KeyIds
      PROVE  windows'[id] \in [count : Nat, left : Ages \union {-1}]
  <2>1. windows[id] \in [count : Nat, left : Ages \union {-1}]
    BY DEF TypeOK
  <2>2. windows'[id] = IF windows[id].left <= 0 THEN NoWindow
                       ELSE [windows[id] EXCEPT !.left = @ - 1]
    BY DEF Tick
  <2>. QED  BY <2>1, <2>2 DEF NoWindow, Ages
<1>2. ASSUME NEW id \in KeyIds
      PROVE  recent'[id] \in [Ages -> Nat]
  <2>1. recent[id] \in [Ages -> Nat]
    BY DEF TypeOK
  <2>2. recent'[id] = [age \in Ages |-> IF age = 0 THEN 0 ELSE recent[id][age - 1]]
    BY DEF Tick
  <2>3. \A age \in Ages : age # 0 => age - 1 \in Ages
    BY DEF Ages
  <2>. QED  BY <2>1, <2>2, <2>3
<1>3. windows' = [id \in KeyIds |-> windows'[id]] /\ recent' = [id \in KeyIds |-> recent'[id]]
  BY DEF Tick
<1>. QED  BY <1>1, <1>2, <1>3

\* A handler's change of the table does not disturb the other variables' types:
\* the request is answered, and a bit is noted.
LEMMA ActedTyping ==
    ASSUME TypeOK, NEW r \in Slots, Administers(r), Answered(r), Acted(r)
    PROVE  reqs' \in [Slots -> Requests] /\ crossed' \in [Tenants -> BOOLEAN]
<1>1. reqs[r].ctx.tenant \in Tenants
  BY AdmittedContext DEF Contexts
<1>2. reqs' \in [Slots -> Requests]
  BY DEF TypeOK, Answered, Requests
<1>3. crossed' = [crossed EXCEPT ![reqs[r].ctx.tenant] =
                     crossed[reqs[r].ctx.tenant] \/ ~keys[reqs[r].ctx.id].active]
  BY Zenon DEF Acted
<1>4. crossed \in [Tenants -> BOOLEAN]
  BY DEF TypeOK
<1>5. (crossed[reqs[r].ctx.tenant] \/ ~keys[reqs[r].ctx.id].active) \in BOOLEAN
  BY Zenon
<1>. QED  BY <1>1, <1>2, <1>3, <1>4, <1>5

\* A generated secret is a secret, and is noted for its tenant.
LEMMA GeneratedTyping ==
    ASSUME TypeOK, NEW t \in Tenants, Generated(t)
    PROVE  /\ nextSecret \in Secrets /\ nextSecret # Boot
           /\ nextSecret' \in 1..(MaxSecret + 1)
           /\ issuedTo' \in [Secrets -> Tenants]
BY KeysAssumption DEF TypeOK, Generated, Secrets, Boot

\* A key is created with a positive budget, whatever was asked for.
LEMMA BudgetTyping ==
    ASSUME NEW asked \in Budgets
    PROVE  normalizeBudget(asked) \in Nat \ {0}
<1>1. asked \in Int
  BY KeysAssumption
<1>. QED  BY <1>1, KeysAssumption DEF normalizeBudget

\* What createAPIKey does: a row more, with a fresh secret of its own tenant.
LEMMA CreateEffect ==
    ASSUME TypeOK, NEW r \in Slots, createAPIKey(r)
    PROVE  /\ keys' \in Seq(Rows) /\ Len(keys') <= MaxKeys
           /\ DOMAIN keys' = DOMAIN keys \union {Len(keys) + 1}
           /\ Len(keys) + 1 \notin DOMAIN keys
           /\ \A id \in DOMAIN keys : keys'[id] = keys[id]
           /\ keys'[Len(keys) + 1].secret = nextSecret
           /\ keys'[Len(keys) + 1].tenant = reqs[r].ctx.tenant
           /\ Generated(reqs[r].ctx.tenant) /\ reqs[r].ctx.tenant \in Tenants
<1> DEFINE tenant == reqs[r].ctx.tenant
<1>1. tenant \in Tenants
  BY AdmittedContext DEF createAPIKey, Contexts
<1>2. Generated(tenant) /\ nextSecret \in Secrets
  BY <1>1, GeneratedTyping DEF createAPIKey
<1>3. PICK scopes \in {{}, {"audit"}, {"admin"}}, asked \in Budgets :
          keys' = Append(keys, Row(nextSecret, tenant, normalizeScopes(scopes),
                                   normalizeBudget(asked)))
  BY DEF createAPIKey
<1>4. normalizeScopes(scopes) \in SUBSET Scopes /\ normalizeBudget(asked) \in Nat
  BY BudgetTyping DEF normalizeScopes, Scopes
<1> DEFINE row == Row(nextSecret, tenant, normalizeScopes(scopes), normalizeBudget(asked))
<1>5. row \in Rows
  BY <1>1, <1>2, <1>4, RowTyping
<1>6. row.secret = nextSecret /\ row.tenant = tenant
  BY DEF Row
<1>. HIDE DEF row
<1>7. keys \in Seq(Rows) /\ Len(keys) < MaxKeys /\ keys' = Append(keys, row)
  BY <1>3 DEF TypeOK, createAPIKey, row
<1>8. /\ keys' \in Seq(Rows) /\ Len(keys') = Len(keys) + 1
      /\ DOMAIN keys' = 1..(Len(keys) + 1) /\ DOMAIN keys = 1..Len(keys) /\ Len(keys) \in Nat
      /\ \A id \in DOMAIN keys : keys'[id] = keys[id]
      /\ keys'[Len(keys) + 1] = row
  BY <1>5, <1>7
<1>9. DOMAIN keys' = DOMAIN keys \union {Len(keys) + 1} /\ Len(keys) + 1 \notin DOMAIN keys
  BY <1>8
<1>. QED  BY <1>1, <1>2, <1>6, <1>7, <1>8, <1>9, KeysAssumption

\* What rotateAPIKey does: one active row of the tenant, which is not the
\* request's own, gets a fresh secret.
LEMMA RotateEffect ==
    ASSUME TypeOK, NEW r \in Slots, rotateAPIKey(r)
    PROVE  /\ keys' \in Seq(Rows) /\ Len(keys') <= MaxKeys /\ DOMAIN keys' = DOMAIN keys
           /\ Generated(reqs[r].ctx.tenant) /\ reqs[r].ctx.tenant \in Tenants
           /\ \E id \in DOMAIN keys :
                /\ keys[id].active /\ keys[id].tenant = reqs[r].ctx.tenant
                /\ keys'[id].secret = nextSecret /\ keys'[id].active
                /\ \A j \in DOMAIN keys : /\ keys'[j].tenant = keys[j].tenant
                                          /\ keys'[j].scopes = keys[j].scopes
                                          /\ j # id => keys'[j] = keys[j]
<1>1. reqs[r].ctx.tenant \in Tenants
  BY AdmittedContext DEF rotateAPIKey, Contexts
<1>2. PICK id \in Rotatable(r) :
          /\ Generated(reqs[r].ctx.tenant)
          /\ keys' = [keys EXCEPT ![id].secret = nextSecret, ![id].active = TRUE]
  BY DEF rotateAPIKey
<1>3. id \in DOMAIN keys /\ keys[id].tenant = reqs[r].ctx.tenant /\ keys[id].active
  BY DEF Rotatable
<1>4. nextSecret \in Secrets
  BY <1>1, <1>2, GeneratedTyping
<1>5. keys \in Seq(Rows) /\ Len(keys) <= MaxKeys
  BY DEF TypeOK
<1> DEFINE row == [keys[id] EXCEPT !.secret = nextSecret, !.active = TRUE]
<1>6. keys' = [keys EXCEPT ![id] = row]
  BY <1>2
<1>7. /\ row \in Rows /\ row.tenant = keys[id].tenant /\ row.scopes = keys[id].scopes
      /\ row.secret = nextSecret /\ row.active = TRUE
  <2>1. keys[id] \in Rows
    BY <1>3, <1>5
  <2>. QED  BY <1>4, <2>1 DEF Rows
<1>. HIDE DEF row
<1>8. /\ keys' \in Seq(Rows) /\ Len(keys') = Len(keys) /\ DOMAIN keys' = DOMAIN keys
      /\ \A j \in DOMAIN keys : /\ keys'[j].tenant = keys[j].tenant
                                /\ keys'[j].scopes = keys[j].scopes
                                /\ j # id => keys'[j] = keys[j]
      /\ keys'[id] = row
  BY <1>3, <1>5, <1>6, <1>7, UpdateEffect
<1>. QED  BY <1>1, <1>2, <1>3, <1>5, <1>7, <1>8

\* What revokeAPIKey does: one row of the tenant, which is not the request's
\* own, is switched off.
LEMMA RevokeEffect ==
    ASSUME TypeOK, NEW r \in Slots, revokeAPIKey(r)
    PROVE  /\ keys' \in Seq(Rows) /\ Len(keys') <= MaxKeys /\ DOMAIN keys' = DOMAIN keys
           /\ \E id \in DOMAIN keys :
                /\ keys[id].tenant = reqs[r].ctx.tenant /\ id # reqs[r].ctx.id
                /\ ~keys'[id].active
                /\ \A j \in DOMAIN keys : /\ keys'[j].tenant = keys[j].tenant
                                          /\ keys'[j].scopes = keys[j].scopes
                                          /\ keys'[j].secret = keys[j].secret
                                          /\ j # id => keys'[j] = keys[j]
<1>1. PICK id \in Revocable(r) : ~IsOwnKey(r, id) /\ keys' = [keys EXCEPT ![id].active = FALSE]
  BY DEF revokeAPIKey
<1>2. id \in DOMAIN keys /\ keys[id].tenant = reqs[r].ctx.tenant /\ id # reqs[r].ctx.id
  BY <1>1 DEF Revocable, IsOwnKey
<1>3. keys \in Seq(Rows) /\ Len(keys) <= MaxKeys /\ keys[id] \in Rows
  BY <1>2 DEF TypeOK
<1> DEFINE row == [keys[id] EXCEPT !.active = FALSE]
<1>4. keys' = [keys EXCEPT ![id] = row]
  BY <1>1
<1>5. /\ row \in Rows /\ row.tenant = keys[id].tenant /\ row.scopes = keys[id].scopes
      /\ row.secret = keys[id].secret /\ row.active = FALSE
  BY <1>3 DEF Rows
<1>. HIDE DEF row
<1>6. /\ keys' \in Seq(Rows) /\ Len(keys') = Len(keys) /\ DOMAIN keys' = DOMAIN keys
      /\ \A j \in DOMAIN keys : /\ keys'[j].tenant = keys[j].tenant
                                /\ keys'[j].scopes = keys[j].scopes
                                /\ j # id => keys'[j] = keys[j]
      /\ keys'[id] = row
  BY <1>2, <1>3, <1>4, <1>5, UpdateEffect
<1>. QED  BY <1>2, <1>3, <1>5, <1>6

\* Every step keeps the types.
LEMMA TypeStep == TypeOK /\ [Next]_vars => TypeOK'
<1> SUFFICES ASSUME TypeOK, [Next]_vars PROVE TypeOK'
  OBVIOUS
<1>1. CASE UNCHANGED vars
  BY <1>1 DEF TypeOK, vars
<1>2. ASSUME NEW r \in Slots, AdmitAdmin(r) PROVE TypeOK'
  <2>1. PICK ks \in Presented : /\ Passes(ks[1], "admin")
                                /\ reqs' = [reqs EXCEPT ![r] = Admission(Context(ks[1]))]
    BY <1>2 DEF AdmitAdmin
  <2>2. ks[1] \in DOMAIN keys /\ ks[1] \in KeyIds
    BY DEF Presented
  <2>3. keys[ks[1]] \in Rows
    BY <2>2 DEF TypeOK
  <2>4. Context(ks[1]) \in Contexts
    BY <2>2, <2>3 DEF Context, Contexts, Rows
  <2>5. reqs' \in [Slots -> Requests]
    BY <2>1, <2>4 DEF TypeOK, Requests, Admission
  <2>6. /\ windows' \in [KeyIds -> [count : Nat, left : Ages \union {-1}]]
        /\ recent' \in [KeyIds -> [Ages -> Nat]]
    BY <2>1, <2>2, PassesTyping
  <2>. QED  BY <1>2, <2>5, <2>6 DEF TypeOK, AdmitAdmin
<1>3. ASSUME NEW r \in Slots, AdmitOther(r) PROVE TypeOK'
  <2>1. PICK ks \in Presented : Passes(ks[1], ks[2])
    BY <1>3 DEF AdmitOther
  <2>2. ks[1] \in DOMAIN keys
    BY DEF Presented
  <2>3. /\ windows' \in [KeyIds -> [count : Nat, left : Ages \union {-1}]]
        /\ recent' \in [KeyIds -> [Ages -> Nat]]
    BY <2>1, <2>2, PassesTyping
  <2>. QED  BY <1>3, <2>3 DEF TypeOK, AdmitOther
<1>4. ASSUME NEW r \in Slots, createAPIKey(r) PROVE TypeOK'
  <2>1. keys' \in Seq(Rows) /\ Len(keys') <= MaxKeys
    BY <1>4, CreateEffect
  <2>2. nextSecret' \in 1..(MaxSecret + 1) /\ issuedTo' \in [Secrets -> Tenants]
    BY <1>4, CreateEffect, GeneratedTyping
  <2>3. reqs' \in [Slots -> Requests] /\ crossed' \in [Tenants -> BOOLEAN]
    BY <1>4, ActedTyping DEF createAPIKey
  <2>. QED  BY <1>4, <2>1, <2>2, <2>3 DEF TypeOK, createAPIKey
<1>5. ASSUME NEW r \in Slots, rotateAPIKey(r) PROVE TypeOK'
  <2>1. keys' \in Seq(Rows) /\ Len(keys') <= MaxKeys
    BY <1>5, RotateEffect
  <2>2. nextSecret' \in 1..(MaxSecret + 1) /\ issuedTo' \in [Secrets -> Tenants]
    BY <1>5, RotateEffect, GeneratedTyping
  <2>3. reqs' \in [Slots -> Requests] /\ crossed' \in [Tenants -> BOOLEAN]
    BY <1>5, ActedTyping DEF rotateAPIKey
  <2>. QED  BY <1>5, <2>1, <2>2, <2>3 DEF TypeOK, rotateAPIKey
<1>6. ASSUME NEW r \in Slots, revokeAPIKey(r) PROVE TypeOK'
  <2>1. keys' \in Seq(Rows) /\ Len(keys') <= MaxKeys
    BY <1>6, RevokeEffect
  <2>2. reqs' \in [Slots -> Requests] /\ crossed' \in [Tenants -> BOOLEAN]
    BY <1>6, ActedTyping DEF revokeAPIKey
  <2>. QED  BY <1>6, <2>1, <2>2 DEF TypeOK, revokeAPIKey
<1>7. ASSUME NEW r \in Slots, AdminNoEffect(r) PROVE TypeOK'
  <2>1. reqs' \in [Slots -> Requests]
    BY <1>7 DEF TypeOK, AdminNoEffect, Answered, Requests
  <2>. QED  BY <1>7, <2>1 DEF TypeOK, AdminNoEffect
<1>8. CASE Tick
  <2>1. /\ windows' \in [KeyIds -> [count : Nat, left : Ages \union {-1}]]
        /\ recent' \in [KeyIds -> [Ages -> Nat]]
    BY <1>8, TickTyping
  <2>. QED  BY <1>8, <2>1 DEF TypeOK, Tick
<1>9. CASE Restart
  <2>1. keys' \in Seq(Rows) /\ Len(keys') <= MaxKeys
    BY <1>9, BootstrapEffect DEF TypeOK, Restart
  <2>2. /\ windows' \in [KeyIds -> [count : Nat, left : Ages \union {-1}]]
        /\ recent' \in [KeyIds -> [Ages -> Nat]]
        /\ reqs' \in [Slots -> Requests]
    BY <1>9 DEF Restart, NoWindow, Requests
  <2>. QED  BY <1>9, <2>1, <2>2 DEF TypeOK, Restart
<1>. QED
  BY <1>1, <1>2, <1>3, <1>4, <1>5, <1>6, <1>7, <1>8, <1>9
     DEF Next, Unauthorized, Forbidden, RateLimited

\* Every variable of the key store keeps its type, whatever requests race.
THEOREM KeysTypeCorrect == Spec => []TypeOK
BY TypeInit, TypeStep, PTL DEF Spec

-----------------------------------------------------------------------------
(* The inductive invariant *)

\* Steps that leave the table and its history alone keep the invariant, if the
\* requests they leave in flight were in flight before or are administrators'.
LEMMA TableUnchanged ==
    ASSUME KeyInv, TypeOK', UNCHANGED <<keys, nextSecret, issuedTo, crossed>>,
           AdmittedByAdmin',
           \A r \in Slots : Administers(r)' => reqs'[r].ctx.tenant = keys[reqs'[r].ctx.id].tenant
    PROVE  KeyInv'
BY DEF KeyInv, SecretsIssued, SecretsStayInTenant, AdminSurvives, Administers

\* Answering a request leaves the others in flight.
LEMMA AnsweredRequests ==
    ASSUME TypeOK, NEW r \in Slots, Answered(r), NEW p \in Slots, Administers(p)'
    PROVE  Administers(p) /\ reqs'[p] = reqs[p]
BY DEF TypeOK, Answered, Administers, Waiting

\* The handlers that change a row keep what is known of the other requests: a
\* row keeps its place, its tenant and its scopes.
LEMMA RequestsKept ==
    ASSUME KeyInv, NEW r \in Slots, Answered(r),
           \A id \in DOMAIN keys : /\ id \in DOMAIN keys'
                                   /\ keys'[id].tenant = keys[id].tenant
                                   /\ keys'[id].scopes = keys[id].scopes
    PROVE  /\ AdmittedByAdmin'
           /\ \A p \in Slots : Administers(p)' => reqs'[p].ctx.tenant = keys'[reqs'[p].ctx.id].tenant
<1> SUFFICES ASSUME NEW p \in Slots, Administers(p)'
             PROVE  /\ reqs'[p].ctx.id \in DOMAIN keys' /\ "admin" \in keys'[reqs'[p].ctx.id].scopes
                    /\ reqs'[p].ctx.tenant = keys'[reqs'[p].ctx.id].tenant
  BY DEF AdmittedByAdmin
<1>1. Administers(p) /\ reqs'[p] = reqs[p]
  BY AnsweredRequests DEF KeyInv
<1>2. /\ reqs[p].ctx.id \in DOMAIN keys /\ "admin" \in keys[reqs[p].ctx.id].scopes
      /\ reqs[p].ctx.tenant = keys[reqs[p].ctx.id].tenant
  BY <1>1 DEF KeyInv, AdmittedByAdmin, SecretsStayInTenant, Administers
<1>. QED  BY <1>1, <1>2

\* The tenants that are marked stay marked.
LEMMA ActedKeeps ==
    ASSUME TypeOK, NEW r \in Slots, Administers(r), Acted(r)
    PROVE  \A u \in Tenants : crossed[u] => crossed'[u]
<1>1. reqs[r].ctx.tenant \in Tenants
  BY AdmittedContext DEF Contexts
<1>. QED  BY <1>1 DEF TypeOK, Acted

\* The initial state satisfies the invariant.
LEMMA KeyInit == Init => KeyInv
<1> SUFFICES ASSUME Init PROVE KeyInv
  OBVIOUS
<1>1. TypeOK
  BY TypeInit
<1>2. keys = Append(<<OtherRow>>, BootRow)
  <2>1. ~ \E id \in DOMAIN <<OtherRow>> : <<OtherRow>>[id].secret = Boot
    BY DEF OtherRow, Row, Boot
  <2>. QED  BY <2>1 DEF Init, Bootstrapped
<1>3. DOMAIN keys = 1..2 /\ keys[1] = OtherRow /\ keys[2] = BootRow
  <2>1. OtherRow \in Rows
    BY RowTyping, KeysAssumption DEF OtherRow, Secrets, Tenants, Scopes
  <2>2. <<OtherRow>> \in Seq(Rows) /\ Len(<<OtherRow>>) = 1 /\ <<OtherRow>>[1] = OtherRow
    BY <2>1
  <2>. QED  BY <1>2, <2>2, BootTyping
<1>4. /\ OtherRow.secret = 1 /\ OtherRow.tenant = OtherTenant
      /\ OtherRow.active /\ "admin" \in OtherRow.scopes
      /\ BootRow.secret = 0 /\ BootRow.tenant = BootTenant
      /\ BootRow.active /\ "admin" \in BootRow.scopes
  BY DEF OtherRow, BootRow, Row, Boot
<1>5. issuedTo[0] = BootTenant /\ issuedTo[1] = OtherTenant /\ nextSecret = 2
  BY KeysAssumption DEF Init, Secrets
<1>6. SecretsIssued
  BY <1>3, <1>4, <1>5 DEF SecretsIssued, Boot
<1>7. \A r \in Slots : ~Administers(r)
  BY DEF Init, Administers, Waiting
<1>8. SecretsStayInTenant
  <2>1. \A id \in DOMAIN keys : issuedTo[keys[id].secret] = keys[id].tenant
    BY <1>3, <1>4, <1>5
  <2>. QED  BY <1>7, <2>1 DEF SecretsStayInTenant, Administers
<1>9. AdminSurvives
  <2>1. 1 \in DOMAIN keys /\ 2 \in DOMAIN keys
    BY <1>3
  <2>. QED  BY <1>3, <1>4, <2>1 DEF AdminSurvives, Tenants
<1>. QED  BY <1>1, <1>6, <1>7, <1>8, <1>9 DEF KeyInv, AdmittedByAdmin

\* A new row keeps the invariant: its secret is nobody else's.
LEMMA CreateKeeps ==
    ASSUME KeyInv, TypeOK', NEW r \in Slots, createAPIKey(r)
    PROVE  KeyInv'
<1> DEFINE n == Len(keys) + 1
           t == reqs[r].ctx.tenant
<1>1. /\ DOMAIN keys' = DOMAIN keys \union {n} /\ t \in Tenants
      /\ \A id \in DOMAIN keys : keys'[id] = keys[id]
      /\ keys'[n].secret = nextSecret /\ keys'[n].tenant = t
      /\ Generated(t)
  BY CreateEffect DEF KeyInv
<1>2. /\ nextSecret \in Secrets /\ nextSecret # Boot /\ nextSecret \in Nat
      /\ nextSecret' = nextSecret + 1
      /\ issuedTo' = [issuedTo EXCEPT ![nextSecret] = t]
      /\ issuedTo \in [Secrets -> Tenants] /\ Boot \in Secrets
  BY <1>1, GeneratedTyping, KeysAssumption DEF KeyInv, Generated, TypeOK, Secrets, Boot
<1>. HIDE DEF n, t
<1>3. \A id \in DOMAIN keys : keys[id].secret \in Secrets /\ keys[id].secret \in Nat
  <2>1. \A id \in DOMAIN keys : keys[id] \in Rows
    BY DEF KeyInv, TypeOK
  <2>. QED  BY <2>1, KeysAssumption DEF Rows, Secrets
<1>4. SecretsIssued'
  BY <1>1, <1>2, <1>3 DEF KeyInv, SecretsIssued
<1>5. \A id \in DOMAIN keys' : issuedTo'[keys'[id].secret] = keys'[id].tenant
  BY <1>1, <1>2, <1>3 DEF KeyInv, SecretsIssued, SecretsStayInTenant
<1>6. /\ AdmittedByAdmin'
      /\ \A p \in Slots : Administers(p)' => reqs'[p].ctx.tenant = keys'[reqs'[p].ctx.id].tenant
  BY <1>1, RequestsKept DEF createAPIKey
<1>7. SecretsStayInTenant'
  BY <1>5, <1>6 DEF SecretsStayInTenant, Administers
<1>8. AdminSurvives'
  <2>1. \A u \in Tenants : crossed[u] => crossed'[u]
    BY ActedKeeps DEF createAPIKey, KeyInv
  <2>. QED  BY <1>1, <2>1 DEF KeyInv, AdminSurvives
<1>. QED  BY <1>4, <1>6, <1>7, <1>8 DEF KeyInv

\* Rotating keeps the invariant: the row keeps its tenant and its scopes.
LEMMA RotateKeeps ==
    ASSUME KeyInv, TypeOK', NEW r \in Slots, rotateAPIKey(r)
    PROVE  KeyInv'
<1> DEFINE t == reqs[r].ctx.tenant
<1>1. DOMAIN keys' = DOMAIN keys /\ t \in Tenants /\ Generated(t)
  BY RotateEffect DEF KeyInv
<1>2. PICK id \in DOMAIN keys :
        /\ keys[id].tenant = t
        /\ keys'[id].secret = nextSecret /\ keys'[id].active
        /\ \A j \in DOMAIN keys : /\ keys'[j].tenant = keys[j].tenant
                                  /\ keys'[j].scopes = keys[j].scopes
                                  /\ j # id => keys'[j] = keys[j]
  BY RotateEffect DEF KeyInv
<1>3. /\ nextSecret \in Secrets /\ nextSecret # Boot /\ nextSecret \in Nat
      /\ nextSecret' = nextSecret + 1
      /\ issuedTo' = [issuedTo EXCEPT ![nextSecret] = t]
      /\ issuedTo \in [Secrets -> Tenants] /\ Boot \in Secrets
  BY <1>1, GeneratedTyping, KeysAssumption DEF KeyInv, Generated, TypeOK, Secrets, Boot
<1>. HIDE DEF t
<1>4. \A j \in DOMAIN keys : keys[j].secret \in Secrets /\ keys[j].secret \in Nat
  <2>1. \A j \in DOMAIN keys : keys[j] \in Rows
    BY DEF KeyInv, TypeOK
  <2>. QED  BY <2>1, KeysAssumption DEF Rows, Secrets
<1>5. SecretsIssued'
  BY <1>1, <1>2, <1>3, <1>4 DEF KeyInv, SecretsIssued
<1>6. \A j \in DOMAIN keys' : issuedTo'[keys'[j].secret] = keys'[j].tenant
  BY <1>1, <1>2, <1>3, <1>4 DEF KeyInv, SecretsIssued, SecretsStayInTenant
<1>7. /\ AdmittedByAdmin'
      /\ \A p \in Slots : Administers(p)' => reqs'[p].ctx.tenant = keys'[reqs'[p].ctx.id].tenant
  BY <1>1, <1>2, RequestsKept DEF rotateAPIKey
<1>8. SecretsStayInTenant'
  BY <1>6, <1>7 DEF SecretsStayInTenant, Administers
<1>9. AdminSurvives'
  <2>1. \A u \in Tenants : crossed[u] => crossed'[u]
    BY ActedKeeps DEF rotateAPIKey, KeyInv
  <2>2. \A j \in DOMAIN keys : keys[j].active => keys'[j].active
    BY <1>2
  <2>. QED  BY <1>1, <1>2, <2>1, <2>2 DEF KeyInv, AdminSurvives
<1>. QED  BY <1>5, <1>7, <1>8, <1>9 DEF KeyInv

\* Revoking keeps the invariant: the key that the request came with is still
\* there, or it had been dead and the tenant is marked.
LEMMA RevokeKeeps ==
    ASSUME KeyInv, TypeOK', NEW r \in Slots, revokeAPIKey(r)
    PROVE  KeyInv'
<1> DEFINE own == reqs[r].ctx.id
           t == reqs[r].ctx.tenant
<1>1. DOMAIN keys' = DOMAIN keys /\ UNCHANGED <<nextSecret, issuedTo>>
  BY RevokeEffect DEF KeyInv, revokeAPIKey
<1>2. PICK id \in DOMAIN keys :
        /\ keys[id].tenant = t /\ id # own
        /\ \A j \in DOMAIN keys : /\ keys'[j].tenant = keys[j].tenant
                                  /\ keys'[j].scopes = keys[j].scopes
                                  /\ keys'[j].secret = keys[j].secret
                                  /\ j # id => keys'[j] = keys[j]
  BY RevokeEffect DEF KeyInv
<1>3. own \in DOMAIN keys /\ "admin" \in keys[own].scopes /\ keys[own].tenant = t
  BY DEF KeyInv, AdmittedByAdmin, SecretsStayInTenant, Administers, revokeAPIKey
<1>4. t \in Tenants
  BY AdmittedContext DEF KeyInv, revokeAPIKey, Contexts
<1>5. crossed'[t] \/ keys[own].active
  <2>1. crossed' = [crossed EXCEPT ![t] = crossed[t] \/ ~keys[own].active]
    BY Zenon DEF revokeAPIKey, Acted
  <2>2. crossed \in [Tenants -> BOOLEAN]
    BY DEF KeyInv, TypeOK
  <2>3. crossed'[t] = (crossed[t] \/ ~keys[own].active)
    BY <1>4, <2>1, <2>2
  <2>. QED  BY <2>3
<1>6. \A u \in Tenants : crossed[u] => crossed'[u]
  BY ActedKeeps DEF revokeAPIKey, KeyInv
<1>. HIDE DEF own, t
<1>7. SecretsIssued'
  BY <1>1, <1>2 DEF KeyInv, SecretsIssued
<1>8. /\ AdmittedByAdmin'
      /\ \A p \in Slots : Administers(p)' => reqs'[p].ctx.tenant = keys'[reqs'[p].ctx.id].tenant
  BY <1>1, <1>2, RequestsKept DEF revokeAPIKey
<1>9. SecretsStayInTenant'
  BY <1>1, <1>2, <1>8 DEF KeyInv, SecretsStayInTenant, Administers
<1>10. AdminSurvives'
  <2> SUFFICES ASSUME NEW u \in Tenants, ~crossed'[u]
               PROVE  \E j \in DOMAIN keys' : /\ keys'[j].active /\ keys'[j].tenant = u
                                              /\ "admin" \in keys'[j].scopes
    BY DEF AdminSurvives
  <2>1. CASE u = t
    <3>1. keys[own].active /\ keys'[own] = keys[own]
      BY <1>2, <1>3, <1>5, <2>1
    <3>. QED  BY <1>1, <1>3, <2>1, <3>1
  <2>2. CASE u # t
    <3>1. PICK j \in DOMAIN keys : /\ keys[j].active /\ keys[j].tenant = u
                                   /\ "admin" \in keys[j].scopes
      BY <1>6 DEF KeyInv, AdminSurvives
    <3>2. keys'[j] = keys[j]
      BY <1>2, <2>2, <3>1
    <3>. QED  BY <1>1, <3>1, <3>2
  <2>. QED  BY <2>1, <2>2
<1>. QED  BY <1>7, <1>8, <1>9, <1>10 DEF KeyInv

\* A restart keeps the invariant: it touches the rows of the bootstrap key
\* only, which are BootTenant's, and leaves them active administrators.
LEMMA RestartKeeps ==
    ASSUME KeyInv, TypeOK', Restart
    PROVE  KeyInv'
<1>1. /\ \A id \in DOMAIN keys :
            /\ keys[id].secret # Boot => keys'[id] = keys[id]
            /\ keys[id].secret = Boot => keys'[id] = BootRow
      /\ \A id \in DOMAIN keys' : id \in DOMAIN keys \/ keys'[id] = BootRow
      /\ \A id \in DOMAIN keys : id \in DOMAIN keys'
  <2>1. keys \in Seq(Rows) /\ keys' = Bootstrapped(keys) /\ keys' \in Seq(Rows)
    BY DEF KeyInv, TypeOK, Restart
  <2>2. Len(keys) <= Len(keys')
    BY <2>1, BootstrapEffect
  <2>3. \A id \in DOMAIN keys : id \in DOMAIN keys'
    BY <2>1, <2>2
  <2>. QED  BY <2>1, <2>3, BootstrapEffect
<1>2. /\ BootRow.secret = Boot /\ BootRow.tenant = BootTenant
      /\ BootRow.active /\ "admin" \in BootRow.scopes
  BY DEF BootRow, Row
<1>3. UNCHANGED <<nextSecret, issuedTo, crossed>>
  BY DEF Restart
<1>4. Boot < nextSecret
  BY KeysAssumption DEF KeyInv, TypeOK, Boot
<1>5. SecretsIssued'
  BY <1>1, <1>2, <1>3, <1>4 DEF KeyInv, SecretsIssued
<1>6. \A r \in Slots : ~Administers(r)'
  BY DEF Restart, Administers, Waiting
<1>7. \A id \in DOMAIN keys' : issuedTo'[keys'[id].secret] = keys'[id].tenant
  BY <1>1, <1>2, <1>3 DEF KeyInv, SecretsIssued, SecretsStayInTenant
<1>8. SecretsStayInTenant'
  BY <1>6, <1>7 DEF SecretsStayInTenant, Administers
<1>9. \A id \in DOMAIN keys : keys[id].secret = Boot => keys[id].tenant = BootTenant
  BY DEF KeyInv, SecretsIssued, SecretsStayInTenant
<1>10. AdminSurvives'
  BY <1>1, <1>2, <1>3, <1>9 DEF KeyInv, AdminSurvives
<1>. QED  BY <1>5, <1>6, <1>8, <1>10 DEF KeyInv, AdmittedByAdmin

\* Every step keeps the invariant.
LEMMA KeyStep == KeyInv /\ [Next]_vars => KeyInv'
<1> SUFFICES ASSUME KeyInv, [Next]_vars PROVE KeyInv'
  OBVIOUS
<1>0. TypeOK'
  BY TypeStep DEF KeyInv
<1>1. CASE UNCHANGED vars
  BY <1>1 DEF KeyInv, TypeOK, SecretsIssued, AdmittedByAdmin, SecretsStayInTenant,
              AdminSurvives, Administers, vars
<1>2. ASSUME NEW r \in Slots, AdmitAdmin(r) PROVE KeyInv'
  <2>1. PICK ks \in Presented : /\ hasScope(Context(ks[1]), "admin")
                                /\ reqs' = [reqs EXCEPT ![r] = Admission(Context(ks[1]))]
    BY <1>2 DEF AdmitAdmin, Passes
  <2>2. ks[1] \in DOMAIN keys /\ "admin" \in keys[ks[1]].scopes
    BY <2>1 DEF Presented, hasScope, Context
  <2>3. UNCHANGED <<keys, nextSecret, issuedTo, crossed>>
    BY <1>2 DEF AdmitAdmin
  <2>4. ASSUME NEW p \in Slots, Administers(p)'
        PROVE  /\ reqs'[p].ctx.id \in DOMAIN keys /\ "admin" \in keys[reqs'[p].ctx.id].scopes
               /\ reqs'[p].ctx.tenant = keys[reqs'[p].ctx.id].tenant
    <3>1. CASE p = r
      <4>1. reqs'[p] = Admission(Context(ks[1]))
        BY <2>1, <3>1 DEF KeyInv, TypeOK
      <4>. QED  BY <2>2, <4>1 DEF Admission, Context
    <3>2. CASE p # r
      <4>1. reqs'[p] = reqs[p] /\ Administers(p)
        BY <2>1, <2>4, <3>2 DEF KeyInv, TypeOK, Administers
      <4>. QED  BY <4>1 DEF KeyInv, AdmittedByAdmin, SecretsStayInTenant, Administers
    <3>. QED  BY <3>1, <3>2
  <2>5. AdmittedByAdmin'
    BY <2>3, <2>4 DEF AdmittedByAdmin
  <2>. QED  BY <1>0, <2>3, <2>4, <2>5, TableUnchanged
<1>3. ASSUME NEW r \in Slots, AdmitOther(r) PROVE KeyInv'
  BY <1>0, <1>3 DEF AdmitOther, KeyInv, SecretsIssued, AdmittedByAdmin, SecretsStayInTenant,
                    AdminSurvives, Administers
<1>4. ASSUME NEW r \in Slots, AdminNoEffect(r) PROVE KeyInv'
  <2>1. UNCHANGED <<keys, nextSecret, issuedTo, crossed>> /\ Answered(r)
    BY <1>4 DEF AdminNoEffect
  <2>2. /\ AdmittedByAdmin'
        /\ \A p \in Slots : Administers(p)' => reqs'[p].ctx.tenant = keys'[reqs'[p].ctx.id].tenant
    BY <2>1, RequestsKept
  <2>. QED  BY <1>0, <2>1, <2>2, TableUnchanged
<1>5. CASE Tick
  BY <1>0, <1>5 DEF Tick, KeyInv, SecretsIssued, AdmittedByAdmin, SecretsStayInTenant,
                    AdminSurvives, Administers
<1>. QED
  BY <1>0, <1>1, <1>2, <1>3, <1>4, <1>5, CreateKeeps, RotateKeeps, RevokeKeeps, RestartKeeps
     DEF Next, Unauthorized, Forbidden, RateLimited

\* KeyInv is an invariant.
THEOREM KeysInvariant == Spec => []KeyInv
BY KeyInit, KeyStep, PTL DEF Spec

\* A secret never opens a row of another tenant (the tenant_id of the WHERE
\* clauses in auth.go), in the table or in the snapshot of a request.
THEOREM SecretsStayInTenantHolds == Spec => []SecretsStayInTenant
<1>1. KeyInv => SecretsStayInTenant
  BY DEF KeyInv
<1>. QED  BY <1>1, KeysInvariant, PTL

\* A tenant keeps an active administrator, unless one of its requests acted
\* after its own key had died (the own-key guards of the handlers).
THEOREM AdminSurvivesHolds == Spec => []AdminSurvives
<1>1. KeyInv => AdminSurvives
  BY DEF KeyInv
<1>. QED  BY <1>1, KeysInvariant, PTL

-----------------------------------------------------------------------------
(* Revocation *)

\* No row is ever deleted.
LEMMA TableGrows ==
    ASSUME TypeOK, [Next]_vars
    PROVE  DOMAIN keys \subseteq DOMAIN keys'
<1>1. ASSUME NEW r \in Slots, createAPIKey(r) PROVE DOMAIN keys \subseteq DOMAIN keys'
  BY <1>1, CreateEffect
<1>2. ASSUME NEW r \in Slots, rotateAPIKey(r) PROVE DOMAIN keys \subseteq DOMAIN keys'
  BY <1>2, RotateEffect
<1>3. ASSUME NEW r \in Slots, revokeAPIKey(r) PROVE DOMAIN keys \subseteq DOMAIN keys'
  BY <1>3, RevokeEffect
<1>4. CASE Restart
  <2>1. keys \in Seq(Rows) /\ keys' = Bootstrapped(keys)
    BY <1>4 DEF TypeOK, Restart
  <2>2. keys' \in Seq(Rows) /\ Len(keys) <= Len(keys')
    BY <2>1, BootstrapEffect
  <2>. QED  BY <2>1, <2>2
<1>. QED
  BY <1>1, <1>2, <1>3, <1>4
     DEF Next, vars, Unauthorized, Forbidden, RateLimited, AdmitAdmin, AdmitOther, AdminNoEffect, Tick

\* No step makes a row active with a secret that was issued before and was
\* dead, and only a restart brings a revoked row back, the bootstrap key's.
LEMMA RowsStayDead ==
    ASSUME TypeOK, [Next]_vars, NEW id \in DOMAIN keys'
    PROVE  /\ keys'[id].active /\ keys'[id].secret \in 1..(nextSecret - 1) =>
                /\ id \in DOMAIN keys
                /\ keys[id].active /\ keys[id].secret = keys'[id].secret
           /\ id \in DOMAIN keys /\ keys'[id].active /\ ~keys[id].active =>
                Restart /\ keys[id].secret = Boot
<1> USE KeysAssumption
<1>0. nextSecret \in Nat /\ nextSecret \notin 1..(nextSecret - 1) /\ Boot \notin 1..(nextSecret - 1)
  BY DEF TypeOK, Boot
<1>1. CASE UNCHANGED keys
  BY <1>1
<1>2. ASSUME NEW r \in Slots, createAPIKey(r)
      PROVE  \/ keys'[id].secret = nextSecret /\ id \notin DOMAIN keys
             \/ keys'[id] = keys[id] /\ id \in DOMAIN keys
  BY <1>2, CreateEffect
<1>3. ASSUME NEW r \in Slots, rotateAPIKey(r)
      PROVE  /\ id \in DOMAIN keys
             /\ \/ keys'[id].secret = nextSecret /\ keys[id].active
                \/ keys'[id] = keys[id]
  BY <1>3, RotateEffect
<1>4. ASSUME NEW r \in Slots, revokeAPIKey(r)
      PROVE  id \in DOMAIN keys /\ (~keys'[id].active \/ keys'[id] = keys[id])
  BY <1>4, RevokeEffect
<1>5. CASE Restart
  <2>1. /\ \A j \in DOMAIN keys : keys[j].secret # Boot => keys'[j] = keys[j]
        /\ \A j \in DOMAIN keys : keys[j].secret = Boot => keys'[j] = BootRow
        /\ \A j \in DOMAIN keys' : j \in DOMAIN keys \/ keys'[j] = BootRow
    BY <1>5, BootstrapEffect DEF Restart, TypeOK
  <2>2. BootRow.secret = Boot
    BY DEF BootRow, Row
  <2>. QED  BY <1>0, <1>5, <2>1, <2>2
<1>6. UNCHANGED keys \/ Restart \/ \E r \in Slots : createAPIKey(r) \/ rotateAPIKey(r) \/ revokeAPIKey(r)
  BY DEF Next, vars, Unauthorized, Forbidden, RateLimited, AdmitAdmin, AdmitOther, AdminNoEffect, Tick
<1>. QED  BY <1>0, <1>1, <1>2, <1>3, <1>4, <1>5, <1>6

\* A dead secret stays dead and a revoked row stays revoked, but for the
\* bootstrap key at a restart (rotateAPIKey, revokeAPIKey, bootstrap).
THEOREM RevocationFinalHolds == Spec => RevocationFinal
<1>1. ASSUME TypeOK, [Next]_vars
      PROVE  [/\ \A s \in 1..(nextSecret - 1) : ~Live(s) => ~Live(s)'
              /\ \A id \in DOMAIN keys :
                    /\ ~keys[id].active
                    /\ keys[id].secret # Boot \/ reqs' # [r \in Slots |-> Waiting]
                    => ~keys'[id].active]_vars
  <2>1. ASSUME NEW s \in 1..(nextSecret - 1), Live(s)'
        PROVE  Live(s)
    <3>1. PICK id \in DOMAIN keys' : keys'[id].active /\ keys'[id].secret = s
      BY <2>1 DEF Live, Matching
    <3>2. id \in DOMAIN keys /\ keys[id].active /\ keys[id].secret = s
      BY <1>1, <3>1, RowsStayDead
    <3>. QED  BY <3>2 DEF Live, Matching
  <2>2. ASSUME NEW id \in DOMAIN keys, ~keys[id].active, keys'[id].active
        PROVE  keys[id].secret = Boot /\ reqs' = [r \in Slots |-> Waiting]
    <3>1. id \in DOMAIN keys'
      BY <1>1, <2>2, TableGrows
    <3>. QED  BY <1>1, <2>2, <3>1, RowsStayDead DEF Restart
  <2>. QED  BY <2>1, <2>2
<1>. QED  BY <1>1, KeysTypeCorrect, PTL DEF Spec, RevocationFinal

-----------------------------------------------------------------------------
(* Sums over a history *)

\* Induction over ages, with a set in the place of a predicate: the intervals that
\* end in a counterexample are subsets of a finite set, of which one is smallest.
LEMMA AgesInduction ==
    ASSUME NEW B, 0 \in B, \A a \in 1..Window : a - 1 \in B => a \in B
    PROVE  \A a \in Ages : a \in B
<1>. USE KeysAssumption
<1>. DEFINE C == {a \in Ages : a \notin B}
            F == {0..a : a \in C}
<1>. SUFFICES ASSUME C # {} PROVE FALSE
  OBVIOUS
<1>1. IsFiniteSet(Ages)
  BY FS_Interval DEF Ages
<1>2. IsWellFoundedOn(StrictSubsetOrdering(Ages), SUBSET Ages)
  BY <1>1, FS_FiniteSubsetsOfFinite, FS_StrictSubsetOrderingWellFounded
<1>3. F \subseteq SUBSET Ages /\ F # {}
  BY DEF Ages
<1>. HIDE DEF F
<1>4. PICK U \in F : \A V \in F : ~(<<V, U>> \in StrictSubsetOrdering(Ages))
  BY <1>2, <1>3, WFMin
<1>5. PICK a \in C : U = 0..a
  BY <1>4 DEF F
<1>6. a \in 1..Window /\ a - 1 \in Ages
  BY <1>5 DEF Ages
<1>7. a - 1 \in C
  BY <1>5, <1>6
<1>8. 0..(a - 1) \in F /\ 0..(a - 1) \subseteq 0..a /\ 0..(a - 1) # 0..a
  <2>1. a \in 0..a /\ a \notin 0..(a - 1)
    BY <1>6
  <2>. QED  BY <1>6, <1>7, <2>1 DEF F
<1>9. <<0..(a - 1), 0..a>> \in StrictSubsetOrdering(Ages)
  BY <1>3, <1>4, <1>5, <1>8 DEF StrictSubsetOrdering
<1>. QED  BY <1>4, <1>5, <1>8, <1>9

\* f sums the history h up to the age n.
Sums(f, h, n) ==
    /\ f \in [0..n -> Nat]
    /\ f[0] = h[0]
    /\ \A a \in 1..n : f[a] = h[a] + f[a - 1]

\* There is such a function for every age.
LEMMA SumsExist ==
    ASSUME NEW h \in [Ages -> Nat]
    PROVE  \E f : Sums(f, h, Window)
<1>. USE KeysAssumption
<1>. DEFINE B == {a \in Ages : \E f : Sums(f, h, a)}
<1>1. 0 \in B
  <2>1. Sums([a \in 0..0 |-> h[0]], h, 0)
    BY DEF Sums, Ages
  <2>. QED  BY <2>1 DEF Ages
<1>2. ASSUME NEW a \in 1..Window, a - 1 \in B PROVE a \in B
  <2>1. PICK f : Sums(f, h, a - 1)
    BY <1>2
  <2>. DEFINE g == [x \in 0..a |-> IF x = a THEN h[a] + f[a - 1] ELSE f[x]]
  <2>2. h[a] \in Nat /\ f[a - 1] \in Nat /\ \A x \in 0..(a - 1) : f[x] \in Nat
    BY <2>1 DEF Sums, Ages
  <2>3. \A x \in 0..a : x = a \/ x \in 0..(a - 1)
    OBVIOUS
  <2>4. g \in [0..a -> Nat]
    BY <2>2, <2>3
  <2>5. g[0] = h[0]
    BY <2>1 DEF Sums
  <2>6. ASSUME NEW x \in 1..a PROVE g[x] = h[x] + g[x - 1]
    <3>1. x - 1 \in 0..(a - 1) /\ g[x - 1] = f[x - 1]
      OBVIOUS
    <3>2. CASE x = a
      BY <3>1, <3>2
    <3>3. CASE x # a
      <4>1. x \in 1..(a - 1)
        BY <3>3
      <4>. QED  BY <4>1, <3>1, <2>1 DEF Sums
    <3>. QED  BY <3>2, <3>3
  <2>. HIDE DEF g
  <2>7. Sums(g, h, a)
    BY <2>4, <2>5, <2>6 DEF Sums
  <2>. QED  BY <2>7 DEF Ages
<1>. HIDE DEF B
<1>3. Window \in B
  BY <1>1, <1>2, AgesInduction DEF Ages
<1>. QED  BY <1>3 DEF B

\* The recursive function sums.
LEMMA UpToSums ==
    ASSUME NEW h \in [Ages -> Nat]
    PROVE  Sums(UpTo(h), h, Window)
<1>. USE KeysAssumption
<1>. DEFINE Step(g) == [age \in Ages |-> h[age] + (IF age = 0 THEN 0 ELSE g[age - 1])]
            u == CHOOSE g : g = Step(g)
<1>1. UpTo(h) = u
  BY DEF UpTo
<1>2. PICK f : Sums(f, h, Window)
  BY SumsExist
<1>3. f = Step(f)
  <2>1. f = [age \in Ages |-> f[age]]
    BY <1>2 DEF Sums, Ages
  <2>2. ASSUME NEW age \in Ages PROVE f[age] = h[age] + (IF age = 0 THEN 0 ELSE f[age - 1])
    <3>1. CASE age = 0
      <4>1. h[0] \in Nat
        BY DEF Ages
      <4>. QED  BY <3>1, <4>1, <1>2 DEF Sums
    <3>2. CASE age # 0
      <4>1. age \in 1..Window
        BY <3>2 DEF Ages
      <4>. QED  BY <3>2, <4>1, <1>2 DEF Sums
    <3>. QED  BY <3>1, <3>2
  <2>. QED  BY <2>1, <2>2
<1>4. u = Step(u)
  <2>. HIDE DEF Step
  <2>. QED  BY <1>3
<1>. HIDE DEF u
<1>5. \A age \in Ages : u[age] = h[age] + (IF age = 0 THEN 0 ELSE u[age - 1])
  <2>. SUFFICES ASSUME NEW age \in Ages
                PROVE  u[age] = h[age] + (IF age = 0 THEN 0 ELSE u[age - 1])
    OBVIOUS
  <2>1. u[age] = Step(u)[age]
    BY <1>4
  <2>. QED  BY <2>1
<1>6. u[0] = h[0] /\ h[0] \in Nat
  <2>1. h[0] \in Nat /\ 0 \in Ages
    BY DEF Ages
  <2>. QED  BY <2>1, <1>5
<1>7. \A a \in 1..Window : a \in Ages /\ h[a] \in Nat /\ u[a] = h[a] + u[a - 1]
  BY <1>5 DEF Ages
<1>. DEFINE B == {a \in Ages : u[a] \in Nat}
<1>8. \A a \in Ages : a \in B
  <2>1. 0 \in B
    BY <1>6 DEF Ages
  <2>2. \A a \in 1..Window : a - 1 \in B => a \in B
    BY <1>7
  <2>. HIDE DEF B
  <2>. QED  BY <2>1, <2>2, AgesInduction
<1>9. u \in [0..Window -> Nat]
  <2>1. DOMAIN u = Ages /\ u = [a \in DOMAIN u |-> u[a]]
    <3>1. DOMAIN Step(u) = Ages /\ Step(u) = [a \in DOMAIN Step(u) |-> Step(u)[a]]
      OBVIOUS
    <3>. HIDE DEF Step
    <3>. QED  BY <1>4, <3>1
  <2>. QED  BY <2>1, <1>8 DEF Ages
<1>. QED  BY <1>1, <1>6, <1>7, <1>9 DEF Sums

\* The history one instant later, and after an admission.
Later(h) == [age \in Ages |-> IF age = 0 THEN 0 ELSE h[age - 1]]
Admitted(h) == [h EXCEPT ![0] = h[0] + 1]

\* With time the sums move by one age.
LEMMA LaterSums ==
    ASSUME NEW h \in [Ages -> Nat]
    PROVE  /\ Later(h) \in [Ages -> Nat]
           /\ UpTo(Later(h))[0] = 0
           /\ \A a \in 1..Window : UpTo(Later(h))[a] = UpTo(h)[a - 1]
<1>. USE KeysAssumption
<1>1. Later(h) \in [Ages -> Nat] /\ Later(h)[0] = 0
      /\ \A a \in 1..Window : Later(h)[a] = h[a - 1]
  <2>1. \A a \in Ages : a # 0 => a - 1 \in Ages
    BY DEF Ages
  <2>2. 0 \in Ages /\ \A a \in 1..Window : a \in Ages /\ a # 0
    BY DEF Ages
  <2>. QED  BY <2>1, <2>2 DEF Later
<1>. DEFINE u == UpTo(h)
            v == UpTo(Later(h))
<1>2. /\ u[0] = h[0] /\ \A a \in 1..Window : u[a] = h[a] + u[a - 1]
      /\ v[0] = 0 /\ \A a \in 1..Window : v[a] = h[a - 1] + v[a - 1]
      /\ \A a \in Ages : u[a] \in Nat
  BY <1>1, UpToSums DEF Sums, Ages
<1>. HIDE DEF u, v
<1>. DEFINE B == {a \in Ages : a = 0 \/ v[a] = u[a - 1]}
<1>3. 0 \in B
  BY DEF Ages
<1>4. ASSUME NEW a \in 1..Window, a - 1 \in B PROVE a \in B
  <2>1. a \in Ages
    BY DEF Ages
  <2>2. v[a] = h[a - 1] + v[a - 1]
    BY <1>2
  <2>3. CASE a = 1
    <3>1. h[0] \in Nat
      BY DEF Ages
    <3>. QED  BY <2>1, <2>2, <2>3, <3>1, <1>2
  <2>4. CASE a # 1
    <3>1. a - 1 \in 1..Window /\ v[a - 1] = u[(a - 1) - 1]
      BY <2>4, <1>4
    <3>2. u[a - 1] = h[a - 1] + u[(a - 1) - 1]
      BY <3>1, <1>2
    <3>. QED  BY <2>1, <2>2, <3>1, <3>2
  <2>. QED  BY <2>3, <2>4
<1>. HIDE DEF B
<1>5. \A a \in Ages : a \in B
  BY <1>3, <1>4, AgesInduction
<1>6. \A a \in 1..Window : v[a] = u[a - 1]
  BY <1>5 DEF B, Ages
<1>. QED  BY <1>1, <1>2, <1>6 DEF u, v

\* An admission is not older than any age.
LEMMA AdmittedSums ==
    ASSUME NEW h \in [Ages -> Nat]
    PROVE  /\ Admitted(h) \in [Ages -> Nat]
           /\ \A a \in Ages : UpTo(Admitted(h))[a] = UpTo(h)[a] + 1
<1>. USE KeysAssumption
<1>1. Admitted(h) \in [Ages -> Nat] /\ Admitted(h)[0] = h[0] + 1 /\ h[0] \in Nat
      /\ \A a \in 1..Window : Admitted(h)[a] = h[a]
  BY DEF Admitted, Ages
<1>. DEFINE u == UpTo(h)
            v == UpTo(Admitted(h))
<1>2. /\ u[0] = h[0] /\ \A a \in 1..Window : u[a] = h[a] + u[a - 1]
      /\ v[0] = h[0] + 1 /\ \A a \in 1..Window : v[a] = h[a] + v[a - 1]
      /\ \A a \in Ages : u[a] \in Nat /\ h[a] \in Nat
  BY <1>1, UpToSums DEF Sums, Ages
<1>. HIDE DEF u, v
<1>. DEFINE B == {a \in Ages : v[a] = u[a] + 1}
<1>3. 0 \in B
  BY <1>2 DEF Ages
<1>4. ASSUME NEW a \in 1..Window, a - 1 \in B PROVE a \in B
  <2>1. a \in Ages /\ a - 1 \in Ages /\ v[a - 1] = u[a - 1] + 1
    BY <1>4 DEF Ages
  <2>2. v[a] = h[a] + v[a - 1] /\ u[a] = h[a] + u[a - 1] /\ h[a] \in Nat /\ u[a - 1] \in Nat
    BY <2>1, <1>2
  <2>. QED  BY <2>1, <2>2
<1>. HIDE DEF B
<1>5. \A a \in Ages : a \in B
  BY <1>3, <1>4, AgesInduction
<1>. QED  BY <1>1, <1>5 DEF B, u, v

\* Nothing adds up to nothing.
LEMMA NoHistorySums ==
    /\ NoHistory \in [Ages -> Nat] /\ NoHistory[0] = 0
    /\ UpTo(NoHistory)[Window] = 0
<1>. USE KeysAssumption
<1>1. NoHistory \in [Ages -> Nat] /\ \A a \in Ages : NoHistory[a] = 0
  BY DEF NoHistory
<1>. DEFINE u == UpTo(NoHistory)
<1>2. u[0] = 0 /\ \A a \in 1..Window : u[a] = 0 + u[a - 1]
  BY <1>1, UpToSums DEF Sums, Ages
<1>. HIDE DEF u
<1>. DEFINE B == {a \in Ages : u[a] = 0}
<1>3. 0 \in B
  BY <1>2 DEF Ages
<1>4. \A a \in 1..Window : a - 1 \in B => a \in B
  BY <1>2 DEF Ages
<1>. HIDE DEF B
<1>5. \A a \in Ages : a \in B
  BY <1>3, <1>4, AgesInduction
<1>6. Window \in Ages /\ 0 \in Ages
  BY DEF Ages
<1>. QED  BY <1>1, <1>5, <1>6 DEF B, u

-----------------------------------------------------------------------------
(* The budget *)

WindowType == [count : Nat, left : Ages \union {-1}]

\* The window one instant later, as Tick has it.
LaterWindow(w) == IF w.left <= 0 THEN NoWindow ELSE [w EXCEPT !.left = w.left - 1]

\* Time keeps a key within its budget: a window that ends leaves all it counted
\* but its first admission, which leaves the history at the same instant.
LEMMA TickBudget ==
    ASSUME NEW w \in WindowType, NEW h \in [Ages -> Nat], NEW rpm \in Nat \ {0},
           WithinBudget(w, h, rpm)
    PROVE  WithinBudget(LaterWindow(w), Later(h), rpm)
<1>. USE KeysAssumption
<1>. DEFINE u == UpTo(h)
            v == UpTo(Later(h))
            k == Later(h)
<1>1. /\ u \in [0..Window -> Nat] /\ u[0] = h[0]
      /\ \A a \in 1..Window : u[a] = h[a] + u[a - 1]
  BY UpToSums DEF Sums
<1>2. /\ v[0] = 0 /\ \A a \in 1..Window : v[a] = u[a - 1]
  BY LaterSums
<1>3. k[0] = 0 /\ \A a \in 1..Window : k[a] = h[a - 1]
  BY DEF Later, Ages
<1>4. h[Window] \in Nat /\ u[Window] = h[Window] + u[Window - 1] /\ v[Window] = u[Window - 1]
      /\ u[Window] \in Nat /\ u[Window - 1] \in Nat
  BY <1>1, <1>2 DEF Ages
<1>. HIDE DEF u, v, k
<1>5. CASE w.left < 0
  <2>1. LaterWindow(w).left = -1
    BY <1>5 DEF LaterWindow, NoWindow, WindowType, Ages
  <2>2. u[Window] <= rpm - 1
    BY <1>5 DEF WithinBudget, u
  <2>3. v[Window] <= rpm - 1
    BY <2>2, <1>4
  <2>. QED  BY <2>1, <2>3, <1>3 DEF WithinBudget, v, k
<1>6. CASE w.left = 0
  <2>1. LaterWindow(w).left = -1
    BY <1>6 DEF LaterWindow, NoWindow
  <2>2. h[Window] > 0 /\ u[Window] = w.count /\ w.count <= rpm /\ w.count \in Nat
    <3>1. Window - w.left = Window
      BY <1>6
    <3>. QED  BY <1>6, <3>1 DEF WithinBudget, u, WindowType
  <2>3. v[Window] <= rpm - 1
    BY <2>2, <1>4
  <2>. QED  BY <2>1, <2>3, <1>3 DEF WithinBudget, v, k
<1>7. CASE w.left > 0
  <2>. DEFINE b == Window - w.left
  <2>1. w.left \in 1..Window /\ w.count \in Nat
    BY <1>7 DEF WindowType, Ages
  <2>2. /\ LaterWindow(w).left = w.left - 1 /\ LaterWindow(w).count = w.count
        /\ Window - (w.left - 1) = b + 1
        /\ b \in 0..(Window - 1) /\ b + 1 \in 1..Window /\ (b + 1) - 1 = b
    BY <1>7, <2>1 DEF LaterWindow, WindowType
  <2>3. h[b] > 0 /\ u[b] = w.count /\ w.count <= rpm /\ u[Window] - u[b] <= rpm - 1
    BY <1>7, <2>1 DEF WithinBudget, u
  <2>. HIDE DEF b
  <2>4. k[b + 1] > 0 /\ v[b + 1] = w.count
    BY <2>2, <2>3, <1>2, <1>3
  <2>5. v[Window] - v[b + 1] <= rpm - 1
    BY <2>1, <2>3, <2>4, <1>4
  <2>6. ~(LaterWindow(w).left < 0)
    BY <2>1, <2>2
  <2>. QED  BY <2>2, <2>3, <2>4, <2>5, <2>6 DEF WithinBudget, v, k, b
<1>. QED  BY <1>5, <1>6, <1>7 DEF WindowType, Ages

\* The window after an admission, as RateLimiter.Allow has it.
NextWindow(w) == IF w.left < 0 THEN [count |-> 1, left |-> Window]
                 ELSE [w EXCEPT !.count = w.count + 1]

\* An admission keeps a key within its budget.
LEMMA AdmitBudget ==
    ASSUME NEW w \in WindowType, NEW h \in [Ages -> Nat], NEW rpm \in Nat \ {0},
           WithinBudget(w, h, rpm), w.left < 0 \/ w.count < rpm
    PROVE  WithinBudget(NextWindow(w), Admitted(h), rpm)
<1>. USE KeysAssumption
<1>. DEFINE u == UpTo(h)
            v == UpTo(Admitted(h))
            k == Admitted(h)
<1>1. u \in [0..Window -> Nat] /\ u[0] = h[0]
  BY UpToSums DEF Sums
<1>2. \A a \in 0..Window : v[a] = u[a] + 1
  BY AdmittedSums DEF Ages
<1>3. k[0] = h[0] + 1 /\ \A a \in 0..Window : k[a] \in Nat /\ k[a] >= h[a] /\ h[a] \in Nat
  BY DEF Admitted, Ages
<1>. HIDE DEF u, v, k
<1>4. v[Window] = u[Window] + 1 /\ u[Window] \in Nat /\ v[0] = u[0] + 1
  BY <1>1, <1>2
<1>5. CASE w.left < 0
  <2>1. NextWindow(w).left = Window /\ NextWindow(w).count = 1 /\ Window - Window = 0
        /\ ~(Window < 0)
    BY <1>5 DEF NextWindow
  <2>2. h[0] = 0 /\ u[Window] <= rpm - 1
    BY <1>5 DEF WithinBudget, u
  <2>3. k[0] > 0 /\ v[0] = 1 /\ v[Window] - v[0] <= rpm - 1
    BY <2>2, <1>1, <1>3, <1>4
  <2>. QED  BY <2>1, <2>3 DEF WithinBudget, v, k
<1>6. CASE ~(w.left < 0)
  <2>. DEFINE b == Window - w.left
  <2>1. w.left \in 0..Window /\ w.count \in Nat
    BY <1>6 DEF WindowType, Ages
  <2>2. /\ NextWindow(w).left = w.left /\ NextWindow(w).count = w.count + 1
        /\ b \in 0..Window
    BY <1>6, <2>1 DEF NextWindow, WindowType
  <2>3. h[b] > 0 /\ u[b] = w.count /\ u[Window] - u[b] <= rpm - 1
    BY <1>6, <2>1 DEF WithinBudget, u
  <2>. HIDE DEF b
  <2>4. k[b] > 0
    BY <2>2, <2>3, <1>3
  <2>5. v[b] = w.count + 1 /\ w.count + 1 <= rpm
    BY <2>1, <2>2, <2>3, <1>2, <1>6
  <2>6. v[Window] - v[b] <= rpm - 1
    BY <2>1, <2>3, <2>5, <1>4
  <2>. QED  BY <1>6, <2>2, <2>4, <2>5, <2>6 DEF WithinBudget, v, k, b
<1>. QED  BY <1>5, <1>6

\* A key without history is within any budget.
LEMMA NoHistoryBudget ==
    ASSUME NEW rpm \in Nat \ {0}
    PROVE  WithinBudget(NoWindow, NoHistory, rpm)
<1>1. NoWindow.left < 0
  BY DEF NoWindow
<1>. QED  BY <1>1, NoHistorySums DEF WithinBudget

\* The budget of a table: how many requests each row allows.
SameBudgets == /\ DOMAIN keys' = DOMAIN keys
               /\ \A id \in DOMAIN keys : keys'[id].rpm = keys[id].rpm

\* What the invariant says of one row.
LEMMA BudgetOf ==
    ASSUME TypeOK, BudgetInv, NEW id \in DOMAIN keys
    PROVE  /\ id \in KeyIds /\ keys[id].rpm \in Nat \ {0}
           /\ windows[id] \in WindowType /\ recent[id] \in [Ages -> Nat]
           /\ WithinBudget(windows[id], recent[id], keys[id].rpm)
<1>1. keys \in Seq(Rows) /\ Len(keys) <= MaxKeys /\ MaxKeys \in Nat
  BY KeysAssumption DEF TypeOK
<1>2. id \in KeyIds /\ keys[id] \in Rows
  BY <1>1 DEF KeyIds
<1>3. keys[id].rpm \in Nat \ {0}
  BY <1>2 DEF BudgetInv, Rows
<1>. QED  BY <1>2, <1>3 DEF TypeOK, BudgetInv, WindowType

\* Rows that keep their budgets, while nothing is admitted, are within them.
LEMMA SameBudgetsKeep ==
    ASSUME BudgetInv, SameBudgets, UNCHANGED <<windows, recent>>
    PROVE  BudgetInv'
BY DEF BudgetInv, SameBudgets

\* The initial state is within every budget.
LEMMA BudgetInit == Init => BudgetInv
<1>. SUFFICES ASSUME Init PROVE BudgetInv
  OBVIOUS
<1>. USE KeysAssumption
<1>1. keys = Append(<<OtherRow>>, BootRow)
  <2>1. ~ \E id \in DOMAIN <<OtherRow>> : <<OtherRow>>[id].secret = Boot
    BY DEF OtherRow, Row, Boot
  <2>. QED  BY <2>1 DEF Init, Bootstrapped
<1>2. DOMAIN keys = 1..2 /\ keys[1] = OtherRow /\ keys[2] = BootRow
  <2>1. OtherRow \in Rows
    BY RowTyping DEF OtherRow, Secrets, Tenants, Scopes
  <2>2. <<OtherRow>> \in Seq(Rows) /\ Len(<<OtherRow>>) = 1 /\ <<OtherRow>>[1] = OtherRow
    BY <2>1
  <2>. QED  BY <1>1, <2>2, BootTyping
<1>3. OtherRow.rpm \in Nat \ {0} /\ BootRow.rpm \in Nat \ {0}
  BY DEF OtherRow, BootRow, Row
<1>4. \A id \in DOMAIN keys : keys[id].rpm \in Nat \ {0}
  BY <1>2, <1>3
<1>5. \A id \in KeyIds : windows[id] = NoWindow /\ recent[id] = NoHistory
  BY DEF Init, NoHistory
<1>6. DOMAIN keys \subseteq KeyIds
  BY <1>2 DEF KeyIds
<1>. QED  BY <1>4, <1>5, <1>6, NoHistoryBudget DEF BudgetInv

\* An admitted request is within the budget of its key, and changes no other.
LEMMA PassesBudget ==
    ASSUME TypeOK, BudgetInv, NEW id \in DOMAIN keys, NEW scope, Passes(id, scope),
           UNCHANGED keys
    PROVE  BudgetInv'
<1>. DEFINE w == windows[id]
            h == recent[id]
            rpm == keys[id].rpm
<1>1. /\ id \in KeyIds /\ rpm \in Nat \ {0} /\ w \in WindowType /\ h \in [Ages -> Nat]
      /\ WithinBudget(w, h, rpm)
  BY BudgetOf
<1>2. windows \in [KeyIds -> WindowType] /\ recent \in [KeyIds -> [Ages -> Nat]]
  BY DEF TypeOK, WindowType
<1>3. w.left < 0 \/ w.count < rpm
  <2>1. Allow(id, rpm).ok
    BY DEF Passes
  <2>2. Allow(id, rpm).ok = IF rpm <= 0 \/ w.left < 0 THEN TRUE ELSE w.count < rpm
    BY DEF Allow, WindowOver
  <2>3. ~(rpm <= 0)
    BY <1>1
  <2>. HIDE DEF rpm, w
  <2>. QED  BY <2>1, <2>2, <2>3
<1>4. Allow(id, rpm).window = NextWindow(w)
  BY <1>1 DEF Allow, WindowOver, NextWindow
<1>5. windows' = [windows EXCEPT ![id] = NextWindow(w)]
  BY <1>4 DEF Passes
<1>6. recent' = [recent EXCEPT ![id] = Admitted(h)]
  BY DEF Passes, Admitted
<1>7. WithinBudget(NextWindow(w), Admitted(h), rpm)
  BY <1>1, <1>3, AdmitBudget
<1>8. /\ windows'[id] = NextWindow(w) /\ recent'[id] = Admitted(h)
      /\ \A j \in KeyIds : j # id => windows'[j] = windows[j] /\ recent'[j] = recent[j]
  BY <1>1, <1>2, <1>5, <1>6
<1>9. \A j \in DOMAIN keys : j \in KeyIds
  BY BudgetOf
<1>10. ASSUME NEW j \in DOMAIN keys
       PROVE  keys[j].rpm > 0 /\ WithinBudget(windows'[j], recent'[j], keys[j].rpm)
  <2>1. CASE j = id
    BY <2>1, <1>1, <1>7, <1>8
  <2>2. CASE j # id
    BY <2>2, <1>8, <1>9 DEF BudgetInv
  <2>. QED  BY <2>1, <2>2
<1>11. \A j \in KeyIds \ DOMAIN keys : windows'[j] = NoWindow /\ recent'[j] = NoHistory
  BY <1>8 DEF BudgetInv
<1>. QED  BY <1>10, <1>11 DEF BudgetInv

\* Time keeps every key within its budget.
LEMMA TickKeepsBudget ==
    ASSUME TypeOK, BudgetInv, Tick
    PROVE  BudgetInv'
<1>1. UNCHANGED keys
  BY DEF Tick
<1>2. ASSUME NEW id \in KeyIds
      PROVE  windows'[id] = LaterWindow(windows[id]) /\ recent'[id] = Later(recent[id])
  BY DEF Tick, LaterWindow, Later
<1>3. ASSUME NEW id \in DOMAIN keys
      PROVE  keys[id].rpm > 0 /\ WithinBudget(windows'[id], recent'[id], keys[id].rpm)
  <2>1. /\ id \in KeyIds /\ keys[id].rpm \in Nat \ {0}
        /\ windows[id] \in WindowType /\ recent[id] \in [Ages -> Nat]
        /\ WithinBudget(windows[id], recent[id], keys[id].rpm)
    BY BudgetOf
  <2>2. WithinBudget(LaterWindow(windows[id]), Later(recent[id]), keys[id].rpm)
    BY <2>1, TickBudget
  <2>. QED  BY <2>1, <2>2, <1>2
<1>4. LaterWindow(NoWindow) = NoWindow
  BY DEF LaterWindow, NoWindow
<1>5. Later(NoHistory) = NoHistory
  <2>1. \A a \in Ages : a # 0 => a - 1 \in Ages
    BY KeysAssumption DEF Ages
  <2>. QED  BY <2>1 DEF Later, NoHistory
<1>6. \A id \in KeyIds \ DOMAIN keys : windows'[id] = NoWindow /\ recent'[id] = NoHistory
  BY <1>2, <1>4, <1>5 DEF BudgetInv
<1>. QED  BY <1>1, <1>3, <1>6 DEF BudgetInv

\* The handlers that change a row leave its budget alone; a new row has one, and
\* no history.
LEMMA HandlersKeepBudget ==
    ASSUME TypeOK, BudgetInv, NEW r \in Slots,
           createAPIKey(r) \/ rotateAPIKey(r) \/ revokeAPIKey(r)
    PROVE  BudgetInv'
<1>. USE KeysAssumption
<1>0. keys \in Seq(Rows) /\ \A id \in DOMAIN keys : keys[id] \in Rows
  BY DEF TypeOK
<1>1. CASE createAPIKey(r)
  <2>. DEFINE n == Len(keys) + 1
  <2>. DEFINE made(scopes, rpm) ==
                  keys' = Append(keys, Row(nextSecret, reqs[r].ctx.tenant, scopes, rpm))
  <2>1. PICK scopes \in {{}, {"audit"}, {"admin"}}, asked \in Budgets :
          made(normalizeScopes(scopes), normalizeBudget(asked))
    BY <1>1 DEF createAPIKey
  <2>. DEFINE rpm == normalizeBudget(asked)
  <2>0. rpm \in Nat \ {0}
    BY BudgetTyping
  <2>2. keys'[n].rpm = rpm
    BY <2>1, <1>0 DEF Row
  <2>3. /\ DOMAIN keys' = DOMAIN keys \union {n} /\ n \notin DOMAIN keys
        /\ \A id \in DOMAIN keys : keys'[id] = keys[id]
        /\ n \in KeyIds /\ UNCHANGED <<windows, recent>>
    <3>1. Len(keys) \in Nat /\ Len(keys) < MaxKeys /\ UNCHANGED <<windows, recent>>
      BY <1>1, <1>0 DEF createAPIKey
    <3>2. n \in KeyIds
      BY <3>1 DEF KeyIds
    <3>3. /\ DOMAIN keys' = DOMAIN keys \union {n} /\ n \notin DOMAIN keys
          /\ \A id \in DOMAIN keys : keys'[id] = keys[id]
      BY <1>1, CreateEffect
    <3>. QED  BY <3>1, <3>2, <3>3
  <2>. HIDE DEF n
  <2>4. windows[n] = NoWindow /\ recent[n] = NoHistory
    BY <2>3 DEF BudgetInv
  <2>. HIDE DEF rpm
  <2>5. WithinBudget(windows[n], recent[n], rpm)
    BY <2>0, <2>4, NoHistoryBudget
  <2>. QED  BY <2>0, <2>2, <2>3, <2>5 DEF BudgetInv
<1>2. CASE rotateAPIKey(r)
  <2>1. PICK id \in DOMAIN keys :
          keys' = [keys EXCEPT ![id] = [keys[id] EXCEPT !.secret = nextSecret, !.active = TRUE]]
    BY <1>2 DEF rotateAPIKey, Rotatable
  <2>2. SameBudgets
    BY <1>0, <2>1 DEF SameBudgets, Rows
  <2>. QED  BY <1>2, <2>2, SameBudgetsKeep DEF rotateAPIKey
<1>3. CASE revokeAPIKey(r)
  <2>1. PICK id \in DOMAIN keys : keys' = [keys EXCEPT ![id] = [keys[id] EXCEPT !.active = FALSE]]
    BY <1>3 DEF revokeAPIKey, Revocable
  <2>2. SameBudgets
    BY <1>0, <2>1 DEF SameBudgets, Rows
  <2>. QED  BY <1>3, <2>2, SameBudgetsKeep DEF revokeAPIKey
<1>. QED  BY <1>1, <1>2, <1>3

\* A restart forgets every window and every admission.
LEMMA RestartBudget ==
    ASSUME TypeOK, BudgetInv, Restart
    PROVE  BudgetInv'
<1>1. \A id \in KeyIds : windows'[id] = NoWindow /\ recent'[id] = NoHistory
  BY DEF Restart, NoHistory
<1>2. /\ keys \in Seq(Rows) /\ keys' = Bootstrapped(keys) /\ Len(keys') <= MaxKeys
  BY DEF TypeOK, Restart
<1>3. /\ keys' \in Seq(Rows)
      /\ \A id \in DOMAIN keys :
            /\ keys[id].secret # Boot => keys'[id] = keys[id]
            /\ keys[id].secret = Boot => keys'[id] = BootRow
      /\ \A id \in DOMAIN keys' : id \in DOMAIN keys \/ keys'[id] = BootRow
  BY <1>2, BootstrapEffect
<1>4. DOMAIN keys' \subseteq KeyIds
  BY <1>2, <1>3, KeysAssumption DEF KeyIds
<1>5. BootRow.rpm \in Nat \ {0}
  BY KeysAssumption DEF BootRow, Row
<1>6. \A id \in DOMAIN keys : keys[id].rpm \in Nat \ {0}
  BY BudgetOf
<1>7. \A id \in DOMAIN keys' : keys'[id].rpm \in Nat \ {0}
  BY <1>3, <1>5, <1>6
<1>. QED  BY <1>1, <1>4, <1>7, NoHistoryBudget DEF BudgetInv

\* Every step keeps every key within its budget.
LEMMA BudgetStep == TypeOK /\ BudgetInv /\ [Next]_vars => BudgetInv'
<1>. SUFFICES ASSUME TypeOK, BudgetInv, [Next]_vars PROVE BudgetInv'
  OBVIOUS
<1>1. CASE UNCHANGED <<keys, windows, recent>>
  BY <1>1 DEF BudgetInv
<1>2. ASSUME NEW r \in Slots, AdmitAdmin(r) \/ AdmitOther(r) PROVE BudgetInv'
  <2>1. PICK ks \in Presented : Passes(ks[1], ks[2]) /\ UNCHANGED keys
    BY <1>2 DEF AdmitAdmin, AdmitOther
  <2>2. ks[1] \in DOMAIN keys
    BY DEF Presented
  <2>. QED  BY <2>1, <2>2, PassesBudget
<1>. QED
  BY <1>1, <1>2, TickKeepsBudget, HandlersKeepBudget, RestartBudget
  DEF Next, vars, Unauthorized, Forbidden, RateLimited, AdminNoEffect

\* Every key keeps to its budget in the sense of the inductive invariant.
THEOREM BudgetInvariant == Spec => [](TypeOK /\ BudgetInv)
<1>1. Init => TypeOK /\ BudgetInv
  BY TypeInit, BudgetInit
<1>2. TypeOK /\ BudgetInv /\ [Next]_vars => (TypeOK /\ BudgetInv)'
  BY TypeStep, BudgetStep
<1>. QED  BY <1>1, <1>2, PTL DEF Spec

\* The fixed windows of RateLimiter admit fewer than twice the budget in any stretch
\* as long as a window without a restart, for every key, budget and length.
THEOREM SlidingBudgetHolds == Spec => []SlidingBudget
<1>1. TypeOK /\ BudgetInv => SlidingBudget
  <2>. SUFFICES ASSUME TypeOK, BudgetInv, NEW id \in DOMAIN keys
                PROVE  InWindow(id) <= 2 * keys[id].rpm - 1
    BY DEF SlidingBudget
  <2>. DEFINE w == windows[id]
              u == UpTo(recent[id])
              rpm == keys[id].rpm
              b == Window - w.left
  <2>1. /\ rpm \in Nat \ {0} /\ w \in WindowType /\ recent[id] \in [Ages -> Nat]
        /\ WithinBudget(w, recent[id], rpm)
    BY BudgetOf
  <2>2. u \in [0..Window -> Nat]
    BY <2>1, UpToSums DEF Sums
  <2>3. Window \in Nat /\ u[Window] \in Nat
    BY <2>2, KeysAssumption
  <2>4. CASE w.left < 0
    <3>1. u[Window] <= rpm - 1
      BY <2>1, <2>4 DEF WithinBudget
    <3>. QED  BY <2>1, <2>3, <3>1 DEF InWindow
  <2>5. CASE ~(w.left < 0)
    <3>1. b \in 0..Window
      BY <2>1, <2>3, <2>5 DEF WindowType, Ages
    <3>2. u[b] \in Nat /\ u[b] <= rpm /\ u[Window] - u[b] <= rpm - 1
      BY <2>1, <2>2, <2>5, <3>1 DEF WithinBudget
    <3>. HIDE DEF u, rpm, b
    <3>3. u[Window] <= 2 * rpm - 1
      BY <2>1, <2>3, <3>2
    <3>. QED  BY <3>3 DEF InWindow, u, rpm
  <2>. QED  BY <2>4, <2>5
<1>. QED  BY BudgetInvariant, <1>1, PTL

=============================================================================
