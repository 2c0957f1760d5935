---------------------------- MODULE QueryEngine -----------------------------
(***************************************************************************)
(* The query path of the runtime: Engine.Execute and everything it calls   *)
(* (internal/engine/engine.go), run by several concurrent queries that     *)
(* share the engine's three circuit breakers, the live permission store    *)
(* and the audit ledger.                                                   *)
(*                                                                         *)
(* A query is validated, retrieves candidates, checks every candidate in a *)
(* goroutine of its own against the live permissions, collects the results *)
(* in the order in which they arrive (or gives up when the ACL deadline    *)
(* passes), reranks, writes the audit row and only then answers.  Any      *)
(* failure takes the fail-closed path, which answers with no citation.     *)
(*                                                                         *)
(* pc[q] names the statement query q executes next:                        *)
(*   idle -> retrieve -> retrieving -> filter -> collect -> audit          *)
(*        -> auditing -> done, and failaudit -> failauditing -> done for   *)
(*   the fail-closed path.                                                 *)
(***************************************************************************)
EXTENDS CircuitBreaker, Sequences, FiniteSets, Functions

CONSTANTS
    Queries,        \* requests, each executed once
    Chunks,         \* indexed chunks
    Users,          \* principals the permission store knows
    Standing,       \* <<user, chunk>> permissions that are never revoked
    Request,        \* Request[q]: the verified [tenant, region, user] of q
    Home,           \* Home[c]: the [tenant, region] of chunk c
    Score,          \* Score[c]: Score * FreshnessScore of chunk c
    Configs,        \* deployments: [shadow, wired] records
    AuditorFails,   \* may the audit store refuse a write on its own?
    MaxCandidates,  \* retrieval limit (50 in Execute)
    MaxCitations,   \* rerank limit (7 in Execute)
    MaxChecks,      \* ACL checks in flight per query (semaphore of 10)
    Limit,          \* Limit[b]: failure limit of circuit b (3, 3, 5)
    Tripped         \* the sets of circuits earlier queries may have left open

Circuits == {"retrieval", "acl", "audit"}
Dependencies == {"backend", "acl", "audit"}

ASSUME EngineAssumption ==
    /\ Home \in [Chunks -> [tenant : STRING, region : STRING]]
    /\ Request \in [Queries -> [tenant : STRING, region : STRING, user : STRING]]
    /\ Standing \subseteq Users \X Chunks
    /\ Score \in [Chunks -> Nat]
    /\ Configs \subseteq [shadow : BOOLEAN, wired : SUBSET Dependencies]
    /\ AuditorFails \in BOOLEAN
    /\ MaxCandidates \in Nat /\ MaxCitations \in Nat /\ MaxChecks \in Nat \ {0}
    /\ Limit \in [Circuits -> Nat \ {0}]
    /\ Tripped \subseteq SUBSET Circuits
    /\ IsFiniteSet(Chunks)

VARIABLES
    config,         \* the deployment, fixed at start-up
    circuit,        \* circuit[b]: the engine's breakers, shared by all queries
    pc,
    expired,        \* totalCtx of q is done (deadline passed or client gone)
    cands,          \* candidates, in retrieval order
    check,          \* check[q][i]: goroutine of candidate i, or its sent result
    aclDone,        \* aclCtx of q is done
    decisions,      \* AccessDecisions, in the order they were appended
    permitted,      \* candidates the ACL allowed
    blockedValid,   \* in-boundary candidates the ACL did not allow
    blockedACL, blockedRegion, aclFailed,
    reranked,       \* what Execute is about to cite
    failStage,      \* FailureStage of the trace ("" while nothing failed)
    cited,          \* citations of the response
    ledger,         \* committed audit rows
    acl,            \* live permissions: <<user, chunk>> pairs
    seen            \* history: chunks q's user could read at some moment of q

filterVars == <<check, decisions, permitted, blockedValid,
                blockedACL, blockedRegion, aclFailed>>
envVars == <<config, acl, seen>>
vars == <<filterVars, envVars, circuit, pc, expired, cands, aclDone,
          reranked, failStage, cited, ledger>>

Positions == 1..MaxCandidates

\* What a goroutine sends to resultCh: the reason field of its result.
Verdicts == {"allowed", "acl_denied", "wrong_tenant", "acl_error",
             "acl_timeout_fail_closed"}
ErrorVerdicts == {"acl_error", "acl_timeout_fail_closed"}

\* A check is not started, waits for the semaphore, is inside CanAccess, has
\* its result in the buffered resultCh (a verdict), or has been received.
CheckStates == {"none", "spawned", "checking", "received"} \union Verdicts

Reasons == Verdicts \union {"acl_circuit_open_fail_closed"}
Decision == [chunk : Chunks, reason : Reasons]

\* Retrieval returns distinct points, at most the limit.
CandidateLists == UNION {Injection(1..n, Chunks) : n \in 0..MaxCandidates}

Row == [query : Queries, decision : {"allowed", "denied", "fail_closed"},
        retrieved : Nat, allowed : Nat, blocked : Nat]

Stages == {"", "validation", "retrieval", "acl", "qdrant", "audit"}
Steps == {"idle", "retrieve", "retrieving", "filter", "collect", "audit",
          "auditing", "failaudit", "failauditing", "done"}

\* The hard boundary the goroutine tests before it asks the ACL.
InBoundary(q, c) ==
    /\ Home[c].region = Request[q].region
    /\ Home[c].tenant = Request[q].tenant

Readable(q, permissions) == {c \in Chunks : <<Request[q].user, c>> \in permissions}

Verified(q) == "" \notin {Request[q].tenant, Request[q].user, Request[q].region}

-----------------------------------------------------------------------------
\* The engine may have served queries before: each of its circuits is new or,
\* if it is in `open`, was just tripped by their failures.
CircuitsFound(open) ==
    [b \in Circuits |-> IF b \in open THEN TrippedCircuitBreaker(Limit[b])
                                     ELSE NewCircuitBreaker]

Init ==
    /\ config \in Configs
    /\ \E open \in Tripped : circuit = CircuitsFound(open)
    /\ pc = [q \in Queries |-> "idle"]
    /\ expired = [q \in Queries |-> FALSE]
    /\ cands = [q \in Queries |-> << >>]
    /\ check = [q \in Queries |-> [i \in Positions |-> "none"]]
    /\ aclDone = [q \in Queries |-> FALSE]
    /\ decisions = [q \in Queries |-> << >>]
    /\ permitted = [q \in Queries |-> << >>]
    /\ blockedValid = [q \in Queries |-> << >>]
    /\ blockedACL = [q \in Queries |-> 0]
    /\ blockedRegion = [q \in Queries |-> 0]
    /\ aclFailed = [q \in Queries |-> FALSE]
    /\ reranked = [q \in Queries |-> {}]
    /\ failStage = [q \in Queries |-> ""]
    /\ cited = [q \in Queries |-> {}]
    /\ ledger = {}
    /\ acl \in SUBSET (Users \X Chunks) /\ Standing \subseteq acl
    /\ seen = [q \in Queries |-> {}]

Goto(q, step) == pc' = [pc EXCEPT ![q] = step]

\* Mutant: the error code is stored where the stage belongs.
FailClosedSwapped(q, stage) ==
    /\ failStage' = [failStage EXCEPT ![q] = "audit_write_failed"]
    /\ Goto(q, IF stage = "audit" THEN "done" ELSE "failaudit")

\* Enter failClosed with the given stage; failClosed audits every stage but
\* its own.
FailClosed(q, stage) ==
    /\ failStage' = [failStage EXCEPT ![q] = stage]
    /\ Goto(q, IF stage = "audit" THEN "done" ELSE "failaudit")

\* Entry of Execute: the validation and wiring guards.
Execute(q) ==
    /\ pc[q] = "idle"
    /\ seen' = [seen EXCEPT ![q] = Readable(q, acl)]
    /\ \/ /\ ~Verified(q)
          /\ FailClosed(q, "validation")
       \/ /\ Verified(q) /\ "backend" \notin config.wired
          /\ FailClosed(q, "retrieval")
       \/ /\ Verified(q) /\ "backend" \in config.wired
          /\ "acl" \notin config.wired
          /\ FailClosed(q, "acl")
       \/ /\ Verified(q) /\ {"backend", "acl"} \subseteq config.wired
          /\ Goto(q, "retrieve")
          /\ UNCHANGED failStage
    /\ UNCHANGED <<filterVars, config, acl, circuit, expired, cands, aclDone,
                   reranked, cited, ledger>>

-----------------------------------------------------------------------------
(* retrieve *)

RetrieveRefused(q) ==
    /\ pc[q] = "retrieve"
    /\ ~Admits(circuit["retrieval"])
    /\ FailClosed(q, "qdrant")
    /\ UNCHANGED <<filterVars, envVars, circuit, expired, cands, aclDone,
                   reranked, cited, ledger>>

RetrieveSend(q) ==
    /\ pc[q] = "retrieve"
    /\ Admits(circuit["retrieval"])
    /\ circuit' = [circuit EXCEPT !["retrieval"] = Allow(@)]
    /\ Goto(q, "retrieving")
    /\ UNCHANGED <<filterVars, envVars, expired, cands, aclDone,
                   reranked, failStage, cited, ledger>>

RetrieveSucceeds(q) ==
    /\ pc[q] = "retrieving"
    /\ circuit' = [circuit EXCEPT !["retrieval"] = ReportSuccess(@)]
    /\ \E list \in CandidateLists : cands' = [cands EXCEPT ![q] = list]
    /\ Goto(q, "filter")
    /\ UNCHANGED <<filterVars, envVars, expired, aclDone,
                   reranked, failStage, cited, ledger>>

\* The backend fails, or its deadline or the total deadline passes.
RetrieveFails(q) ==
    /\ pc[q] = "retrieving"
    /\ circuit' = [circuit EXCEPT !["retrieval"] = ReportFailure(@, Limit["retrieval"])]
    /\ FailClosed(q, "qdrant")
    /\ UNCHANGED <<filterVars, envVars, expired, cands, aclDone,
                   reranked, cited, ledger>>

-----------------------------------------------------------------------------
(* filterChunksConcurrently *)

\* The ACL circuit is open: every candidate is denied unchecked, and none of
\* them is handed to shadow mode.
FilterRefused(q) ==
    /\ pc[q] = "filter"
    /\ ~Admits(circuit["acl"])
    /\ decisions' = [decisions EXCEPT ![q] =
            [i \in DOMAIN cands[q] |->
                [chunk |-> cands[q][i], reason |-> "acl_circuit_open_fail_closed"]]]
    /\ blockedACL' = [blockedACL EXCEPT ![q] = Len(cands[q])]
    /\ Goto(q, "audit")
    /\ UNCHANGED <<check, permitted, blockedValid, blockedRegion, aclFailed,
                   envVars, circuit, expired, cands, aclDone,
                   reranked, failStage, cited, ledger>>

\* One goroutine per candidate; aclCtx derives from totalCtx.
FilterStart(q) ==
    /\ pc[q] = "filter"
    /\ Admits(circuit["acl"])
    /\ circuit' = [circuit EXCEPT !["acl"] = Allow(@)]
    /\ check' = [check EXCEPT ![q] =
            [i \in Positions |-> IF i <= Len(cands[q]) THEN "spawned" ELSE "none"]]
    /\ aclDone' = [aclDone EXCEPT ![q] = expired[q]]
    /\ Goto(q, "collect")
    /\ UNCHANGED <<decisions, permitted, blockedValid, blockedACL, blockedRegion,
                   aclFailed, envVars, expired, cands,
                   reranked, failStage, cited, ledger>>

\* Mutant: resultCh is unbuffered, a goroutine blocks once nobody receives.
AdvanceUnbuffered(q, i, state) ==
    /\ pc[q] = "collect"
    /\ check' = [check EXCEPT ![q][i] = state]
    /\ UNCHANGED <<decisions, permitted, blockedValid, blockedACL, blockedRegion,
                   aclFailed, envVars, circuit, pc, expired, cands, aclDone,
                   reranked, failStage, cited, ledger>>

\* Goroutine i of q moves on, to CanAccess or to a sent result; resultCh holds
\* one slot per candidate, so a send never blocks, even when nobody receives.
Advance(q, i, state) ==
    /\ check' = [check EXCEPT ![q][i] = state]
    /\ UNCHANGED <<decisions, permitted, blockedValid, blockedACL, blockedRegion,
                   aclFailed, envVars, circuit, pc, expired, cands, aclDone,
                   reranked, failStage, cited, ledger>>

CheckWrongTenant(q, i) ==
    /\ check[q][i] = "spawned"
    /\ ~InBoundary(q, cands[q][i])
    /\ Advance(q, i, "wrong_tenant")

\* Mutant: the tenant and region test is forgotten.
CheckBeginAnywhere(q, i) ==
    /\ check[q][i] = "spawned"
    /\ Cardinality({j \in Positions : check[q][j] = "checking"}) < MaxChecks
    /\ Advance(q, i, "checking")

\* The semaphore admits the goroutine, which calls CanAccess.
CheckBegin(q, i) ==
    /\ check[q][i] = "spawned"
    /\ InBoundary(q, cands[q][i])
    /\ Cardinality({j \in Positions : check[q][j] = "checking"}) < MaxChecks
    /\ Advance(q, i, "checking")

\* The deadline passes while the goroutine waits for the semaphore.
CheckGivesUp(q, i) ==
    /\ check[q][i] = "spawned"
    /\ InBoundary(q, cands[q][i])
    /\ aclDone[q]
    /\ Advance(q, i, "acl_timeout_fail_closed")

\* CanAccess answers with the permissions of this moment.
CheckAnswered(q, i) ==
    /\ check[q][i] = "checking"
    /\ Advance(q, i, IF cands[q][i] \in Readable(q, acl) THEN "allowed" ELSE "acl_denied")

\* Mutant: an ACL error counts as permission.
CheckErrsOpen(q, i) ==
    /\ check[q][i] = "checking"
    /\ Advance(q, i, "allowed")

\* CanAccess fails: store unreachable, deadline, inner circuit open.
CheckErrs(q, i) ==
    /\ check[q][i] = "checking"
    /\ Advance(q, i, "acl_error")

\* The collector receives the result of goroutine i.
Collect(q, i) ==
    LET verdict == check[q][i]
        chunk   == cands[q][i]
    IN  /\ pc[q] = "collect"
        /\ Len(decisions[q]) < Len(cands[q])
        /\ verdict \in Verdicts
        /\ check' = [check EXCEPT ![q][i] = "received"]
        /\ decisions' = [decisions EXCEPT ![q] =
                            Append(@, [chunk |-> chunk, reason |-> verdict])]
        /\ \/ /\ verdict = "wrong_tenant"
              /\ blockedRegion' = [blockedRegion EXCEPT ![q] = @ + 1]
              /\ UNCHANGED <<permitted, blockedValid, blockedACL, aclFailed>>
           \/ /\ verdict \in {"acl_denied"} \union ErrorVerdicts
              /\ blockedACL' = [blockedACL EXCEPT ![q] = @ + 1]
              /\ blockedValid' = [blockedValid EXCEPT ![q] = Append(@, chunk)]
              /\ aclFailed' = [aclFailed EXCEPT ![q] = @ \/ verdict \in ErrorVerdicts]
              /\ UNCHANGED <<permitted, blockedRegion>>
           \/ /\ verdict = "allowed"
              /\ permitted' = [permitted EXCEPT ![q] = Append(@, chunk)]
              /\ UNCHANGED <<blockedValid, blockedACL, blockedRegion, aclFailed>>
        /\ UNCHANGED <<envVars, circuit, pc, expired, cands, aclDone,
                       reranked, failStage, cited, ledger>>

\* Mutant: the collector has no deadline branch.
CollectNeverGivesUp(q) == FALSE

\* Mutant: the deadline denies every candidate anew, as the open circuit does.
CollectGivesUpOnAll(q) ==
    /\ pc[q] = "collect"
    /\ Len(decisions[q]) < Len(cands[q])
    /\ aclDone[q]
    /\ blockedACL' = [blockedACL EXCEPT ![q] = Len(cands[q]) - Len(permitted[q]) - blockedRegion[q]]
    /\ decisions' = [decisions EXCEPT ![q] =
            [i \in DOMAIN cands[q] |->
                [chunk |-> cands[q][i], reason |-> "acl_timeout_fail_closed"]]]
    /\ aclFailed' = [aclFailed EXCEPT ![q] = TRUE]
    /\ circuit' = [circuit EXCEPT !["acl"] = ReportFailure(@, Limit["acl"])]
    /\ Goto(q, "audit")
    /\ UNCHANGED <<check, permitted, blockedValid, blockedRegion,
                   envVars, expired, cands, aclDone,
                   reranked, failStage, cited, ledger>>

\* The collector sees aclCtx.Done first.  It counts the missing results as
\* blocked and appends a decision for the candidates at the tail of the
\* retrieval order, candidates[len(decisions):], whichever those are.
CollectGivesUp(q) ==
    LET n == Len(decisions[q])
    IN  /\ pc[q] = "collect"
        /\ n < Len(cands[q])
        /\ aclDone[q]
        /\ blockedACL' = [blockedACL EXCEPT ![q] = @ + (Len(cands[q]) - n)]
        /\ decisions' = [decisions EXCEPT ![q] =
                [i \in 1..Len(cands[q]) |->
                    IF i <= n THEN @[i]
                    ELSE [chunk |-> cands[q][i], reason |-> "acl_timeout_fail_closed"]]]
        /\ aclFailed' = [aclFailed EXCEPT ![q] = TRUE]
        /\ circuit' = [circuit EXCEPT !["acl"] = ReportFailure(@, Limit["acl"])]
        /\ Goto(q, "audit")
        /\ UNCHANGED <<check, permitted, blockedValid, blockedRegion,
                       envVars, expired, cands, aclDone,
                       reranked, failStage, cited, ledger>>

\* Every result is in: report to the circuit.  The deferred cancel ends aclCtx.
CollectDone(q) ==
    /\ pc[q] = "collect"
    /\ Len(decisions[q]) = Len(cands[q])
    /\ circuit' = [circuit EXCEPT !["acl"] =
            IF aclFailed[q] THEN ReportFailure(@, Limit["acl"]) ELSE ReportSuccess(@)]
    /\ aclDone' = [aclDone EXCEPT ![q] = TRUE]
    /\ Goto(q, "audit")
    /\ UNCHANGED <<filterVars, envVars, expired, cands,
                   reranked, failStage, cited, ledger>>

-----------------------------------------------------------------------------
(* rerank, auditEntryFromTrace, writeAudit, failClosed *)

\* Mutant: the blocked candidates are never appended.
ResultSetEnforced(q) == Range(permitted[q])

\* In shadow mode the blocked but in-boundary candidates are returned too.
ResultSet(q) ==
    Range(permitted[q]) \union (IF config.shadow THEN Range(blockedValid[q]) ELSE {})

\* The best MaxCitations of S; the sort is not stable, so ties are arbitrary.
Rerank(S) ==
    {T \in SUBSET S :
        /\ Cardinality(T) = IF Cardinality(S) <= MaxCitations
                            THEN Cardinality(S) ELSE MaxCitations
        /\ \A t \in T, s \in S \ T : Score[t] >= Score[s]}

\* Mutant: the chunks outside the boundary are left out of the blocked count.
AuditRowAclOnly(q) ==
    [query     |-> q,
     decision  |-> IF reranked[q] = {} THEN "denied" ELSE "allowed",
     retrieved |-> Len(cands[q]),
     allowed   |-> Cardinality(reranked[q]),
     blocked   |-> IF config.shadow THEN 0 ELSE blockedACL[q]]

\* The row the audit entry of a finished query becomes.
AuditRow(q) ==
    [query     |-> q,
     decision  |-> IF reranked[q] = {} THEN "denied" ELSE "allowed",
     retrieved |-> Len(cands[q]),
     allowed   |-> Cardinality(reranked[q]),
     blocked   |-> (IF config.shadow THEN 0 ELSE blockedACL[q]) + blockedRegion[q]]

\* The row of a fail-closed trace, which carries no candidate counts.
FailRow(q) ==
    [query |-> q, decision |-> "fail_closed", retrieved |-> 0, allowed |-> 0,
     blocked |-> 0]

\* writeAudit returns before it reaches the audit store: no auditor, circuit
\* open, or a context that is already done (which counts as a failure).
AuditRefused(q) ==
    /\ \/ "audit" \notin config.wired /\ UNCHANGED circuit
       \/ /\ "audit" \in config.wired
          /\ ~Admits(circuit["audit"])
          /\ UNCHANGED circuit
       \/ /\ "audit" \in config.wired
          /\ Admits(circuit["audit"])
          /\ expired[q]
          /\ circuit' = [circuit EXCEPT
                !["audit"] = ReportFailure(Allow(@), Limit["audit"])]
    /\ UNCHANGED <<filterVars, envVars, expired, cands, aclDone, reranked,
                   cited, ledger>>

AuditAllowed(q) ==
    /\ "audit" \in config.wired
    /\ Admits(circuit["audit"])
    /\ ~expired[q]
    /\ circuit' = [circuit EXCEPT !["audit"] = Allow(@)]

WriteAuditRefused(q) ==
    /\ pc[q] = "audit"
    /\ AuditRefused(q)
    /\ FailClosed(q, "audit")

\* Mutant: the answer is returned while the audit write is still in flight.
WriteAuditSendEarly(q) ==
    /\ pc[q] = "audit"
    /\ AuditAllowed(q)
    /\ \E best \in Rerank(ResultSet(q)) :
            /\ reranked' = [reranked EXCEPT ![q] = best]
            /\ cited' = [cited EXCEPT ![q] = best]
    /\ Goto(q, "auditing")
    /\ UNCHANGED <<filterVars, envVars, expired, cands, aclDone, failStage, ledger>>

\* Rerank the result set and send the row to the audit store.
WriteAuditSend(q) ==
    /\ pc[q] = "audit"
    /\ AuditAllowed(q)
    /\ \E best \in Rerank(ResultSet(q)) : reranked' = [reranked EXCEPT ![q] = best]
    /\ Goto(q, "auditing")
    /\ UNCHANGED <<filterVars, envVars, expired, cands, aclDone, failStage,
                   cited, ledger>>

\* The write commits and is acknowledged: answer with the citations.
WriteAuditSucceeds(q) ==
    /\ pc[q] = "auditing"
    /\ ledger' = ledger \union {AuditRow(q)}
    /\ circuit' = [circuit EXCEPT !["audit"] = ReportSuccess(@)]
    /\ cited' = [cited EXCEPT ![q] = reranked[q]]
    /\ Goto(q, "done")
    /\ UNCHANGED <<filterVars, envVars, expired, cands, aclDone, reranked, failStage>>

\* Mutant: a failed audit write is logged and the answer is returned anyway.
WriteAuditFailsOpen(q) ==
    /\ pc[q] = "auditing"
    /\ AuditorFails \/ expired[q]
    /\ circuit' = [circuit EXCEPT !["audit"] = ReportFailure(@, Limit["audit"])]
    /\ cited' = [cited EXCEPT ![q] = reranked[q]]
    /\ FailClosed(q, "audit")
    /\ UNCHANGED <<filterVars, envVars, expired, cands, aclDone, reranked, ledger>>

\* The write fails; its row may have been committed nevertheless (the
\* deadline can pass between the commit and its acknowledgement).
WriteAuditFails(q) ==
    /\ pc[q] = "auditing"
    /\ AuditorFails \/ expired[q]
    /\ ledger' \in {ledger, ledger \union {AuditRow(q)}}
    /\ circuit' = [circuit EXCEPT !["audit"] = ReportFailure(@, Limit["audit"])]
    /\ FailClosed(q, "audit")
    /\ UNCHANGED <<filterVars, envVars, expired, cands, aclDone, reranked, cited>>

\* failClosed writes its own row the same way and ignores the outcome.
FailAuditRefused(q) ==
    /\ pc[q] = "failaudit"
    /\ AuditRefused(q)
    /\ Goto(q, "done")
    /\ UNCHANGED failStage

FailAuditSend(q) ==
    /\ pc[q] = "failaudit"
    /\ AuditAllowed(q)
    /\ Goto(q, "failauditing")
    /\ UNCHANGED <<filterVars, envVars, expired, cands, aclDone, reranked,
                   failStage, cited, ledger>>

FailAuditReturns(q) ==
    /\ pc[q] = "failauditing"
    /\ \/ /\ ledger' = ledger \union {FailRow(q)}
          /\ circuit' = [circuit EXCEPT !["audit"] = ReportSuccess(@)]
       \/ /\ AuditorFails \/ expired[q]
          /\ ledger' \in {ledger, ledger \union {FailRow(q)}}
          /\ circuit' = [circuit EXCEPT !["audit"] = ReportFailure(@, Limit["audit"])]
    /\ Goto(q, "done")
    /\ UNCHANGED <<filterVars, envVars, expired, cands, aclDone, reranked,
                   failStage, cited>>

-----------------------------------------------------------------------------
(* The environment: deadlines, circuit windows and permission changes. *)

\* OpenFGACheck passes while q collects.
AclDeadline(q) ==
    /\ pc[q] = "collect"
    /\ ~aclDone[q]
    /\ aclDone' = [aclDone EXCEPT ![q] = TRUE]
    /\ UNCHANGED <<filterVars, envVars, circuit, pc, expired, cands,
                   reranked, failStage, cited, ledger>>

\* Total passes, or the client goes away; every derived context ends with it.
TotalDeadline(q) ==
    /\ pc[q] \notin {"idle", "done"}
    /\ ~expired[q]
    /\ expired' = [expired EXCEPT ![q] = TRUE]
    /\ aclDone' = [aclDone EXCEPT ![q] = TRUE]
    /\ UNCHANGED <<filterVars, envVars, circuit, pc, cands,
                   reranked, failStage, cited, ledger>>

WindowElapses(b) ==
    /\ circuit[b].state = "open" /\ ~circuit[b].elapsed
    /\ circuit' = [circuit EXCEPT ![b] = Elapse(@)]
    /\ UNCHANGED <<filterVars, envVars, pc, expired, cands, aclDone,
                   reranked, failStage, cited, ledger>>

\* A connector or an administrator grants or revokes a permission.
PermissionChanges ==
    /\ \E pair \in (Users \X Chunks) \ Standing :
            acl' \in {acl \union {pair}, acl \ {pair}} \ {acl}
    /\ seen' = [q \in Queries |-> IF pc[q] \in {"idle", "done"} THEN seen[q]
                                  ELSE seen[q] \union Readable(q, acl')]
    /\ UNCHANGED <<filterVars, config, circuit, pc, expired, cands, aclDone,
                   reranked, failStage, cited, ledger>>

CheckStep(q, i) ==
    \/ CheckWrongTenant(q, i) \/ CheckBegin(q, i) \/ CheckGivesUp(q, i)
    \/ CheckAnswered(q, i) \/ CheckErrs(q, i)

\* Every step of a running query; Execute, its entry, is the client's doing.
QueryStep(q) ==
    \/ RetrieveRefused(q) \/ RetrieveSend(q)
    \/ RetrieveSucceeds(q) \/ RetrieveFails(q)
    \/ FilterRefused(q) \/ FilterStart(q)
    \/ \E i \in Positions : Collect(q, i)
    \/ CollectGivesUp(q) \/ CollectDone(q)
    \/ WriteAuditRefused(q) \/ WriteAuditSend(q)
    \/ WriteAuditSucceeds(q) \/ WriteAuditFails(q)
    \/ FailAuditRefused(q) \/ FailAuditSend(q) \/ FailAuditReturns(q)

Next ==
    \/ \E q \in Queries : Execute(q) \/ QueryStep(q)
    \/ \E q \in Queries : AclDeadline(q) \/ TotalDeadline(q)
    \/ \E q \in Queries : \E i \in Positions : CheckStep(q, i)
    \/ \E b \in Circuits : WindowElapses(b)
    \/ PermissionChanges

Spec == Init /\ [][Next]_vars

\* A running query keeps running: its calls return, because each is made under
\* a context with a deadline, and the ACL timer fires.  Nothing is assumed of
\* the goroutines inside CanAccess.
QueryFairness == \A q \in Queries : WF_vars(QueryStep(q)) /\ WF_vars(AclDeadline(q))

\* CanAccess honours its context, so every goroutine keeps moving.
CheckFairness ==
    \A q \in Queries : \A i \in Positions : WF_vars(CheckStep(q, i))

LiveSpec == Spec /\ QueryFairness

-----------------------------------------------------------------------------
(* Properties *)

TypeOK ==
    /\ config \in [shadow : BOOLEAN, wired : SUBSET Dependencies]
    /\ circuit \in [Circuits -> Breaker]
    /\ pc \in [Queries -> Steps]
    /\ expired \in [Queries -> BOOLEAN]
    /\ cands \in [Queries -> Seq(Chunks)]
    /\ \A q \in Queries : Len(cands[q]) <= MaxCandidates
    /\ check \in [Queries -> [Positions -> CheckStates]]
    /\ aclDone \in [Queries -> BOOLEAN]
    /\ decisions \in [Queries -> Seq(Decision)]
    /\ permitted \in [Queries -> Seq(Chunks)]
    /\ blockedValid \in [Queries -> Seq(Chunks)]
    /\ blockedACL \in [Queries -> Nat]
    /\ blockedRegion \in [Queries -> Nat]
    /\ aclFailed \in [Queries -> BOOLEAN]
    /\ reranked \in [Queries -> SUBSET Chunks]
    /\ failStage \in [Queries -> Stages]
    /\ cited \in [Queries -> SUBSET Chunks]
    /\ ledger \subseteq Row
    /\ acl \subseteq Users \X Chunks
    /\ seen \in [Queries -> SUBSET Chunks]

\* With enforcement on, a response cites only chunks that the permission store
\* allowed the user to read at some moment while the query ran
\* (filterChunksConcurrently, whatever the order of results and timeouts).
OnlyReadableCited ==
    ~config.shadow => \A q \in Queries : cited[q] \subseteq seen[q]

\* Tenant and region are hard boundaries in both modes, shadow included: no
\* citation leaves them (the goroutine's test and the shadow append).
BoundaryHeld ==
    \A q \in Queries : \A c \in cited[q] : InBoundary(q, c)

\* Nothing is disclosed that the ledger does not record: a response with
\* citations has a committed row that says as many were allowed (Execute
\* answers only after writeAudit succeeded).
DisclosureRecorded ==
    \A q \in Queries : cited[q] # {} =>
        \E row \in ledger :
            /\ row.query = q
            /\ row.decision = "allowed"
            /\ row.allowed = Cardinality(cited[q])

\* With enforcement on, the counts of an audit row account for every retrieved
\* candidate: allowed and blocked add up to retrieved unless the rerank limit
\* cut the allowed ones (the collector's counters, timeouts included).
RowsAddUp ==
    ~config.shadow => \A row \in ledger :
        \/ row.allowed + row.blocked = row.retrieved
        \/ row.allowed = MaxCitations /\ row.allowed + row.blocked < row.retrieved

\* Every goroutine of q delivered its result to the collector.
AllReceived(q) == \A i \in DOMAIN cands[q] : check[q][i] = "received"

\* The decisions a row is about to record justify the answer: each permitted
\* chunk has an "allowed" entry, and once every result was received each
\* candidate has exactly one entry, in whatever order the results came.  (When
\* the ACL deadline cuts the collector short the entries for the missing
\* results go to the tail of the retrieval order, candidates[len(decisions):],
\* which need not be the candidates that are missing.)
DecisionsAttributed ==
    \A q \in Queries : pc[q] \in {"audit", "auditing"} =>
        /\ \A c \in Range(permitted[q]) : [chunk |-> c, reason |-> "allowed"] \in Range(decisions[q])
        /\ AllReceived(q) =>
              \A c \in Range(cands[q]) :
                  Cardinality({k \in DOMAIN decisions[q] : decisions[q][k].chunk = c}) = 1

\* In shadow mode the result set holds every candidate inside the boundary,
\* allowed, denied or not confirmed, when every result was received, and
\* nothing else (blockedValid in the collector and the append in Execute; an
\* open ACL circuit or the ACL deadline makes the code return fewer).
ShadowComparesAll ==
    config.shadow => \A q \in Queries : pc[q] \in {"audit", "auditing"} =>
        LET inside == {c \in Range(cands[q]) : InBoundary(q, c)}
        IN  /\ ResultSet(q) \subseteq inside
            /\ AllReceived(q) => inside \subseteq ResultSet(q)

\* A circuit is closed exactly while fewer failures than its limit are on
\* record, whatever late reports of concurrent queries arrive in whichever of
\* its states (ReportSuccess, ReportFailure, Allow).
CircuitsConsistent ==
    \A b \in Circuits : circuit[b].state = "closed" <=> circuit[b].fails < Limit[b]

\* Every started query is answered, even if the permission store never
\* answers a single check (the aclCtx.Done branch of the collector).
QueryAnswered == \A q \in Queries : pc[q] # "idle" ~> pc[q] = "done"

\* As long as CanAccess honours its context, no check goroutine stays for ever:
\* each gets past the semaphore and delivers its result, also after the
\* collector has left (the buffered resultCh, the deferred semaphore release).
ChecksDrain ==
    CheckFairness =>
        \A q \in Queries : \A i \in Positions :
            check[q][i] \in {"spawned", "checking"}
                ~> check[q][i] \notin {"spawned", "checking"}

Phase(step) == CASE step = "idle" -> "idle" [] step = "done" -> "closed" [] OTHER -> "open"
Gate == INSTANCE AccessGate WITH
            Asker    <- [q \in Queries |-> Request[q].user],
            Inside   <- [q \in Queries |-> {c \in Chunks : InBoundary(q, c)}],
            Size     <- Cardinality,
            enforce  <- ~config.shadow,
            phase    <- [q \in Queries |-> Phase(pc[q])],
            readable <- seen

\* The engine implements AccessGate: whatever its goroutines, circuits and
\* deadlines do, a query discloses only when it closes, only what the gate
\* permits, and the ledger only grows (Execute as a whole).
ImplementsGate == Gate!GateSpec

-----------------------------------------------------------------------------
(* The inductive invariant behind OnlyReadableCited, BoundaryHeld,         *)
(* DisclosureRecorded and ImplementsGate.                                  *)

BeforeFilter == {"idle", "retrieve", "retrieving", "filter"}

\* Goroutines exist only for candidates, and only once the filter has begun.
ChecksPlaced ==
    \A q \in Queries : \A i \in Positions :
        check[q][i] # "none" => i <= Len(cands[q]) /\ pc[q] \notin BeforeFilter

\* Whatever got past the boundary test is inside, and an "allowed" waiting in
\* resultCh was true at some moment of the query.
ChecksSound ==
    \A q \in Queries : \A i \in Positions :
        /\ check[q][i] \in {"checking", "allowed", "acl_denied", "acl_error",
                            "acl_timeout_fail_closed"} => InBoundary(q, cands[q][i])
        /\ check[q][i] = "allowed" /\ pc[q] # "done" => cands[q][i] \in seen[q]

\* The history variable keeps up with the live permissions.
SeenTracksAcl ==
    \A q \in Queries : pc[q] \notin {"idle", "done"} => Readable(q, acl) \subseteq seen[q]

\* What the collector gathered may be returned.
ResultsSound ==
    \A q \in Queries :
        /\ \A k \in 1..Len(permitted[q]) :
                InBoundary(q, permitted[q][k]) /\ permitted[q][k] \in seen[q]
        /\ \A k \in 1..Len(blockedValid[q]) : InBoundary(q, blockedValid[q][k])
        /\ pc[q] = "idle" => permitted[q] = << >>

Disclosable(q, S) ==
    /\ \A c \in S : InBoundary(q, c)
    /\ ~config.shadow => S \subseteq seen[q]

\* The citations, before and after the audit row is written.
CitationsSound ==
    \A q \in Queries :
        /\ pc[q] = "auditing" => Disclosable(q, reranked[q])
        /\ pc[q] # "done" => cited[q] = {}
        /\ Disclosable(q, cited[q])

EngineInv ==
    /\ TypeOK
    /\ ChecksPlaced
    /\ ChecksSound
    /\ SeenTracksAcl
    /\ ResultsSound
    /\ CitationsSound
    /\ DisclosureRecorded

-----------------------------------------------------------------------------
(* The collector's bookkeeping, behind RowsAddUp, DecisionsAttributed and  *)
(* ShadowComparesAll.                                                      *)

Filtered == {"collect", "audit", "auditing"}

Received(q) == {i \in Positions : check[q][i] = "received"}

\* No chunk is retrieved twice, and only a candidate outside the boundary is
\* reported to be there.
CandidatesSound(q) ==
    /\ \A i, j \in 1..Len(cands[q]) : cands[q][i] = cands[q][j] => i = j
    /\ \A i \in Positions :
          check[q][i] = "wrong_tenant" => ~InBoundary(q, cands[q][i])

NothingCollected(q) ==
    /\ decisions[q] = << >> /\ permitted[q] = << >> /\ blockedValid[q] = << >>
    /\ blockedACL[q] = 0 /\ blockedRegion[q] = 0

\* The candidates that were counted, each in one of the three counts.
Counted(q) == Len(permitted[q]) + blockedACL[q] + blockedRegion[q]

\* The decisions are about the received results, one about each.
OneDecisionEach(q) ==
    /\ \A k \in 1..Len(decisions[q]) :
          \E i \in Received(q) : decisions[q][k].chunk = cands[q][i]
    /\ \A i \in Received(q) :
          \E k \in 1..Len(decisions[q]) : decisions[q][k].chunk = cands[q][i]
    /\ \A j, k \in 1..Len(decisions[q]) :
          decisions[q][j].chunk = decisions[q][k].chunk => j = k

\* The result lists hold received candidates, the permitted ones once and with
\* their decision, and miss none that is inside the boundary.
ResultsPlaced(q) ==
    /\ \A k \in 1..Len(permitted[q]) :
          \E i \in Received(q) : permitted[q][k] = cands[q][i]
    /\ \A j, k \in 1..Len(permitted[q]) : permitted[q][j] = permitted[q][k] => j = k
    /\ \A k \in 1..Len(permitted[q]) :
          \E j \in 1..Len(decisions[q]) :
              decisions[q][j] = [chunk |-> permitted[q][k], reason |-> "allowed"]
    /\ \A k \in 1..Len(blockedValid[q]) :
          \E i \in Received(q) : blockedValid[q][k] = cands[q][i]
    /\ \A i \in Received(q) : InBoundary(q, cands[q][i]) =>
          \/ \E k \in 1..Len(permitted[q]) : permitted[q][k] = cands[q][i]
          \/ \E k \in 1..Len(blockedValid[q]) : blockedValid[q][k] = cands[q][i]

\* What the books of q say at each control point.
BooksOf(q) ==
    /\ CandidatesSound(q)
    /\ pc[q] \in BeforeFilter => NothingCollected(q)
    /\ pc[q] = "collect" =>
          /\ Len(decisions[q]) = Cardinality(Received(q))
          /\ Counted(q) = Len(decisions[q])
          /\ OneDecisionEach(q)
    /\ pc[q] \in {"audit", "auditing"} =>
          /\ Counted(q) = Len(cands[q])
          /\ AllReceived(q) => OneDecisionEach(q)
    /\ pc[q] \in Filtered => ResultsPlaced(q)
    /\ pc[q] = "auditing" /\ ~config.shadow =>
          Cardinality(reranked[q]) = IF Len(permitted[q]) <= MaxCitations
                                     THEN Len(permitted[q]) ELSE MaxCitations

BooksInv == (\A q \in Queries : BooksOf(q)) /\ RowsAddUp

=============================================================================
