------------------------- MODULE QueryEngineProofs --------------------------
(***************************************************************************)
(* Theorems about QueryEngine, for every set of queries, chunks and users, *)
(* every deployment and every limit: what is disclosed (EngineInv), how    *)
(* the counters and decisions of a row account for the candidates          *)
(* (BooksInv), and the refinement of AccessGate.                           *)
(***************************************************************************)
EXTENDS QueryEngine, FiniteSetTheorems, SequenceTheorems, TLAPS

-----------------------------------------------------------------------------
(* The breaker operators *)

\* Every breaker method returns a breaker.
LEMMA BreakerTyping ==
    ASSUME NEW b \in Breaker, NEW limit \in Nat \ {0}
    PROVE  /\ Allow(b) \in Breaker
           /\ ReportSuccess(b) \in Breaker
           /\ ReportFailure(b, limit) \in Breaker
           /\ Elapse(b) \in Breaker
<1>1. Allow(b) \in Breaker
  BY DEF Breaker, BreakerStates, Allow
<1>2. ReportSuccess(b) \in Breaker
  BY DEF Breaker, BreakerStates, ReportSuccess
<1>3. ReportFailure(b, limit) \in Breaker
  BY DEF Breaker, BreakerStates, ReportFailure
<1>4. Elapse(b) \in Breaker
  BY DEF Breaker, BreakerStates, Elapse
<1>. QED  BY <1>1, <1>2, <1>3, <1>4

\* What a circuit must satisfy, as a predicate of one breaker.
Consistent(b, limit) == b.state = "closed" <=> b.fails < limit

\* Every breaker method keeps the state and the failure count in step.
LEMMA BreakerConsistency ==
    ASSUME NEW b \in Breaker, NEW limit \in Nat \ {0}, Consistent(b, limit)
    PROVE  /\ Consistent(Allow(b), limit)
           /\ Consistent(ReportSuccess(b), limit)
           /\ Consistent(ReportFailure(b, limit), limit)
           /\ Consistent(Elapse(b), limit)
<1>1. Consistent(Allow(b), limit)
  BY DEF Consistent, Breaker, BreakerStates, Allow
<1>2. Consistent(ReportSuccess(b), limit)
  BY DEF Consistent, Breaker, BreakerStates, ReportSuccess
<1>3. Consistent(ReportFailure(b, limit), limit)
  BY DEF Consistent, Breaker, BreakerStates, ReportFailure
<1>4. Consistent(Elapse(b), limit)
  BY DEF Consistent, Breaker, BreakerStates, Elapse
<1>. QED  BY <1>1, <1>2, <1>3, <1>4

-----------------------------------------------------------------------------
(* Sequences built with a function constructor *)

\* A function on 1..n is a sequence of length n.
LEMMA TupleIsSeq ==
    ASSUME NEW S, NEW n \in Nat, NEW f \in [1..n -> S]
    PROVE  f \in Seq(S) /\ Len(f) = n
BY SeqDef, LenProperties

\* What retrieval returns is a sequence of at most MaxCandidates chunks.
LEMMA CandidateListsAreSeqs ==
    ASSUME NEW list \in CandidateLists
    PROVE  list \in Seq(Chunks) /\ Len(list) <= MaxCandidates
<1>1. PICK n \in 0..MaxCandidates : list \in Injection(1..n, Chunks)
  BY DEF CandidateLists
<1>2. n \in Nat /\ n <= MaxCandidates /\ list \in [1..n -> Chunks]
  BY <1>1, EngineAssumption DEF Injection
<1>. QED  BY <1>2, TupleIsSeq

-----------------------------------------------------------------------------
(* Type correctness *)

\* The initial states are well typed.
LEMMA TypeInit == Init => TypeOK
<1> SUFFICES ASSUME Init PROVE TypeOK
  OBVIOUS
<1>1. circuit \in [Circuits -> Breaker]
  <2>1. PICK open \in Tripped : circuit = CircuitsFound(open)
    BY DEF Init
  <2>2. ASSUME NEW b \in Circuits
        PROVE  NewCircuitBreaker \in Breaker /\ TrippedCircuitBreaker(Limit[b]) \in Breaker
    BY EngineAssumption DEF Breaker, BreakerStates, NewCircuitBreaker,
       TrippedCircuitBreaker
  <2>. QED  BY <2>1, <2>2 DEF CircuitsFound
<1>2. \A q \in Queries : Len(cands[q]) <= MaxCandidates
  <2>1. MaxCandidates \in Nat /\ Len(<< >>) = 0
    BY EngineAssumption
  <2>2. \A q \in Queries : cands[q] = << >>
    BY DEF Init
  <2>. QED  BY <2>1, <2>2
<1>3. config \in [shadow : BOOLEAN, wired : SUBSET Dependencies]
  BY EngineAssumption DEF Init
<1>4. /\ pc \in [Queries -> Steps] /\ failStage \in [Queries -> Stages]
      /\ check \in [Queries -> [Positions -> CheckStates]]
  BY DEF Init, Steps, Stages, CheckStates
<1>5. /\ << >> \in Seq(Chunks) /\ << >> \in Seq(Decision)
  BY EmptySeq
<1>6. /\ cands \in [Queries -> Seq(Chunks)]
      /\ permitted \in [Queries -> Seq(Chunks)]
      /\ blockedValid \in [Queries -> Seq(Chunks)]
      /\ decisions \in [Queries -> Seq(Decision)]
  BY <1>5 DEF Init
<1>7. /\ expired \in [Queries -> BOOLEAN] /\ aclDone \in [Queries -> BOOLEAN]
      /\ aclFailed \in [Queries -> BOOLEAN]
      /\ blockedACL \in [Queries -> Nat] /\ blockedRegion \in [Queries -> Nat]
  BY DEF Init
<1>8. /\ reranked \in [Queries -> SUBSET Chunks] /\ cited \in [Queries -> SUBSET Chunks]
      /\ seen \in [Queries -> SUBSET Chunks]
      /\ ledger \subseteq Row /\ acl \subseteq Users \X Chunks
  BY DEF Init
<1>. QED  BY <1>1, <1>2, <1>3, <1>4, <1>6, <1>7, <1>8 DEF TypeOK

\* Rows have the type of the ledger.
LEMMA RowTyping ==
    ASSUME TypeOK, NEW q \in Queries
    PROVE  AuditRow(q) \in Row /\ FailRow(q) \in Row
<1>1. Cardinality(reranked[q]) \in Nat
  BY EngineAssumption, FS_Subset, FS_CardinalityType DEF TypeOK
<1>2. Len(cands[q]) \in Nat /\ blockedACL[q] \in Nat /\ blockedRegion[q] \in Nat
  BY DEF TypeOK
<1>3. (IF config.shadow THEN 0 ELSE blockedACL[q]) + blockedRegion[q] \in Nat
  BY <1>2
<1>4. AuditRow(q) \in Row
  BY <1>1, <1>2, <1>3 DEF AuditRow, Row
<1>5. FailRow(q) \in Row
  BY DEF FailRow, Row
<1>. QED  BY <1>4, <1>5

\* A circuit updated by one of the breaker operators is still a circuit.
LEMMA CircuitTyping ==
    ASSUME TypeOK, NEW b \in Circuits
    PROVE  /\ [circuit EXCEPT ![b] = Allow(@)] \in [Circuits -> Breaker]
           /\ [circuit EXCEPT ![b] = ReportSuccess(@)] \in [Circuits -> Breaker]
           /\ [circuit EXCEPT ![b] = ReportFailure(@, Limit[b])] \in [Circuits -> Breaker]
           /\ [circuit EXCEPT ![b] = ReportFailure(Allow(@), Limit[b])]
                  \in [Circuits -> Breaker]
           /\ [circuit EXCEPT ![b] = Elapse(@)] \in [Circuits -> Breaker]
<1>1. circuit[b] \in Breaker /\ Limit[b] \in Nat \ {0}
  BY EngineAssumption DEF TypeOK
<1>2. /\ Allow(circuit[b]) \in Breaker
      /\ ReportSuccess(circuit[b]) \in Breaker
      /\ ReportFailure(circuit[b], Limit[b]) \in Breaker
      /\ Elapse(circuit[b]) \in Breaker
  BY <1>1, BreakerTyping
<1>3. ReportFailure(Allow(circuit[b]), Limit[b]) \in Breaker
  BY <1>1, <1>2, BreakerTyping
<1>. QED  BY <1>2, <1>3 DEF TypeOK

\* A refused audit write leaves a circuit.
LEMMA RefusedTyping ==
    ASSUME TypeOK, NEW q \in Queries, AuditRefused(q)
    PROVE  circuit' \in [Circuits -> Breaker]
<1>1. "audit" \in Circuits
  BY DEF Circuits
<1>2. CASE circuit' = circuit
  BY <1>2 DEF TypeOK
<1>3. CASE circuit' = [circuit EXCEPT !["audit"] = ReportFailure(Allow(@), Limit["audit"])]
  BY <1>1, <1>3, CircuitTyping
<1>. QED  BY <1>2, <1>3 DEF AuditRefused

\* The three circuits the engine owns.
LEMMA CircuitNames == "retrieval" \in Circuits /\ "acl" \in Circuits /\ "audit" \in Circuits
BY DEF Circuits

\* What the collector receives is a verdict about a candidate.
LEMMA CollectsCandidate ==
    ASSUME TypeOK, ChecksPlaced, NEW q \in Queries, NEW i \in Positions, Collect(q, i)
    PROVE  /\ check[q][i] \in Verdicts
           /\ i \in 1..Len(cands[q])
           /\ cands[q][i] \in Chunks
<1>1. check[q][i] \in Verdicts
  BY DEF Collect
<1>2. check[q][i] # "none"
  BY <1>1 DEF Verdicts
<1>3. i \in Nat /\ 1 <= i
  BY EngineAssumption DEF Positions
<1>4. i \in 1..Len(cands[q])
  BY <1>2, <1>3 DEF ChecksPlaced, TypeOK
<1>. QED  BY <1>1, <1>4 DEF TypeOK

\* The last index of an appended sequence.
LEMMA IndexSplit ==
    ASSUME NEW n \in Nat
    PROVE  \A k \in 1..(n + 1) : k \in 1..n \/ k = n + 1
OBVIOUS

\* Every step preserves the types.
LEMMA TypeStep == TypeOK /\ ChecksPlaced /\ [Next]_vars => TypeOK'
<1> SUFFICES ASSUME TypeOK, ChecksPlaced, [Next]_vars PROVE TypeOK'
  OBVIOUS
<1> USE CircuitNames DEF filterVars, envVars, Goto
<1>1. ASSUME NEW q \in Queries, Execute(q) PROVE TypeOK'
  BY <1>1 DEF TypeOK, Execute, FailClosed, Steps, Stages, Readable
<1>2. ASSUME NEW q \in Queries, RetrieveRefused(q) PROVE TypeOK'
  BY <1>2 DEF TypeOK, RetrieveRefused, FailClosed, Steps, Stages
<1>3. ASSUME NEW q \in Queries, RetrieveSend(q) PROVE TypeOK'
  BY <1>3, CircuitTyping DEF TypeOK, RetrieveSend, Steps
<1>4. ASSUME NEW q \in Queries, RetrieveSucceeds(q) PROVE TypeOK'
  <2>1. /\ cands' \in [Queries -> Seq(Chunks)]
        /\ \A p \in Queries : Len(cands'[p]) <= MaxCandidates
    BY <1>4, CandidateListsAreSeqs DEF TypeOK, RetrieveSucceeds
  <2>2. circuit' \in [Circuits -> Breaker]
    BY <1>4, CircuitTyping DEF TypeOK, RetrieveSucceeds
  <2>. QED  BY <1>4, <2>1, <2>2 DEF TypeOK, RetrieveSucceeds, Steps
<1>5. ASSUME NEW q \in Queries, RetrieveFails(q) PROVE TypeOK'
  BY <1>5, CircuitTyping DEF TypeOK, RetrieveFails, FailClosed, Steps, Stages
<1>6. ASSUME NEW q \in Queries, FilterRefused(q) PROVE TypeOK'
  <2>1. Len(cands[q]) \in Nat /\ cands[q] \in [1..Len(cands[q]) -> Chunks]
    BY LenProperties DEF TypeOK
  <2>2. [i \in DOMAIN cands[q] |->
            [chunk |-> cands[q][i], reason |-> "acl_circuit_open_fail_closed"]]
                \in [1..Len(cands[q]) -> Decision]
    BY <2>1 DEF Decision, Reasons
  <2>3. decisions' \in [Queries -> Seq(Decision)]
    BY <1>6, <2>1, <2>2, TupleIsSeq DEF FilterRefused, TypeOK
  <2>. QED  BY <1>6, <2>1, <2>3 DEF TypeOK, FilterRefused, Steps
<1>7. ASSUME NEW q \in Queries, FilterStart(q) PROVE TypeOK'
  BY <1>7, CircuitTyping DEF TypeOK, FilterStart, Steps, CheckStates
<1>8. ASSUME NEW q \in Queries, NEW i \in Positions, CheckStep(q, i) PROVE TypeOK'
  <2>1. PICK state \in CheckStates : Advance(q, i, state)
    BY <1>8 DEF CheckStep, CheckWrongTenant, CheckBegin, CheckGivesUp,
                CheckAnswered, CheckErrs, CheckStates, Verdicts
  <2>. QED  BY <2>1 DEF TypeOK, Advance
<1>9. ASSUME NEW q \in Queries, NEW i \in Positions, Collect(q, i) PROVE TypeOK'
  <2>1. cands[q][i] \in Chunks /\ check[q][i] \in Verdicts
    BY <1>9, CollectsCandidate
  <2>2. decisions' \in [Queries -> Seq(Decision)]
    <3>1. [chunk |-> cands[q][i], reason |-> check[q][i]] \in Decision
      BY <2>1 DEF Decision, Reasons
    <3>2. decisions' = [decisions EXCEPT ![q] = Append(decisions[q],
                            [chunk |-> cands[q][i], reason |-> check[q][i]])]
      BY <1>9 DEF Collect
    <3>. QED  BY <3>1, <3>2 DEF TypeOK
  <2>3. check' \in [Queries -> [Positions -> CheckStates]]
    <3>1. check' = [check EXCEPT ![q][i] = "received"]
      BY <1>9 DEF Collect
    <3>. QED  BY <3>1 DEF TypeOK, CheckStates
  <2>4. permitted' \in [Queries -> Seq(Chunks)]
    <3>1. \/ permitted' = permitted
          \/ permitted' = [permitted EXCEPT ![q] = Append(permitted[q], cands[q][i])]
      BY <1>9 DEF Collect
    <3>2. permitted \in [Queries -> Seq(Chunks)]
      BY DEF TypeOK
    <3>3. Append(permitted[q], cands[q][i]) \in Seq(Chunks)
      BY <2>1, <3>2, AppendProperties
    <3>. QED  BY <3>1, <3>2, <3>3
  <2>5. blockedValid' \in [Queries -> Seq(Chunks)]
    <3>1. \/ blockedValid' = blockedValid
          \/ blockedValid' = [blockedValid EXCEPT ![q] = Append(blockedValid[q], cands[q][i])]
      BY <1>9 DEF Collect
    <3>2. blockedValid \in [Queries -> Seq(Chunks)]
      BY DEF TypeOK
    <3>3. Append(blockedValid[q], cands[q][i]) \in Seq(Chunks)
      BY <2>1, <3>2, AppendProperties
    <3>. QED  BY <3>1, <3>2, <3>3
  <2>6. blockedACL' \in [Queries -> Nat] /\ blockedRegion' \in [Queries -> Nat]
    <3>1. \/ blockedACL' = blockedACL
          \/ blockedACL' = [blockedACL EXCEPT ![q] = blockedACL[q] + 1]
      BY <1>9 DEF Collect
    <3>2. \/ blockedRegion' = blockedRegion
          \/ blockedRegion' = [blockedRegion EXCEPT ![q] = blockedRegion[q] + 1]
      BY <1>9 DEF Collect
    <3>3. blockedACL \in [Queries -> Nat] /\ blockedRegion \in [Queries -> Nat]
      BY DEF TypeOK
    <3>4. blockedACL[q] + 1 \in Nat /\ blockedRegion[q] + 1 \in Nat
      BY <3>3
    <3>5. blockedACL' \in [Queries -> Nat]
      BY <3>1, <3>3, <3>4
    <3>6. blockedRegion' \in [Queries -> Nat]
      BY <3>2, <3>3, <3>4
    <3>. QED  BY <3>5, <3>6
  <2>7. aclFailed' \in [Queries -> BOOLEAN]
    <3>1. \/ aclFailed' = aclFailed
          \/ aclFailed' = [aclFailed EXCEPT ![q] =
                                aclFailed[q] \/ check[q][i] \in ErrorVerdicts]
      BY <1>9 DEF Collect
    <3>. QED  BY <3>1 DEF TypeOK
  <2>8. UNCHANGED <<envVars, circuit, pc, expired, cands, aclDone,
                    reranked, failStage, cited, ledger>>
    BY <1>9 DEF Collect
  <2>. QED  BY <2>2, <2>3, <2>4, <2>5, <2>6, <2>7, <2>8 DEF TypeOK
<1>10. ASSUME NEW q \in Queries, CollectGivesUp(q) PROVE TypeOK'
  <2> DEFINE n == Len(decisions[q])
             m == Len(cands[q])
  <2>1. /\ m \in Nat /\ cands[q] \in [1..m -> Chunks]
        /\ n \in Nat /\ decisions[q] \in [1..n -> Decision] /\ n < m
    BY <1>10, LenProperties DEF TypeOK, CollectGivesUp
  <2>2. [i \in 1..m |->
            IF i <= n THEN decisions[q][i]
            ELSE [chunk |-> cands[q][i], reason |-> "acl_timeout_fail_closed"]]
                \in [1..m -> Decision]
    BY <2>1 DEF Decision, Reasons, Verdicts
  <2>3. decisions' \in [Queries -> Seq(Decision)]
    BY <1>10, <2>1, <2>2, TupleIsSeq DEF CollectGivesUp, TypeOK
  <2>4. blockedACL' \in [Queries -> Nat]
    BY <1>10, <2>1 DEF CollectGivesUp, TypeOK
  <2>. QED  BY <1>10, <2>3, <2>4, CircuitTyping DEF TypeOK, CollectGivesUp, Steps
<1>11. ASSUME NEW q \in Queries, CollectDone(q) PROVE TypeOK'
  BY <1>11, CircuitTyping DEF TypeOK, CollectDone, Steps
<1>12. ASSUME NEW q \in Queries, WriteAuditRefused(q) PROVE TypeOK'
  <2>1. circuit' \in [Circuits -> Breaker]
    BY <1>12, RefusedTyping DEF WriteAuditRefused
  <2>. QED
    BY <1>12, <2>1 DEF TypeOK, WriteAuditRefused, AuditRefused, FailClosed, Steps, Stages
<1>13. ASSUME NEW q \in Queries, WriteAuditSend(q) PROVE TypeOK'
  <2>1. ResultSet(q) \subseteq Chunks
    BY DEF TypeOK, ResultSet, Range
  <2>2. reranked' \in [Queries -> SUBSET Chunks]
    BY <1>13, <2>1 DEF TypeOK, WriteAuditSend, Rerank
  <2>. QED
    BY <1>13, <2>2, CircuitTyping DEF TypeOK, WriteAuditSend, AuditAllowed, Steps
<1>14. ASSUME NEW q \in Queries, WriteAuditSucceeds(q) PROVE TypeOK'
  <2>1. circuit' \in [Circuits -> Breaker] /\ ledger' \subseteq Row
    BY <1>14, CircuitTyping, RowTyping DEF TypeOK, WriteAuditSucceeds
  <2>2. cited' \in [Queries -> SUBSET Chunks]
    BY <1>14 DEF TypeOK, WriteAuditSucceeds
  <2>. QED  BY <1>14, <2>1, <2>2 DEF TypeOK, WriteAuditSucceeds, Steps
<1>15. ASSUME NEW q \in Queries, WriteAuditFails(q) PROVE TypeOK'
  BY <1>15, CircuitTyping, RowTyping DEF TypeOK, WriteAuditFails, FailClosed, Steps, Stages
<1>16. ASSUME NEW q \in Queries, FailAuditRefused(q) PROVE TypeOK'
  <2>1. circuit' \in [Circuits -> Breaker]
    BY <1>16, RefusedTyping DEF FailAuditRefused
  <2>. QED
    BY <1>16, <2>1 DEF TypeOK, FailAuditRefused, AuditRefused, Steps
<1>17. ASSUME NEW q \in Queries, FailAuditSend(q) PROVE TypeOK'
  BY <1>17, CircuitTyping DEF TypeOK, FailAuditSend, AuditAllowed, Steps
<1>18. ASSUME NEW q \in Queries, FailAuditReturns(q) PROVE TypeOK'
  <2>1. circuit' \in [Circuits -> Breaker]
    BY <1>18, CircuitTyping DEF FailAuditReturns
  <2>2. ledger' \subseteq Row
    BY <1>18, RowTyping DEF FailAuditReturns, TypeOK
  <2>. QED  BY <1>18, <2>1, <2>2 DEF TypeOK, FailAuditReturns, Steps
<1>19. ASSUME NEW q \in Queries, AclDeadline(q) PROVE TypeOK'
  BY <1>19 DEF TypeOK, AclDeadline
<1>20. ASSUME NEW q \in Queries, TotalDeadline(q) PROVE TypeOK'
  BY <1>20 DEF TypeOK, TotalDeadline
<1>21. ASSUME NEW b \in Circuits, WindowElapses(b) PROVE TypeOK'
  BY <1>21, CircuitTyping DEF TypeOK, WindowElapses
<1>22. CASE PermissionChanges
  BY <1>22 DEF TypeOK, PermissionChanges, Readable
<1>23. CASE UNCHANGED vars
  BY <1>23 DEF TypeOK, vars
<1>. QED
  BY <1>1, <1>2, <1>3, <1>4, <1>5, <1>6, <1>7, <1>8, <1>9, <1>10, <1>11, <1>12,
     <1>13, <1>14, <1>15, <1>16, <1>17, <1>18, <1>19, <1>20, <1>21, <1>22, <1>23
     DEF Next, QueryStep

\* Every step keeps the goroutines at candidates.
LEMMA PlacedStep == TypeOK /\ ChecksPlaced /\ [Next]_vars => ChecksPlaced'
<1> SUFFICES ASSUME TypeOK, ChecksPlaced, [Next]_vars,
                    NEW p \in Queries, NEW i \in Positions
             PROVE  check'[p][i] # "none" =>
                        i <= Len(cands'[p]) /\ pc'[p] \notin BeforeFilter
  BY DEF ChecksPlaced
<1> USE DEF ChecksPlaced, TypeOK, filterVars, envVars, Goto, BeforeFilter
<1>1. ASSUME NEW q \in Queries, Execute(q) \/ QueryStep(q)
      PROVE  check'[p][i] # "none" => i <= Len(cands'[p]) /\ pc'[p] \notin BeforeFilter
  <2>1. CASE Execute(q)
    BY <2>1 DEF Execute, FailClosed
  <2>2. CASE RetrieveRefused(q) \/ RetrieveSend(q) \/ RetrieveSucceeds(q) \/ RetrieveFails(q)
    <3>1. CASE RetrieveRefused(q)
      BY <3>1 DEF RetrieveRefused, FailClosed
    <3>2. CASE RetrieveSend(q)
      BY <3>2 DEF RetrieveSend
    <3>3. CASE RetrieveSucceeds(q)
      BY <3>3 DEF RetrieveSucceeds
    <3>4. CASE RetrieveFails(q)
      BY <3>4 DEF RetrieveFails, FailClosed
    <3>. QED  BY <2>2, <3>1, <3>2, <3>3, <3>4
  <2>3. CASE FilterRefused(q)
    BY <2>3 DEF FilterRefused
  <2>4. CASE FilterStart(q)
    BY <2>4 DEF FilterStart
  <2>5. CASE \E j \in Positions : Collect(q, j)
    BY <2>5 DEF Collect, Verdicts
  <2>6. CASE CollectGivesUp(q) \/ CollectDone(q)
    BY <2>6 DEF CollectGivesUp, CollectDone
  <2>7. CASE WriteAuditRefused(q) \/ WriteAuditSend(q) \/ WriteAuditSucceeds(q)
                \/ WriteAuditFails(q)
    BY <2>7 DEF WriteAuditRefused, WriteAuditSend, WriteAuditSucceeds,
                WriteAuditFails, AuditRefused, FailClosed
  <2>8. CASE FailAuditRefused(q) \/ FailAuditSend(q) \/ FailAuditReturns(q)
    BY <2>8 DEF FailAuditRefused, FailAuditSend, FailAuditReturns, AuditRefused
  <2>. QED
    BY <1>1, <2>1, <2>2, <2>3, <2>4, <2>5, <2>6, <2>7, <2>8 DEF QueryStep
<1>2. ASSUME NEW q \in Queries, AclDeadline(q) \/ TotalDeadline(q)
      PROVE  check'[p][i] # "none" => i <= Len(cands'[p]) /\ pc'[p] \notin BeforeFilter
  BY <1>2 DEF AclDeadline, TotalDeadline
<1>3. ASSUME NEW q \in Queries, NEW j \in Positions, CheckStep(q, j)
      PROVE  check'[p][i] # "none" => i <= Len(cands'[p]) /\ pc'[p] \notin BeforeFilter
  <2>1. check[q][j] # "none"
    BY <1>3 DEF CheckStep, CheckWrongTenant, CheckBegin, CheckGivesUp,
                CheckAnswered, CheckErrs
  <2>2. PICK state : Advance(q, j, state)
    BY <1>3 DEF CheckStep, CheckWrongTenant, CheckBegin, CheckGivesUp,
                CheckAnswered, CheckErrs
  <2>3. UNCHANGED <<cands, pc>> /\ check' = [check EXCEPT ![q][j] = state]
    BY <2>2 DEF Advance
  <2>. QED  BY <2>1, <2>3
<1>4. ASSUME NEW b \in Circuits, WindowElapses(b)
      PROVE  check'[p][i] # "none" => i <= Len(cands'[p]) /\ pc'[p] \notin BeforeFilter
  BY <1>4 DEF WindowElapses
<1>5. CASE PermissionChanges
  BY <1>5 DEF PermissionChanges
<1>6. CASE UNCHANGED vars
  BY <1>6 DEF vars
<1>. QED  BY <1>1, <1>2, <1>3, <1>4, <1>5, <1>6 DEF Next

\* In every reachable state of the engine the variables have their types.
THEOREM TypeCorrect == Spec => []TypeOK
<1>1. Init => TypeOK /\ ChecksPlaced
  <2>1. ASSUME Init PROVE ChecksPlaced
    <3>1. check = [q \in Queries |-> [i \in Positions |-> "none"]]
      BY <2>1 DEF Init
    <3>. QED  BY <3>1 DEF ChecksPlaced
  <2>. QED  BY <2>1, TypeInit
<1>2. TypeOK /\ ChecksPlaced /\ [Next]_vars => (TypeOK /\ ChecksPlaced)'
  BY TypeStep, PlacedStep
<1>. QED  BY <1>1, <1>2, PTL DEF Spec

-----------------------------------------------------------------------------
(* The inductive invariant *)

\* Steps that touch none of the state the invariant speaks of but the ledger,
\* which they may extend, and the control point of a running query.
Quiet ==
    /\ UNCHANGED <<config, cands, check, permitted, blockedValid, reranked, cited,
                   acl, seen>>
    /\ ledger \subseteq ledger'
    /\ \A q \in Queries :
          pc'[q] # pc[q] => pc[q] \notin {"idle", "done"} /\ pc'[q] \notin {"idle", "auditing"}

LoudQueryStep(q) ==
    \/ Execute(q) \/ RetrieveSucceeds(q) \/ FilterStart(q)
    \/ \E i \in Positions : Collect(q, i)
    \/ WriteAuditSend(q) \/ WriteAuditSucceeds(q)

\* Every step is quiet or one of the eight that matter.
LEMMA StepKinds ==
    ASSUME TypeOK, [Next]_vars
    PROVE  \/ Quiet
           \/ \E q \in Queries : LoudQueryStep(q)
           \/ \E q \in Queries : \E i \in Positions : CheckStep(q, i)
           \/ PermissionChanges
<1> USE DEF filterVars, envVars, Goto
<1>1. ASSUME NEW q \in Queries, RetrieveRefused(q) \/ RetrieveSend(q) \/ RetrieveFails(q)
      PROVE  Quiet
  BY <1>1 DEF RetrieveRefused, RetrieveSend, RetrieveFails, FailClosed, Quiet, TypeOK
<1>2. ASSUME NEW q \in Queries, FilterRefused(q) \/ CollectGivesUp(q) \/ CollectDone(q)
      PROVE  Quiet
  BY <1>2 DEF FilterRefused, CollectGivesUp, CollectDone, Quiet, TypeOK
<1>3. ASSUME NEW q \in Queries, WriteAuditRefused(q) \/ WriteAuditFails(q)
      PROVE  Quiet
  BY <1>3 DEF WriteAuditRefused, WriteAuditFails, AuditRefused, FailClosed, Quiet, TypeOK
<1>4. ASSUME NEW q \in Queries,
             FailAuditRefused(q) \/ FailAuditSend(q) \/ FailAuditReturns(q)
      PROVE  Quiet
  BY <1>4 DEF FailAuditRefused, FailAuditSend, FailAuditReturns, AuditRefused, Quiet, TypeOK
<1>5. ASSUME NEW q \in Queries, AclDeadline(q) \/ TotalDeadline(q)
      PROVE  Quiet
  BY <1>5 DEF AclDeadline, TotalDeadline, Quiet
<1>6. ASSUME NEW b \in Circuits, WindowElapses(b)
      PROVE  Quiet
  BY <1>6 DEF WindowElapses, Quiet
<1>7. CASE UNCHANGED vars
  BY <1>7 DEF vars, Quiet
<1>. QED
  BY <1>1, <1>2, <1>3, <1>4, <1>5, <1>6, <1>7 DEF Next, QueryStep, LoudQueryStep

\* The inductive invariant holds initially.
LEMMA SoundInit == Init => EngineInv
<1> SUFFICES ASSUME Init PROVE EngineInv
  OBVIOUS
<1>1. TypeOK
  BY TypeInit
<1>2. \A q \in Queries : /\ pc[q] = "idle" /\ permitted[q] = << >>
                         /\ blockedValid[q] = << >> /\ cited[q] = {}
  BY DEF Init
<1>3. \A q \in Queries : \A i \in Positions : check[q][i] = "none"
  <2>1. check = [q \in Queries |-> [i \in Positions |-> "none"]]
    BY DEF Init
  <2>. QED  BY <2>1
<1>4. ChecksPlaced /\ ChecksSound
  BY <1>3 DEF ChecksPlaced, ChecksSound
<1>5. SeenTracksAcl
  BY <1>2 DEF SeenTracksAcl
<1>6. Len(<< >>) = 0
  OBVIOUS
<1>7. ResultsSound
  BY <1>2, <1>6 DEF ResultsSound
<1>8. CitationsSound /\ DisclosureRecorded
  BY <1>2 DEF CitationsSound, DisclosureRecorded, Disclosable
<1>. QED  BY <1>1, <1>4, <1>5, <1>7, <1>8 DEF EngineInv

\* The history variable keeps up with every step, permission changes included.
LEMMA SeenStep == EngineInv /\ [Next]_vars => SeenTracksAcl'
<1> SUFFICES ASSUME EngineInv, [Next]_vars, NEW p \in Queries,
                    pc'[p] \notin {"idle", "done"}
             PROVE  Readable(p, acl') \subseteq seen'[p]
  BY DEF SeenTracksAcl, Readable
<1> USE DEF EngineInv, SeenTracksAcl, TypeOK, filterVars, envVars, Goto
<1>1. CASE Quiet
  BY <1>1 DEF Quiet
<1>2. ASSUME NEW q \in Queries, Execute(q) PROVE Readable(p, acl') \subseteq seen'[p]
  BY <1>2 DEF Execute, FailClosed
<1>3. ASSUME NEW q \in Queries, RetrieveSucceeds(q) \/ FilterStart(q) \/ WriteAuditSend(q)
                    \/ WriteAuditSucceeds(q)
      PROVE  Readable(p, acl') \subseteq seen'[p]
  BY <1>3 DEF RetrieveSucceeds, FilterStart, WriteAuditSend, WriteAuditSucceeds
<1>4. ASSUME NEW q \in Queries, NEW i \in Positions, Collect(q, i) \/ CheckStep(q, i)
      PROVE  Readable(p, acl') \subseteq seen'[p]
  <2>1. UNCHANGED <<pc, acl, seen>>
    BY <1>4 DEF Collect, CheckStep, CheckWrongTenant, CheckBegin, CheckGivesUp,
                CheckAnswered, CheckErrs, Advance
  <2>. QED  BY <2>1
<1>5. CASE PermissionChanges
  BY <1>5 DEF PermissionChanges, Readable
<1>. QED  BY <1>1, <1>2, <1>3, <1>4, <1>5, StepKinds DEF LoudQueryStep

\* Only the boundary test, CanAccess, the collector and the passing of time
\* matter to what lies in resultCh.
LEMMA ChecksStep == EngineInv /\ [Next]_vars => ChecksSound'
<1> DEFINE Past == {"checking", "allowed", "acl_denied", "acl_error",
                    "acl_timeout_fail_closed"}
           Sound(p, i) ==
               /\ check[p][i] \in Past => InBoundary(p, cands[p][i])
               /\ check[p][i] = "allowed" /\ pc[p] # "done" => cands[p][i] \in seen[p]
<1> SUFFICES ASSUME EngineInv, [Next]_vars, NEW p \in Queries, NEW i \in Positions
             PROVE  Sound(p, i)'
  BY DEF ChecksSound, InBoundary
<1>0. Sound(p, i)
  BY DEF EngineInv, ChecksSound
<1> USE DEF EngineInv, ChecksPlaced, BeforeFilter, TypeOK, filterVars, envVars, Goto
<1>1. CASE Quiet
  BY <1>0, <1>1 DEF Quiet, InBoundary
<1>2. ASSUME NEW q \in Queries,
             Execute(q) \/ RetrieveSucceeds(q) \/ FilterStart(q)
      PROVE  Sound(p, i)'
  <2>1. CASE p = q
    <3>1. check[q][i] = "none"
      BY <1>2 DEF Execute, RetrieveSucceeds, FilterStart
    <3>2. check'[q][i] \in {"none", "spawned"}
      BY <1>2, <3>1 DEF Execute, RetrieveSucceeds, FilterStart
    <3>. QED  BY <2>1, <3>2
  <2>2. CASE p # q
    <3>1. /\ check'[p] = check[p] /\ cands'[p] = cands[p]
          /\ pc'[p] = pc[p] /\ seen'[p] = seen[p]
      BY <1>2, <2>2 DEF Execute, RetrieveSucceeds, FilterStart, FailClosed
    <3>. QED  BY <1>0, <3>1 DEF InBoundary
  <2>. QED  BY <2>1, <2>2
<1>3. ASSUME NEW q \in Queries, NEW j \in Positions, Collect(q, j)
      PROVE  Sound(p, i)'
  <2>1. /\ UNCHANGED <<cands, pc, seen>>
        /\ check' = [check EXCEPT ![q][j] = "received"]
    BY <1>3 DEF Collect
  <2>. QED  BY <1>0, <2>1 DEF InBoundary
<1>4. ASSUME NEW q \in Queries, WriteAuditSend(q) \/ WriteAuditSucceeds(q)
      PROVE  Sound(p, i)'
  BY <1>0, <1>4 DEF WriteAuditSend, WriteAuditSucceeds, InBoundary
<1>5. ASSUME NEW q \in Queries, NEW j \in Positions, CheckStep(q, j)
      PROVE  Sound(p, i)'
  <2>1. PICK state \in CheckStates :
            /\ Advance(q, j, state)
            /\ state \in Past => InBoundary(q, cands[q][j])
            /\ state = "allowed" => cands[q][j] \in Readable(q, acl)
    <3>1. CASE CheckWrongTenant(q, j) \/ CheckBegin(q, j) \/ CheckGivesUp(q, j)
      BY <3>1 DEF CheckWrongTenant, CheckBegin, CheckGivesUp, CheckStates, Verdicts
    <3>2. CASE CheckAnswered(q, j) \/ CheckErrs(q, j)
      <4>1. InBoundary(q, cands[q][j])
        BY <3>2 DEF CheckAnswered, CheckErrs, ChecksSound
      <4>. QED  BY <3>2, <4>1 DEF CheckAnswered, CheckErrs, CheckStates, Verdicts
    <3>. QED  BY <1>5, <3>1, <3>2 DEF CheckStep
  <2>2. check[q][j] # "none"
    BY <1>5 DEF CheckStep, CheckWrongTenant, CheckBegin, CheckGivesUp,
                CheckAnswered, CheckErrs
  <2>3. pc[q] # "idle"
    BY <2>2
  <2>4. /\ UNCHANGED <<cands, pc, seen>>
        /\ check' = [check EXCEPT ![q][j] = state]
    BY <2>1 DEF Advance
  <2>5. CASE p = q /\ i = j
    <3>1. check'[p][i] = state
      BY <2>4, <2>5
    <3>2. state = "allowed" /\ pc[p] # "done" => cands[p][i] \in seen[p]
      BY <2>1, <2>3, <2>5 DEF SeenTracksAcl
    <3>. QED  BY <2>1, <2>4, <2>5, <3>1, <3>2 DEF InBoundary
  <2>6. CASE ~(p = q /\ i = j)
    <3>1. check'[p][i] = check[p][i]
      BY <2>4, <2>6
    <3>. QED  BY <1>0, <2>4, <3>1 DEF InBoundary
  <2>. QED  BY <2>5, <2>6
<1>6. CASE PermissionChanges
  <2>1. UNCHANGED <<check, cands, pc>> /\ seen[p] \subseteq seen'[p]
    BY <1>6 DEF PermissionChanges
  <2>. QED  BY <1>0, <2>1 DEF InBoundary
<1>. QED  BY <1>1, <1>2, <1>3, <1>4, <1>5, <1>6, StepKinds DEF LoudQueryStep

\* A collector adds to its lists only what ChecksSound vouches for.
LEMMA ResultsStep == EngineInv /\ [Next]_vars => ResultsSound'
<1> DEFINE Sound(p) ==
               /\ \A k \in 1..Len(permitted[p]) :
                      InBoundary(p, permitted[p][k]) /\ permitted[p][k] \in seen[p]
               /\ \A k \in 1..Len(blockedValid[p]) : InBoundary(p, blockedValid[p][k])
               /\ pc[p] = "idle" => permitted[p] = << >>
<1> SUFFICES ASSUME EngineInv, [Next]_vars, NEW p \in Queries
             PROVE  Sound(p)'
  BY DEF ResultsSound, InBoundary
<1>0. Sound(p)
  BY DEF EngineInv, ResultsSound
<1> USE DEF EngineInv, TypeOK, filterVars, envVars, Goto
<1>1. CASE Quiet
  BY <1>0, <1>1 DEF Quiet, InBoundary
<1>2. ASSUME NEW q \in Queries, Execute(q) PROVE Sound(p)'
  <2>1. UNCHANGED <<permitted, blockedValid>>
    BY <1>2 DEF Execute
  <2>2. CASE p = q
    <3>1. permitted[p] = << >> /\ Len(permitted[p]) = 0
      BY <1>0, <1>2, <2>2 DEF Execute
    <3>. QED  BY <1>0, <2>1, <3>1 DEF InBoundary
  <2>3. CASE p # q
    <3>1. pc'[p] = pc[p] /\ seen'[p] = seen[p]
      BY <1>2, <2>3 DEF Execute, FailClosed
    <3>. QED  BY <1>0, <2>1, <3>1 DEF InBoundary
  <2>. QED  BY <2>2, <2>3
<1>3. ASSUME NEW q \in Queries, RetrieveSucceeds(q) \/ FilterStart(q) \/ WriteAuditSend(q)
                    \/ WriteAuditSucceeds(q)
      PROVE  Sound(p)'
  <2>1. /\ UNCHANGED <<permitted, blockedValid, seen>>
        /\ pc'[p] = "idle" => pc[p] = "idle"
    BY <1>3 DEF RetrieveSucceeds, FilterStart, WriteAuditSend, WriteAuditSucceeds
  <2>. QED  BY <1>0, <2>1 DEF InBoundary
<1>4. ASSUME NEW q \in Queries, NEW i \in Positions, Collect(q, i) PROVE Sound(p)'
  <2>1. UNCHANGED <<pc, seen, cands>> /\ pc[q] = "collect"
    BY <1>4 DEF Collect
  <2>2. CASE p # q
    <3>1. permitted'[p] = permitted[p] /\ blockedValid'[p] = blockedValid[p]
      BY <1>4, <2>2 DEF Collect
    <3>. QED  BY <1>0, <2>1, <3>1 DEF InBoundary
  <2>3. CASE p = q /\ check[q][i] = "wrong_tenant"
    <3>1. UNCHANGED <<permitted, blockedValid>>
      BY <1>4, <2>3 DEF Collect, ErrorVerdicts
    <3>. QED  BY <1>0, <2>1, <3>1 DEF InBoundary
  <2>4. CASE p = q /\ check[q][i] = "allowed"
    <3>1. /\ permitted' = [permitted EXCEPT ![q] = Append(permitted[q], cands[q][i])]
          /\ blockedValid' = blockedValid
      BY <1>4, <2>4 DEF Collect, ErrorVerdicts
    <3>2. InBoundary(q, cands[q][i]) /\ cands[q][i] \in seen[q]
      BY <2>1, <2>4 DEF ChecksSound
    <3>3. permitted[q] \in Seq(Chunks) /\ cands[q][i] \in Chunks
      BY <1>4, CollectsCandidate
    <3>4. /\ Len(permitted'[q]) = Len(permitted[q]) + 1
          /\ \A k \in 1..Len(permitted[q]) : permitted'[q][k] = permitted[q][k]
          /\ permitted'[q][Len(permitted[q]) + 1] = cands[q][i]
      BY <3>1, <3>3, AppendProperties
    <3>5. \A k \in 1..Len(permitted'[q]) :
               k \in 1..Len(permitted[q]) \/ k = Len(permitted[q]) + 1
      <4>1. Len(permitted[q]) \in Nat
        BY <3>3, LenProperties
      <4>. QED  BY <3>4, <4>1, IndexSplit
    <3>6. \A k \in 1..Len(permitted'[q]) :
               InBoundary(q, permitted'[q][k]) /\ permitted'[q][k] \in seen'[q]
      BY <1>0, <2>1, <2>4, <3>2, <3>4, <3>5
    <3>7. \A k \in 1..Len(blockedValid'[q]) : InBoundary(q, blockedValid'[q][k])
      BY <1>0, <2>4, <3>1
    <3>8. pc'[q] # "idle"
      BY <2>1
    <3>. QED  BY <2>4, <3>6, <3>7, <3>8 DEF InBoundary
  <2>5. CASE p = q /\ check[q][i] \in {"acl_denied"} \union ErrorVerdicts
    <3>1. /\ blockedValid' = [blockedValid EXCEPT ![q] = Append(blockedValid[q], cands[q][i])]
          /\ permitted' = permitted
      BY <1>4, <2>5 DEF Collect, ErrorVerdicts
    <3>2. InBoundary(q, cands[q][i])
      BY <2>5 DEF ChecksSound, ErrorVerdicts
    <3>3. blockedValid[q] \in Seq(Chunks) /\ cands[q][i] \in Chunks
      BY <1>4, CollectsCandidate
    <3>4. /\ Len(blockedValid'[q]) = Len(blockedValid[q]) + 1
          /\ \A k \in 1..Len(blockedValid[q]) : blockedValid'[q][k] = blockedValid[q][k]
          /\ blockedValid'[q][Len(blockedValid[q]) + 1] = cands[q][i]
      BY <3>1, <3>3, AppendProperties
    <3>5. \A k \in 1..Len(blockedValid'[q]) :
               k \in 1..Len(blockedValid[q]) \/ k = Len(blockedValid[q]) + 1
      <4>1. Len(blockedValid[q]) \in Nat
        BY <3>3, LenProperties
      <4>. QED  BY <3>4, <4>1, IndexSplit
    <3>6. \A k \in 1..Len(blockedValid'[q]) : InBoundary(q, blockedValid'[q][k])
      BY <1>0, <2>5, <3>2, <3>4, <3>5
    <3>7. \A k \in 1..Len(permitted'[q]) :
               InBoundary(q, permitted'[q][k]) /\ permitted'[q][k] \in seen'[q]
      BY <1>0, <2>1, <2>5, <3>1
    <3>8. pc'[q] # "idle"
      BY <2>1
    <3>. QED  BY <2>5, <3>6, <3>7, <3>8 DEF InBoundary
  <2>6. check[q][i] \in Verdicts
    BY <1>4 DEF Collect
  <2>. QED  BY <2>2, <2>3, <2>4, <2>5, <2>6 DEF Verdicts, ErrorVerdicts
<1>5. ASSUME NEW q \in Queries, NEW i \in Positions, CheckStep(q, i) PROVE Sound(p)'
  <2>1. UNCHANGED <<pc, seen, permitted, blockedValid>>
    BY <1>5 DEF CheckStep, CheckWrongTenant, CheckBegin, CheckGivesUp,
                CheckAnswered, CheckErrs, Advance
  <2>. QED  BY <1>0, <2>1 DEF InBoundary
<1>6. CASE PermissionChanges
  <2>1. UNCHANGED <<pc, permitted, blockedValid>> /\ seen[p] \subseteq seen'[p]
    BY <1>6 DEF PermissionChanges
  <2>. QED  BY <1>0, <2>1 DEF InBoundary
<1>. QED  BY <1>1, <1>2, <1>3, <1>4, <1>5, <1>6, StepKinds DEF LoudQueryStep

\* Whatever rerank picks from a sound result set may be disclosed.
LEMMA RerankDisclosable ==
    ASSUME EngineInv, NEW q \in Queries, NEW best \in Rerank(ResultSet(q))
    PROVE  Disclosable(q, best)
<1>1. best \subseteq ResultSet(q)
  BY DEF Rerank
<1>2. \A c \in Range(permitted[q]) : InBoundary(q, c) /\ c \in seen[q]
  <2>1. permitted[q] \in Seq(Chunks)
    BY DEF EngineInv, TypeOK
  <2>2. DOMAIN permitted[q] = 1..Len(permitted[q])
    BY <2>1, LenProperties
  <2>. QED  BY <2>2 DEF EngineInv, ResultsSound, Range
<1>3. \A c \in Range(blockedValid[q]) : InBoundary(q, c)
  <2>1. blockedValid[q] \in Seq(Chunks)
    BY DEF EngineInv, TypeOK
  <2>2. DOMAIN blockedValid[q] = 1..Len(blockedValid[q])
    BY <2>1, LenProperties
  <2>. QED  BY <2>2 DEF EngineInv, ResultsSound, Range
<1>. QED  BY <1>1, <1>2, <1>3 DEF ResultSet, Disclosable

\* Citations stay disclosable: before the audit write they come from rerank,
\* after it they do not change, and the history only grows.
LEMMA CitationsStep == EngineInv /\ [Next]_vars => CitationsSound'
<1> DEFINE Sound(p) ==
               /\ pc[p] = "auditing" => Disclosable(p, reranked[p])
               /\ pc[p] # "done" => cited[p] = {}
               /\ Disclosable(p, cited[p])
<1> SUFFICES ASSUME EngineInv, [Next]_vars, NEW p \in Queries
             PROVE  Sound(p)'
  BY DEF CitationsSound, Disclosable, InBoundary
<1>0. Sound(p)
  BY DEF EngineInv, CitationsSound
<1> USE DEF EngineInv, TypeOK, filterVars, envVars, Goto
<1>1. CASE Quiet
  BY <1>0, <1>1 DEF Quiet, Disclosable, InBoundary
<1>2. ASSUME NEW q \in Queries, Execute(q) PROVE Sound(p)'
  <2>1. UNCHANGED <<config, cited, reranked>> /\ pc[q] = "idle"
    BY <1>2 DEF Execute
  <2>2. CASE p = q
    <3>1. cited[p] = {} /\ pc'[p] # "auditing"
      BY <1>0, <1>2, <2>1, <2>2 DEF Execute, FailClosed
    <3>. QED  BY <2>1, <3>1 DEF Disclosable
  <2>3. CASE p # q
    <3>1. pc'[p] = pc[p] /\ seen'[p] = seen[p]
      BY <1>2, <2>3 DEF Execute, FailClosed
    <3>. QED  BY <1>0, <2>1, <3>1 DEF Disclosable, InBoundary
  <2>. QED  BY <2>2, <2>3
<1>3. ASSUME NEW q \in Queries, RetrieveSucceeds(q) \/ FilterStart(q)
      PROVE  Sound(p)'
  <2>1. /\ UNCHANGED <<config, cited, reranked, seen>>
        /\ pc'[p] = "auditing" => pc[p] = "auditing"
        /\ pc'[p] # "done" => pc[p] # "done"
    BY <1>3 DEF RetrieveSucceeds, FilterStart
  <2>. QED  BY <1>0, <2>1 DEF Disclosable, InBoundary
<1>4. ASSUME NEW q \in Queries, NEW i \in Positions, Collect(q, i) \/ CheckStep(q, i)
      PROVE  Sound(p)'
  <2>1. UNCHANGED <<config, cited, reranked, seen, pc>>
    BY <1>4 DEF Collect, CheckStep, CheckWrongTenant, CheckBegin, CheckGivesUp,
                CheckAnswered, CheckErrs, Advance
  <2>. QED  BY <1>0, <2>1 DEF Disclosable, InBoundary
<1>5. ASSUME NEW q \in Queries, WriteAuditSend(q) PROVE Sound(p)'
  <2>1. /\ UNCHANGED <<config, cited, seen>> /\ pc[q] = "audit"
        /\ pc' = [pc EXCEPT ![q] = "auditing"]
    BY <1>5 DEF WriteAuditSend
  <2>2. PICK best \in Rerank(ResultSet(q)) : reranked' = [reranked EXCEPT ![q] = best]
    BY <1>5 DEF WriteAuditSend
  <2>3. Disclosable(q, best)
    BY <2>2, RerankDisclosable
  <2>4. CASE p = q
    BY <1>0, <2>1, <2>2, <2>3, <2>4 DEF Disclosable, InBoundary
  <2>5. CASE p # q
    BY <1>0, <2>1, <2>2, <2>5 DEF Disclosable, InBoundary
  <2>. QED  BY <2>4, <2>5
<1>6. ASSUME NEW q \in Queries, WriteAuditSucceeds(q) PROVE Sound(p)'
  <2>1. /\ UNCHANGED <<config, reranked, seen>> /\ pc[q] = "auditing"
        /\ pc' = [pc EXCEPT ![q] = "done"]
        /\ cited' = [cited EXCEPT ![q] = reranked[q]]
    BY <1>6 DEF WriteAuditSucceeds
  <2>2. CASE p = q
    BY <1>0, <2>1, <2>2 DEF Disclosable, InBoundary
  <2>3. CASE p # q
    BY <1>0, <2>1, <2>3 DEF Disclosable, InBoundary
  <2>. QED  BY <2>2, <2>3
<1>7. CASE PermissionChanges
  <2>1. UNCHANGED <<config, cited, reranked, pc>> /\ seen[p] \subseteq seen'[p]
    BY <1>7 DEF PermissionChanges
  <2>. QED  BY <1>0, <2>1 DEF Disclosable, InBoundary
<1>. QED  BY <1>1, <1>2, <1>3, <1>4, <1>5, <1>6, <1>7, StepKinds DEF LoudQueryStep

\* Only WriteAuditSucceeds discloses, and it commits the matching row.
LEMMA RecordedStep == EngineInv /\ [Next]_vars => DisclosureRecorded'
<1> SUFFICES ASSUME EngineInv, [Next]_vars, NEW p \in Queries, cited'[p] # {}
             PROVE  \E row \in ledger' :
                        /\ row.query = p
                        /\ row.decision = "allowed"
                        /\ row.allowed = Cardinality(cited'[p])
  BY DEF DisclosureRecorded
<1>0. cited[p] # {} => \E row \in ledger :
                        /\ row.query = p
                        /\ row.decision = "allowed"
                        /\ row.allowed = Cardinality(cited[p])
  BY DEF EngineInv, DisclosureRecorded
<1>1. CASE cited'[p] = cited[p] /\ ledger \subseteq ledger'
  BY <1>0, <1>1
<1>2. ASSUME NEW q \in Queries, WriteAuditSucceeds(q)
      PROVE  \/ cited'[p] = cited[p] /\ ledger \subseteq ledger'
             \/ /\ AuditRow(p) \in ledger' /\ cited'[p] = reranked[p]
  <2>1. /\ cited' = [cited EXCEPT ![q] = reranked[q]]
        /\ ledger' = ledger \union {AuditRow(q)}
    BY <1>2 DEF WriteAuditSucceeds
  <2>. QED  BY <2>1 DEF EngineInv, TypeOK
<1>3. CASE AuditRow(p) \in ledger' /\ cited'[p] = reranked[p]
  <2>1. /\ AuditRow(p).query = p
        /\ AuditRow(p).decision = "allowed"
        /\ AuditRow(p).allowed = Cardinality(reranked[p])
    BY <1>3 DEF AuditRow
  <2>. QED  BY <1>3, <2>1
<1>4. CASE Quiet \/ PermissionChanges
  BY <1>1, <1>4 DEF Quiet, PermissionChanges
<1>5. ASSUME NEW q \in Queries, Execute(q) \/ RetrieveSucceeds(q) \/ FilterStart(q)
                    \/ WriteAuditSend(q)
      PROVE  cited'[p] = cited[p] /\ ledger \subseteq ledger'
  BY <1>5 DEF Execute, RetrieveSucceeds, FilterStart, WriteAuditSend
<1>6. ASSUME NEW q \in Queries, NEW i \in Positions, Collect(q, i) \/ CheckStep(q, i)
      PROVE  cited'[p] = cited[p] /\ ledger \subseteq ledger'
  BY <1>6 DEF Collect, CheckStep, CheckWrongTenant, CheckBegin, CheckGivesUp,
              CheckAnswered, CheckErrs, Advance
<1>7. TypeOK
  BY DEF EngineInv
<1>. QED
  BY <1>1, <1>2, <1>3, <1>4, <1>5, <1>6, <1>7, StepKinds DEF LoudQueryStep

\* EngineInv holds in every reachable state of the engine.
THEOREM EngineInvariant == Spec => []EngineInv
<1>1. Init => EngineInv
  BY SoundInit
<1>2. EngineInv /\ [Next]_vars => EngineInv'
  BY TypeStep, PlacedStep, SeenStep, ChecksStep, ResultsStep, CitationsStep,
     RecordedStep DEF EngineInv
<1>. QED  BY <1>1, <1>2, PTL DEF Spec

\* With enforcement on, no response of any deployment cites a chunk its user
\* could not read at some moment of the query.
THEOREM OnlyReadableCitedHolds == Spec => []OnlyReadableCited
<1>1. EngineInv => OnlyReadableCited
  BY DEF EngineInv, CitationsSound, Disclosable, OnlyReadableCited
<1>. QED  BY <1>1, EngineInvariant, PTL

\* In both modes citations stay inside the tenant and the region.
THEOREM BoundaryHeldHolds == Spec => []BoundaryHeld
<1>1. EngineInv => BoundaryHeld
  BY DEF EngineInv, CitationsSound, Disclosable, BoundaryHeld
<1>. QED  BY <1>1, EngineInvariant, PTL

\* Every response with citations has its committed audit row.
THEOREM DisclosureRecordedHolds == Spec => []DisclosureRecorded
<1>1. EngineInv => DisclosureRecorded
  BY DEF EngineInv
<1>. QED  BY <1>1, EngineInvariant, PTL

-----------------------------------------------------------------------------
(* The circuits *)

\* A circuit is closed exactly while it has fewer failures than its limit.
THEOREM CircuitsConsistentHolds == Spec => []CircuitsConsistent
<1>1. Init => CircuitsConsistent
  <2>1. ASSUME NEW b \in Circuits
        PROVE  /\ Consistent(NewCircuitBreaker, Limit[b])
               /\ Consistent(TrippedCircuitBreaker(Limit[b]), Limit[b])
    BY EngineAssumption DEF Consistent, NewCircuitBreaker, TrippedCircuitBreaker
  <2>2. ASSUME NEW open, NEW b \in Circuits
        PROVE  Consistent(CircuitsFound(open)[b], Limit[b])
    BY <2>1 DEF CircuitsFound
  <2> SUFFICES ASSUME Init, NEW b \in Circuits PROVE Consistent(circuit[b], Limit[b])
    BY DEF CircuitsConsistent, Consistent
  <2>3. PICK open \in Tripped : circuit = CircuitsFound(open)
    BY DEF Init
  <2>. QED  BY <2>2, <2>3
<1>2. TypeOK /\ CircuitsConsistent /\ [Next]_vars => CircuitsConsistent'
  <2> SUFFICES ASSUME TypeOK, CircuitsConsistent, [Next]_vars, NEW b \in Circuits
               PROVE  Consistent(circuit'[b], Limit[b])
    BY DEF CircuitsConsistent, Consistent
  <2>1. /\ circuit[b] \in Breaker /\ Limit[b] \in Nat \ {0}
        /\ Consistent(circuit[b], Limit[b])
    BY EngineAssumption DEF TypeOK, CircuitsConsistent, Consistent
  <2>2. \/ circuit'[b] \in {circuit[b], Allow(circuit[b]), ReportSuccess(circuit[b]),
                            Elapse(circuit[b])}
        \/ circuit'[b] = ReportFailure(circuit[b], Limit[b])
        \/ circuit'[b] = ReportFailure(Allow(circuit[b]), Limit[b])
    <3> USE CircuitNames DEF TypeOK
    <3>1. ASSUME NEW q \in Queries,
                 RetrieveSend(q) \/ RetrieveSucceeds(q) \/ RetrieveFails(q)
          PROVE  \/ circuit'[b] \in {circuit[b], Allow(circuit[b]), ReportSuccess(circuit[b])}
                 \/ circuit'[b] = ReportFailure(circuit[b], Limit[b])
      BY <3>1 DEF RetrieveSend, RetrieveSucceeds, RetrieveFails
    <3>2. ASSUME NEW q \in Queries, FilterStart(q) \/ CollectGivesUp(q) \/ CollectDone(q)
          PROVE  \/ circuit'[b] \in {circuit[b], Allow(circuit[b]), ReportSuccess(circuit[b])}
                 \/ circuit'[b] = ReportFailure(circuit[b], Limit[b])
      BY <3>2 DEF FilterStart, CollectGivesUp, CollectDone
    <3>3. ASSUME NEW q \in Queries, AuditRefused(q) \/ AuditAllowed(q)
                        \/ WriteAuditSucceeds(q) \/ WriteAuditFails(q) \/ FailAuditReturns(q)
          PROVE  \/ circuit'[b] \in {circuit[b], Allow(circuit[b]), ReportSuccess(circuit[b])}
                 \/ circuit'[b] = ReportFailure(circuit[b], Limit[b])
                 \/ circuit'[b] = ReportFailure(Allow(circuit[b]), Limit[b])
      BY <3>3 DEF AuditRefused, AuditAllowed, WriteAuditSucceeds, WriteAuditFails,
                  FailAuditReturns
    <3>4. ASSUME NEW c \in Circuits, WindowElapses(c)
          PROVE  circuit'[b] \in {circuit[b], Elapse(circuit[b])}
      BY <3>4 DEF WindowElapses
    <3>5. ASSUME NEW q \in Queries, Execute(q) \/ RetrieveRefused(q) \/ FilterRefused(q)
                        \/ AclDeadline(q) \/ TotalDeadline(q)
          PROVE  circuit' = circuit
      BY <3>5 DEF Execute, RetrieveRefused, FilterRefused, AclDeadline, TotalDeadline
    <3>6. ASSUME NEW q \in Queries, NEW i \in Positions, Collect(q, i) \/ CheckStep(q, i)
          PROVE  circuit' = circuit
      BY <3>6 DEF Collect, CheckStep, CheckWrongTenant, CheckBegin, CheckGivesUp,
                  CheckAnswered, CheckErrs, Advance
    <3>7. ASSUME PermissionChanges \/ UNCHANGED vars
          PROVE  circuit' = circuit
      BY <3>7 DEF PermissionChanges, vars
    <3>. QED
      BY <3>1, <3>2, <3>3, <3>4, <3>5, <3>6, <3>7
         DEF Next, QueryStep, WriteAuditRefused, WriteAuditSend, FailAuditRefused,
             FailAuditSend
  <2>3. /\ Allow(circuit[b]) \in Breaker
        /\ Consistent(Allow(circuit[b]), Limit[b])
    BY <2>1, BreakerTyping, BreakerConsistency
  <2>. QED  BY <2>1, <2>2, <2>3, BreakerConsistency
<1>. QED  BY <1>1, <1>2, TypeCorrect, PTL DEF Spec

-----------------------------------------------------------------------------
(* The engine implements AccessGate *)

\* Moving the control point of one query moves the phase of that query only.
LEMMA PhaseUpdate ==
    ASSUME TypeOK, NEW q \in Queries, NEW step \in Steps,
           pc' = [pc EXCEPT ![q] = step]
    PROVE  [r \in Queries |-> Phase(pc[r])]'
               = [[r \in Queries |-> Phase(pc[r])] EXCEPT ![q] = Phase(step)]
BY DEF TypeOK

\* A step that only moves q to another control point of the same phase.
LEMMA PhaseKept ==
    ASSUME TypeOK, NEW q \in Queries, NEW step \in Steps \ {"idle", "done"},
           pc' = [pc EXCEPT ![q] = step], pc[q] \notin {"idle", "done"}
    PROVE  [r \in Queries |-> Phase(pc[r])]' = [r \in Queries |-> Phase(pc[r])]
BY DEF TypeOK, Phase

\* A fail-closed end of q closes it with nothing disclosed.
LEMMA ClosesEmpty ==
    ASSUME EngineInv, NEW q \in Queries, pc[q] \notin {"idle", "done"},
           pc' = [pc EXCEPT ![q] = "done"],
           UNCHANGED <<config, acl, seen, cited>>,
           ledger \subseteq ledger',
           \A row \in ledger' \ ledger : row.query = q
    PROVE  Gate!Close(q, {})
<1>1. [r \in Queries |-> Phase(pc[r])]'
          = [[r \in Queries |-> Phase(pc[r])] EXCEPT ![q] = "closed"]
  BY PhaseUpdate DEF EngineInv, Phase, Steps
<1>2. [r \in Queries |-> Phase(pc[r])][q] = "open"
  BY DEF Phase
<1>3. cited' = [cited EXCEPT ![q] = {}]
  BY DEF EngineInv, CitationsSound, TypeOK
<1>. QED  BY <1>1, <1>2, <1>3 DEF Gate!Close

\* Every step of the engine is a step of the gate or leaves it unchanged.
LEMMA GateStep == EngineInv /\ [Next]_vars => [Gate!GateNext]_(Gate!gateVars)
<1> SUFFICES ASSUME EngineInv, [Next]_vars
             PROVE  Gate!GateNext \/ UNCHANGED Gate!gateVars
  OBVIOUS
<1> DEFINE phase == [r \in Queries |-> Phase(pc[r])]
<1> USE DEF filterVars, envVars, Goto
<1>0. TypeOK
  BY DEF EngineInv
<1>1. ASSUME UNCHANGED <<config, acl, seen, cited, ledger>>, phase' = phase
      PROVE  UNCHANGED Gate!gateVars
  BY <1>1 DEF Gate!gateVars
<1>2. ASSUME NEW q \in Queries, Execute(q) PROVE Gate!Ask(q)
  <2>1. PICK step \in {"retrieve", "failaudit"} : pc' = [pc EXCEPT ![q] = step]
    BY <1>2 DEF Execute, FailClosed
  <2>2. phase' = [phase EXCEPT ![q] = "open"]
    BY <1>0, <2>1, PhaseUpdate DEF Phase, Steps
  <2>3. phase[q] = "idle"
    BY <1>2 DEF Execute, Phase
  <2>4. Readable(q, acl) = Gate!ReadableNow(q, acl)
    BY DEF Readable, Gate!ReadableNow
  <2>. QED  BY <1>2, <2>2, <2>3, <2>4 DEF Execute, Gate!Ask
<1>3. ASSUME NEW q \in Queries,
             RetrieveRefused(q) \/ RetrieveSend(q) \/ RetrieveSucceeds(q) \/ RetrieveFails(q)
             \/ FilterRefused(q) \/ FilterStart(q) \/ CollectGivesUp(q) \/ CollectDone(q)
             \/ WriteAuditSend(q) \/ FailAuditSend(q)
      PROVE  UNCHANGED Gate!gateVars
  <2>1. /\ UNCHANGED <<config, acl, seen, cited, ledger>>
        /\ pc[q] \notin {"idle", "done"}
        /\ \E step \in Steps \ {"idle", "done"} : pc' = [pc EXCEPT ![q] = step]
    BY <1>3 DEF RetrieveRefused, RetrieveSend, RetrieveSucceeds, RetrieveFails,
                FilterRefused, FilterStart, CollectGivesUp, CollectDone,
                WriteAuditSend, FailAuditSend, FailClosed, Steps
  <2>2. phase' = phase
    BY <1>0, <2>1, PhaseKept
  <2>. QED  BY <1>1, <2>1, <2>2
<1>4. ASSUME NEW q \in Queries, NEW i \in Positions, Collect(q, i) \/ CheckStep(q, i)
      PROVE  UNCHANGED Gate!gateVars
  <2>1. UNCHANGED <<config, acl, seen, cited, ledger, pc>>
    BY <1>4 DEF Collect, CheckStep, CheckWrongTenant, CheckBegin, CheckGivesUp,
                CheckAnswered, CheckErrs, Advance
  <2>. QED  BY <1>1, <2>1
<1>5. ASSUME NEW q \in Queries,
             WriteAuditRefused(q) \/ WriteAuditFails(q) \/ FailAuditRefused(q)
             \/ FailAuditReturns(q)
      PROVE  Gate!Close(q, {})
  <2>1. /\ pc[q] \notin {"idle", "done"} /\ pc' = [pc EXCEPT ![q] = "done"]
        /\ UNCHANGED <<config, acl, seen, cited>>
    BY <1>5 DEF WriteAuditRefused, WriteAuditFails, FailAuditRefused, FailAuditReturns,
                AuditRefused, FailClosed
  <2>2. ledger' \in {ledger, ledger \union {AuditRow(q)}, ledger \union {FailRow(q)}}
    BY <1>5 DEF WriteAuditRefused, WriteAuditFails, FailAuditRefused, FailAuditReturns,
                AuditRefused
  <2>3. AuditRow(q).query = q /\ FailRow(q).query = q
    BY DEF AuditRow, FailRow
  <2>. QED  BY <2>1, <2>2, <2>3, ClosesEmpty
<1>6. ASSUME NEW q \in Queries, WriteAuditSucceeds(q) PROVE Gate!Close(q, reranked[q])
  <2>1. /\ pc[q] = "auditing" /\ pc' = [pc EXCEPT ![q] = "done"]
        /\ cited' = [cited EXCEPT ![q] = reranked[q]]
        /\ ledger' = ledger \union {AuditRow(q)}
        /\ UNCHANGED <<config, acl, seen>>
    BY <1>6 DEF WriteAuditSucceeds
  <2>2. phase' = [phase EXCEPT ![q] = "closed"] /\ phase[q] = "open"
    BY <1>0, <2>1, PhaseUpdate DEF Phase, Steps
  <2>3. AuditRow(q).query = q /\ AuditRow(q).allowed = Cardinality(reranked[q])
    BY DEF AuditRow
  <2>4. Disclosable(q, reranked[q])
    BY <2>1 DEF EngineInv, CitationsSound
  <2>5. reranked[q] \subseteq {c \in Chunks : InBoundary(q, c)}
    BY <1>0, <2>4 DEF Disclosable, TypeOK
  <2>6. ~config.shadow => reranked[q] \subseteq seen[q]
    BY <2>4 DEF Disclosable
  <2>7. /\ ledger \subseteq ledger'
        /\ \A row \in ledger' \ ledger : row.query = q
        /\ \E row \in ledger' : row.query = q /\ row.allowed = Cardinality(reranked[q])
    BY <2>1, <2>3
  <2>8. UNCHANGED <<~config.shadow, acl, seen>>
    BY <2>1
  <2>. QED  BY <2>1, <2>2, <2>5, <2>6, <2>7, <2>8 DEF Gate!Close
<1>7. ASSUME NEW q \in Queries, AclDeadline(q) \/ TotalDeadline(q)
      PROVE  UNCHANGED Gate!gateVars
  BY <1>1, <1>7 DEF AclDeadline, TotalDeadline
<1>8. ASSUME NEW b \in Circuits, WindowElapses(b) PROVE UNCHANGED Gate!gateVars
  BY <1>1, <1>8 DEF WindowElapses
<1>9. CASE PermissionChanges
  <2>1. \A q \in Queries : phase[q] = "open" <=> pc[q] \notin {"idle", "done"}
    BY DEF Phase
  <2>2. seen' = [q \in Queries |-> IF phase[q] = "open"
                                   THEN seen[q] \union Gate!ReadableNow(q, acl')
                                   ELSE seen[q]]
    BY <1>9, <2>1 DEF PermissionChanges, Readable, Gate!ReadableNow
  <2>3. UNCHANGED <<config, pc, cited, ledger>>
    BY <1>9 DEF PermissionChanges
  <2>4. Gate!ChangePermissions
    BY <2>2, <2>3 DEF Gate!ChangePermissions
  <2>. QED  BY <2>4 DEF Gate!GateNext
<1>10. CASE UNCHANGED vars
  BY <1>1, <1>10 DEF vars
<1>11. ASSUME NEW q \in Queries PROVE {} \subseteq Chunks /\ reranked[q] \subseteq Chunks
  BY <1>0 DEF TypeOK
<1>. QED
  BY <1>2, <1>3, <1>4, <1>5, <1>6, <1>7, <1>8, <1>9, <1>10, <1>11
     DEF Next, QueryStep, Gate!GateNext

\* The engine implements the gate.
THEOREM ImplementsGateHolds == Spec => ImplementsGate
<1>1. Init => Gate!GateInit
  <2> SUFFICES ASSUME Init PROVE Gate!GateInit
    OBVIOUS
  <2>1. [q \in Queries |-> Phase(pc[q])] = [q \in Queries |-> "idle"]
    BY DEF Init, Phase
  <2>2. (~config.shadow) \in BOOLEAN
    OBVIOUS
  <2>. QED  BY <2>1, <2>2 DEF Init, Gate!GateInit
<1>2. EngineInv /\ [Next]_vars => [Gate!GateNext]_(Gate!gateVars)
  BY GateStep
<1>. QED  BY <1>1, <1>2, EngineInvariant, PTL DEF Spec, ImplementsGate, Gate!GateSpec

-----------------------------------------------------------------------------
(* The collector's bookkeeping *)

\* A step that leaves the books of p alone: p stays where it is, moves on
\* before the filter, or leaves for good.
BooksStill(p) ==
    /\ config' = config
    /\ cands'[p] = cands[p] /\ check'[p] = check[p] /\ decisions'[p] = decisions[p]
    /\ permitted'[p] = permitted[p] /\ blockedValid'[p] = blockedValid[p]
    /\ blockedACL'[p] = blockedACL[p] /\ blockedRegion'[p] = blockedRegion[p]
    /\ reranked'[p] = reranked[p]
    /\ \/ pc'[p] = pc[p]
       \/ pc[p] \in BeforeFilter /\ pc'[p] \in BeforeFilter
       \/ pc'[p] \in {"failaudit", "failauditing", "done"}

\* The steps of p that do change its books.
BooksStep(p) ==
    \/ RetrieveSucceeds(p) \/ FilterRefused(p) \/ FilterStart(p)
    \/ \E i \in Positions : CheckStep(p, i) \/ Collect(p, i)
    \/ CollectGivesUp(p) \/ CollectDone(p) \/ WriteAuditSend(p)

\* Only a query's own filter and audit steps change its books.
LEMMA BooksKinds ==
    ASSUME TypeOK, [Next]_vars, NEW p \in Queries
    PROVE  BooksStill(p) \/ BooksStep(p)
<1> USE DEF filterVars, envVars, Goto, TypeOK
<1>1. ASSUME NEW q \in Queries, Execute(q) PROVE BooksStill(p)
  BY <1>1 DEF Execute, FailClosed, BooksStill, BeforeFilter
<1>2. ASSUME NEW q \in Queries, RetrieveRefused(q) \/ RetrieveSend(q) \/ RetrieveFails(q)
      PROVE  BooksStill(p)
  BY <1>2 DEF RetrieveRefused, RetrieveSend, RetrieveFails, FailClosed, BooksStill, BeforeFilter
<1>3. ASSUME NEW q \in Queries, RetrieveSucceeds(q), q # p PROVE BooksStill(p)
  BY <1>3 DEF RetrieveSucceeds, BooksStill
<1>4. ASSUME NEW q \in Queries, FilterRefused(q), q # p PROVE BooksStill(p)
  BY <1>4 DEF FilterRefused, BooksStill
<1>5. ASSUME NEW q \in Queries, FilterStart(q), q # p PROVE BooksStill(p)
  BY <1>5 DEF FilterStart, BooksStill
<1>6. ASSUME NEW q \in Queries, NEW i \in Positions, CheckStep(q, i), q # p
      PROVE  BooksStill(p)
  <2>1. PICK state : Advance(q, i, state)
    BY <1>6 DEF CheckStep, CheckWrongTenant, CheckBegin, CheckGivesUp,
                CheckAnswered, CheckErrs
  <2>. QED  BY <1>6, <2>1 DEF Advance, BooksStill
<1>7. ASSUME NEW q \in Queries, NEW i \in Positions, Collect(q, i), q # p
      PROVE  BooksStill(p)
  BY <1>7 DEF Collect, BooksStill
<1>8. ASSUME NEW q \in Queries, CollectGivesUp(q) \/ CollectDone(q), q # p
      PROVE  BooksStill(p)
  BY <1>8 DEF CollectGivesUp, CollectDone, BooksStill
<1>9. ASSUME NEW q \in Queries, WriteAuditSend(q), q # p PROVE BooksStill(p)
  BY <1>9 DEF WriteAuditSend, BooksStill
<1>10. ASSUME NEW q \in Queries,
              WriteAuditRefused(q) \/ WriteAuditSucceeds(q) \/ WriteAuditFails(q)
       PROVE  BooksStill(p)
  BY <1>10 DEF WriteAuditRefused, WriteAuditSucceeds, WriteAuditFails, AuditRefused,
               FailClosed, BooksStill
<1>11. ASSUME NEW q \in Queries,
              FailAuditRefused(q) \/ FailAuditSend(q) \/ FailAuditReturns(q)
       PROVE  BooksStill(p)
  BY <1>11 DEF FailAuditRefused, FailAuditSend, FailAuditReturns, AuditRefused, BooksStill
<1>12. ASSUME NEW q \in Queries, AclDeadline(q) \/ TotalDeadline(q) PROVE BooksStill(p)
  BY <1>12 DEF AclDeadline, TotalDeadline, BooksStill
<1>13. ASSUME NEW b \in Circuits, WindowElapses(b) PROVE BooksStill(p)
  BY <1>13 DEF WindowElapses, BooksStill
<1>14. CASE PermissionChanges
  BY <1>14 DEF PermissionChanges, BooksStill
<1>15. CASE UNCHANGED vars
  BY <1>15 DEF vars, BooksStill
<1>16. ASSUME NEW q \in Queries, QueryStep(q) PROVE BooksStill(p) \/ BooksStep(p)
  BY <1>2, <1>3, <1>4, <1>5, <1>7, <1>8, <1>9, <1>10, <1>11, <1>16
     DEF QueryStep, BooksStep
<1>. QED
  BY <1>1, <1>6, <1>12, <1>13, <1>14, <1>15, <1>16 DEF Next, BooksStep

\* The parts of the books depend on nothing else.
LEMMA OneDecisionKept ==
    ASSUME NEW p \in Queries, OneDecisionEach(p),
           decisions'[p] = decisions[p], cands'[p] = cands[p],
           Received(p)' = Received(p)
    PROVE  OneDecisionEach(p)'
BY DEF OneDecisionEach

\* Nor do the results move when a step leaves the lists alone.
LEMMA ResultsKept ==
    ASSUME NEW p \in Queries, ResultsPlaced(p),
           permitted'[p] = permitted[p], blockedValid'[p] = blockedValid[p],
           decisions'[p] = decisions[p], cands'[p] = cands[p],
           Received(p)' = Received(p)
    PROVE  ResultsPlaced(p)'
<1>1. \A k \in 1..Len(permitted'[p]) :
          \E i \in Received(p)' : permitted'[p][k] = cands'[p][i]
  BY DEF ResultsPlaced
<1>2. \A j, k \in 1..Len(permitted'[p]) : permitted'[p][j] = permitted'[p][k] => j = k
  BY DEF ResultsPlaced
<1>3. \A k \in 1..Len(permitted'[p]) :
          \E j \in 1..Len(decisions'[p]) :
              decisions'[p][j] = [chunk |-> permitted'[p][k], reason |-> "allowed"]
  BY DEF ResultsPlaced
<1>4. \A k \in 1..Len(blockedValid'[p]) :
          \E i \in Received(p)' : blockedValid'[p][k] = cands'[p][i]
  BY DEF ResultsPlaced
<1>5. \A i \in Received(p)' : InBoundary(p, cands'[p][i]) =>
          \/ \E k \in 1..Len(permitted'[p]) : permitted'[p][k] = cands'[p][i]
          \/ \E k \in 1..Len(blockedValid'[p]) : blockedValid'[p][k] = cands'[p][i]
  BY DEF ResultsPlaced
<1>. QED  BY <1>1, <1>2, <1>3, <1>4, <1>5 DEF ResultsPlaced, InBoundary

\* The count of a step that changed the three lists to known lengths.
LEMMA CountedAs ==
    ASSUME NEW p \in Queries, NEW a \in Nat, NEW b \in Nat, NEW r \in Nat,
           Len(permitted'[p]) = a, blockedACL'[p] = b, blockedRegion'[p] = r
    PROVE  Counted(p)' = a + b + r
BY DEF Counted

\* The first n positions are n.
LEMMA FirstPositions ==
    ASSUME NEW n \in Nat
    PROVE  IsFiniteSet(1..n) /\ Cardinality(1..n) = n
<1>1. IsFiniteSet(1..n) /\ Cardinality(1..n) = IF 1 > n THEN 0 ELSE n - 1 + 1
  BY FS_Interval
<1>. QED  BY <1>1

\* The books survive every step that leaves them alone.
LEMMA BooksStillKept ==
    ASSUME NEW p \in Queries, BooksOf(p), BooksStill(p)
    PROVE  BooksOf(p)'
<1> USE DEF BooksStill, BooksOf
<1>1. CandidatesSound(p)'
  BY DEF CandidatesSound, InBoundary
<1>2. /\ Received(p)' = Received(p) /\ AllReceived(p)' = AllReceived(p)
      /\ Counted(p)' = Counted(p)
  BY DEF Received, AllReceived, Counted
<1>3. NothingCollected(p) => NothingCollected(p)'
  BY DEF NothingCollected
<1>4. OneDecisionEach(p) => OneDecisionEach(p)'
  BY <1>2, OneDecisionKept
<1>5. ResultsPlaced(p) => ResultsPlaced(p)'
  BY <1>2, ResultsKept
<1>. QED  BY <1>1, <1>2, <1>3, <1>4, <1>5 DEF BeforeFilter, Filtered

\* Before the filter no check has been started.
LEMMA NoChecksYet ==
    ASSUME TypeOK, ChecksPlaced, NEW p \in Queries, pc[p] \in BeforeFilter
    PROVE  (\A i \in Positions : check[p][i] = "none") /\ Received(p) = {}
BY DEF ChecksPlaced, Received

\* Received results are results of candidates, and finitely many.
LEMMA ReceivedPlaced ==
    ASSUME TypeOK, ChecksPlaced, NEW p \in Queries
    PROVE  /\ Received(p) \subseteq 1..Len(cands[p])
           /\ IsFiniteSet(Received(p)) /\ Cardinality(Received(p)) \in Nat
<1>1. Len(cands[p]) \in Nat
  BY DEF TypeOK
<1>2. Received(p) \subseteq 1..Len(cands[p])
  BY <1>1, EngineAssumption DEF ChecksPlaced, Received, Positions
<1>3. IsFiniteSet(1..Len(cands[p]))
  BY <1>1, FS_Interval
<1>. QED  BY <1>2, <1>3, FS_Subset, FS_CardinalityType

\* Candidates arrive without duplicates.
LEMMA BooksRetrieve ==
    ASSUME EngineInv, NEW p \in Queries, BooksOf(p), RetrieveSucceeds(p)
    PROVE  BooksOf(p)'
<1>1. TypeOK /\ ChecksPlaced /\ pc[p] \in BeforeFilter
  BY DEF EngineInv, RetrieveSucceeds, BeforeFilter
<1>2. PICK list \in CandidateLists : cands' = [cands EXCEPT ![p] = list]
  BY DEF RetrieveSucceeds
<1>3. list \in Seq(Chunks) /\ \A i, j \in 1..Len(list) : list[i] = list[j] => i = j
  <2>1. PICK n \in 0..MaxCandidates : list \in Injection(1..n, Chunks)
    BY DEF CandidateLists
  <2>2. /\ n \in Nat /\ list \in [1..n -> Chunks]
        /\ \A i, j \in 1..n : list[i] = list[j] => i = j
    BY <2>1, EngineAssumption DEF Injection, IsInjective
  <2>. QED  BY <2>2, TupleIsSeq
<1>4. cands'[p] = list
  BY <1>1, <1>2 DEF TypeOK
<1>5. \A i \in Positions : check'[p][i] = "none"
  BY <1>1, NoChecksYet DEF RetrieveSucceeds, filterVars
<1>6. CandidatesSound(p)'
  BY <1>3, <1>4, <1>5 DEF CandidatesSound
<1>7. NothingCollected(p)'
  BY <1>1 DEF BooksOf, NothingCollected, RetrieveSucceeds, filterVars
<1>8. pc'[p] = "filter"
  BY <1>1 DEF RetrieveSucceeds, Goto, TypeOK
<1>. QED  BY <1>6, <1>7, <1>8 DEF BooksOf, Filtered

\* The open circuit denies every candidate, and no result was received.
LEMMA BooksRefused ==
    ASSUME EngineInv, NEW p \in Queries, BooksOf(p), FilterRefused(p)
    PROVE  BooksOf(p)'
<1>1. /\ TypeOK /\ ChecksPlaced /\ pc[p] \in BeforeFilter
      /\ NothingCollected(p) /\ CandidatesSound(p)
  BY DEF EngineInv, FilterRefused, BeforeFilter, BooksOf
<1>2. /\ UNCHANGED <<check, permitted, blockedValid, blockedRegion, cands>>
      /\ blockedACL'[p] = Len(cands[p]) /\ pc'[p] = "audit"
  BY <1>1 DEF FilterRefused, Goto, TypeOK
<1>3. Received(p) = {} /\ Received(p)' = {}
  BY <1>1, <1>2, NoChecksYet DEF Received
<1>4. Len(cands[p]) \in Nat /\ DOMAIN cands[p] = 1..Len(cands[p])
  BY <1>1, LenProperties DEF TypeOK
<1>5. CandidatesSound(p)'
  BY <1>1, <1>2 DEF CandidatesSound, InBoundary
<1>6. Len(<< >>) = 0 /\ 1..0 = {}
  OBVIOUS
<1>7. ResultsPlaced(p)'
  BY <1>1, <1>2, <1>3, <1>6 DEF NothingCollected, ResultsPlaced
<1>8. Counted(p)' = Len(cands'[p])
  <2>1. Len(permitted'[p]) = 0 /\ blockedRegion'[p] = 0 /\ cands'[p] = cands[p]
    BY <1>1, <1>2, <1>6 DEF NothingCollected
  <2>2. Counted(p)' = 0 + Len(cands[p]) + 0
    BY <1>2, <1>4, <2>1, CountedAs
  <2>. QED  BY <1>4, <2>1, <2>2
<1>9. ASSUME AllReceived(p)' PROVE OneDecisionEach(p)'
  <2>1. DOMAIN cands[p] = {}
    <3>1. \A i \in DOMAIN cands[p] : i \in Positions /\ check[p][i] = "received"
      BY <1>1, <1>2, <1>4, <1>9, EngineAssumption DEF AllReceived, Positions, TypeOK
    <3>. QED  BY <1>3, <3>1 DEF Received
  <2>2. decisions'[p] = [i \in {} |->
            [chunk |-> cands[p][i], reason |-> "acl_circuit_open_fail_closed"]]
    BY <1>1, <2>1 DEF FilterRefused, TypeOK
  <2>3. decisions'[p] \in [1..0 -> Decision]
    BY <1>6, <2>2
  <2>4. Len(decisions'[p]) = 0
    BY <2>3, TupleIsSeq
  <2>. QED  BY <1>3, <1>6, <2>4 DEF OneDecisionEach
<1>. QED  BY <1>2, <1>5, <1>7, <1>8, <1>9 DEF BooksOf, BeforeFilter, Filtered

\* The goroutines start: nothing is received yet.
LEMMA BooksStart ==
    ASSUME EngineInv, NEW p \in Queries, BooksOf(p), FilterStart(p)
    PROVE  BooksOf(p)'
<1>1. /\ TypeOK /\ ChecksPlaced /\ pc[p] \in BeforeFilter
      /\ NothingCollected(p) /\ CandidatesSound(p)
  BY DEF EngineInv, FilterStart, BeforeFilter, BooksOf
<1>2. UNCHANGED <<decisions, permitted, blockedValid, blockedACL, blockedRegion, cands>>
  BY DEF FilterStart
<1>3. pc'[p] = "collect" /\ \A i \in Positions : check'[p][i] \in {"none", "spawned"}
  BY <1>1 DEF FilterStart, Goto, TypeOK
<1>4. Received(p)' = {}
  BY <1>3 DEF Received
<1>5. CandidatesSound(p)'
  BY <1>1, <1>2, <1>3 DEF CandidatesSound
<1>6. NothingCollected(p)'
  BY <1>1, <1>2 DEF NothingCollected
<1>7. Len(<< >>) = 0 /\ 1..0 = {}
  OBVIOUS
<1>8. OneDecisionEach(p)' /\ ResultsPlaced(p)' /\ Counted(p)' = 0
  BY <1>4, <1>6, <1>7 DEF NothingCollected, OneDecisionEach, ResultsPlaced, Counted
<1>9. Len(decisions'[p]) = 0 /\ Cardinality(Received(p)') = 0
  BY <1>4, <1>6, <1>7, FS_EmptySet DEF NothingCollected
<1>. QED  BY <1>3, <1>5, <1>8, <1>9 DEF BooksOf, BeforeFilter, Filtered

\* A goroutine that moves on neither receives nor unreceives a result, and
\* reports "wrong_tenant" only from outside the boundary.
LEMMA BooksCheck ==
    ASSUME EngineInv, NEW p \in Queries, BooksOf(p), NEW i \in Positions, CheckStep(p, i)
    PROVE  BooksOf(p)'
<1>1. TypeOK /\ CandidatesSound(p)
  BY DEF EngineInv, BooksOf
<1>2. check[p][i] # "received"
  BY DEF CheckStep, CheckWrongTenant, CheckBegin, CheckGivesUp, CheckAnswered, CheckErrs
<1>3. PICK state : /\ Advance(p, i, state) /\ state # "received"
                   /\ state = "wrong_tenant" => ~InBoundary(p, cands[p][i])
  BY DEF CheckStep, CheckWrongTenant, CheckBegin, CheckGivesUp, CheckAnswered, CheckErrs
<1>4. UNCHANGED <<decisions, permitted, blockedValid, blockedACL, blockedRegion,
                  config, pc, cands, reranked>>
  BY <1>3 DEF Advance, envVars
<1>5. \A j \in Positions : check'[p][j] = IF j = i THEN state ELSE check[p][j]
  BY <1>1, <1>3 DEF Advance, TypeOK
<1>6. Received(p)' = Received(p)
  BY <1>2, <1>3, <1>5 DEF Received
<1>7. AllReceived(p)' => AllReceived(p)
  <2>1. \A j \in DOMAIN cands[p] : j \in Positions
    BY <1>1, EngineAssumption DEF TypeOK, Positions
  <2>. QED  BY <1>3, <1>4, <1>5, <2>1 DEF AllReceived
<1>8. CandidatesSound(p)'
  BY <1>1, <1>3, <1>4, <1>5 DEF CandidatesSound, InBoundary
<1>9. NothingCollected(p) => NothingCollected(p)'
  BY <1>4 DEF NothingCollected
<1>10. Counted(p)' = Counted(p)
  BY <1>4 DEF Counted
<1>11. OneDecisionEach(p) => OneDecisionEach(p)'
  BY <1>4, <1>6, OneDecisionKept
<1>12. ResultsPlaced(p) => ResultsPlaced(p)'
  BY <1>4, <1>6, ResultsKept
<1>. QED  BY <1>4, <1>6, <1>7, <1>8, <1>9, <1>10, <1>11, <1>12 DEF BooksOf

\* Every result is in: as many were counted as there are candidates.
LEMMA BooksDone ==
    ASSUME EngineInv, NEW p \in Queries, BooksOf(p), CollectDone(p)
    PROVE  BooksOf(p)'
<1>1. /\ TypeOK /\ CandidatesSound(p) /\ pc[p] = "collect"
      /\ OneDecisionEach(p) /\ ResultsPlaced(p)
      /\ Counted(p) = Len(decisions[p]) /\ Len(decisions[p]) = Len(cands[p])
  BY DEF EngineInv, BooksOf, CollectDone, Filtered
<1>2. /\ UNCHANGED <<check, decisions, permitted, blockedValid, blockedACL, blockedRegion,
                     config, cands, reranked>>
      /\ pc'[p] = "audit"
  BY <1>1 DEF CollectDone, filterVars, envVars, Goto, TypeOK
<1>3. Received(p)' = Received(p) /\ Counted(p)' = Counted(p)
  BY <1>2 DEF Received, Counted
<1>4. CandidatesSound(p)'
  BY <1>1, <1>2 DEF CandidatesSound, InBoundary
<1>5. OneDecisionEach(p)'
  BY <1>1, <1>2, <1>3, OneDecisionKept
<1>6. ResultsPlaced(p)'
  BY <1>1, <1>2, <1>3, ResultsKept
<1>. QED  BY <1>1, <1>2, <1>3, <1>4, <1>5, <1>6 DEF BooksOf, BeforeFilter, Filtered

\* The deadline cuts the collector short: the missing results are counted as
\* blocked, and a result is missing, so not every one was received.
LEMMA BooksGiveUp ==
    ASSUME EngineInv, NEW p \in Queries, BooksOf(p), CollectGivesUp(p)
    PROVE  BooksOf(p)'
<1> DEFINE n == Len(decisions[p])
           m == Len(cands[p])
<1>1. /\ TypeOK /\ ChecksPlaced /\ CandidatesSound(p) /\ pc[p] = "collect"
      /\ ResultsPlaced(p) /\ Counted(p) = n /\ n = Cardinality(Received(p)) /\ n < m
  BY DEF EngineInv, BooksOf, CollectGivesUp, Filtered
<1>2. /\ n \in Nat /\ m \in Nat /\ DOMAIN cands[p] = 1..m
      /\ Len(permitted[p]) \in Nat /\ blockedACL[p] \in Nat /\ blockedRegion[p] \in Nat
  BY <1>1, LenProperties DEF TypeOK
<1>3. /\ UNCHANGED <<check, permitted, blockedValid, blockedRegion, config, cands>>
      /\ pc'[p] = "audit" /\ blockedACL'[p] = blockedACL[p] + (m - n)
      /\ decisions'[p] = [i \in 1..m |->
              IF i <= n THEN decisions[p][i]
              ELSE [chunk |-> cands[p][i], reason |-> "acl_timeout_fail_closed"]]
  BY <1>1 DEF CollectGivesUp, envVars, Goto, TypeOK
<1>4. Received(p)' = Received(p)
  BY <1>3 DEF Received
<1>5. CandidatesSound(p)'
  BY <1>1, <1>3 DEF CandidatesSound, InBoundary
<1>6. Counted(p)' = Len(cands'[p])
  <2>1. Len(permitted[p]) + blockedACL[p] + blockedRegion[p] = n
    BY <1>1 DEF Counted
  <2> HIDE DEF n, m
  <2>2. blockedACL[p] + (m - n) \in Nat
    BY <1>1, <1>2
  <2>3. Counted(p)' = Len(permitted[p]) + (blockedACL[p] + (m - n)) + blockedRegion[p]
    <3>1. permitted'[p] = permitted[p] /\ blockedRegion'[p] = blockedRegion[p]
      BY <1>3
    <3>2. blockedACL'[p] = blockedACL[p] + (m - n)
      BY <1>3
    <3>. QED  BY <3>1, <3>2 DEF Counted
  <2>4. Len(permitted[p]) + (blockedACL[p] + (m - n)) + blockedRegion[p] = m
    <3>1. ASSUME NEW a \in Nat, NEW b \in Nat, NEW r \in Nat, NEW x \in Nat, NEW y \in Nat,
                 a + b + r = x
          PROVE  a + (b + (y - x)) + r = y
      BY <3>1
    <3>2. /\ Len(permitted[p]) \in Nat /\ blockedACL[p] \in Nat /\ blockedRegion[p] \in Nat
          /\ n \in Nat /\ m \in Nat
      BY <1>2
    <3>. QED  BY <2>1, <3>1, <3>2
  <2>5. m = Len(cands'[p])
    BY <1>3 DEF m
  <2>. QED  BY <2>3, <2>4, <2>5
<1>7. ~AllReceived(p)'
  <2> SUFFICES ASSUME AllReceived(p)' PROVE FALSE
    OBVIOUS
  <2>1. 1..m \subseteq Received(p)
    BY <1>1, <1>2, <1>3, EngineAssumption DEF AllReceived, Received, Positions, TypeOK
  <2>2. Received(p) = 1..m
    BY <1>1, <2>1, ReceivedPlaced
  <2>3. Cardinality(1..m) = m
    BY <1>2, FirstPositions
  <2>. QED  BY <1>1, <1>2, <2>2, <2>3
<1>8. ResultsPlaced(p)'
  <2>1. n <= Len(decisions'[p]) /\ \A k \in 1..n : decisions'[p][k] = decisions[p][k]
    <3>0. cands[p] \in [1..m -> Chunks] /\ decisions[p] \in [1..n -> Decision]
      BY <1>1, LenProperties DEF TypeOK
    <3>1. decisions'[p] \in [1..m -> Decision]
      BY <1>2, <1>3, <3>0 DEF Decision, Reasons, Verdicts
    <3>2. Len(decisions'[p]) = m
      BY <1>2, <3>1, TupleIsSeq
    <3> HIDE DEF n, m
    <3>3. n <= m /\ \A k \in 1..n : k \in 1..m /\ k <= n
      BY <1>1, <1>2
    <3>4. \A k \in 1..m : k <= n => decisions'[p][k] = decisions[p][k]
      BY <1>3
    <3>. QED  BY <3>2, <3>3, <3>4
  <2>2. \A k \in 1..n : k \in 1..Len(decisions'[p])
    BY <1>1, <1>2, <1>3, <2>1
  <2>3. /\ permitted'[p] = permitted[p] /\ blockedValid'[p] = blockedValid[p]
        /\ cands'[p] = cands[p]
    BY <1>3
  <2>4. \A k \in 1..Len(permitted'[p]) :
            \E j \in 1..Len(decisions'[p]) :
                decisions'[p][j] = [chunk |-> permitted'[p][k], reason |-> "allowed"]
    BY <1>1, <2>1, <2>2, <2>3 DEF ResultsPlaced
  <2>. QED  BY <1>1, <1>4, <2>3, <2>4 DEF ResultsPlaced, InBoundary
<1>. QED  BY <1>3, <1>5, <1>6, <1>7, <1>8 DEF BooksOf, BeforeFilter, Filtered

\* What receiving result i does to the decisions and to the received results.
LEMMA CollectAppends ==
    ASSUME EngineInv, NEW p \in Queries, BooksOf(p), NEW i \in Positions, Collect(p, i)
    PROVE  /\ i \in 1..Len(cands[p]) /\ i \notin Received(p)
           /\ Received(p)' = Received(p) \union {i}
           /\ Len(decisions[p]) \in Nat /\ Len(decisions'[p]) = Len(decisions[p]) + 1
           /\ \A k \in 1..Len(decisions[p]) : decisions'[p][k] = decisions[p][k]
           /\ decisions'[p][Len(decisions[p]) + 1] =
                  [chunk |-> cands[p][i], reason |-> check[p][i]]
<1>1. TypeOK /\ ChecksPlaced
  BY DEF EngineInv
<1>2. check[p][i] \in Verdicts /\ i \in 1..Len(cands[p]) /\ cands[p][i] \in Chunks
  BY <1>1, CollectsCandidate
<1>3. check[p][i] # "received"
  BY <1>2 DEF Verdicts
<1>4. \A j \in Positions : check'[p][j] = IF j = i THEN "received" ELSE check[p][j]
  BY <1>1 DEF Collect, TypeOK
<1>5. i \notin Received(p) /\ Received(p)' = Received(p) \union {i}
  BY <1>3, <1>4 DEF Received
<1>6. /\ decisions[p] \in Seq(Decision)
      /\ [chunk |-> cands[p][i], reason |-> check[p][i]] \in Decision
      /\ decisions'[p] = Append(decisions[p], [chunk |-> cands[p][i], reason |-> check[p][i]])
  BY <1>1, <1>2 DEF Collect, TypeOK, Decision, Reasons
<1>. QED  BY <1>2, <1>5, <1>6, AppendProperties

\* Lists by length: all taken from the positions R of C, without repetition,
\* holding x, and L2 as L with x appended.
From(L, a, C, R) == \A k \in 1..a : \E j \in R : L[k] = C[j]
Distinct(L, a) == \A j, k \in 1..a : L[j] = L[k] => j = k
Holds(L, a, x) == \E k \in 1..a : L[k] = x
Grown(L2, L, a, x) == (\A k \in 1..a : L2[k] = L[k]) /\ L2[a + 1] = x

\* What appending to a list keeps.
LEMMA HoldsGrown ==
    ASSUME NEW a \in Nat, NEW L, NEW L2, NEW x, Grown(L2, L, a, x)
    PROVE  Holds(L2, a + 1, x) /\ \A y : Holds(L, a, y) => Holds(L2, a + 1, y)
<1>1. (a + 1) \in 1..(a + 1) /\ \A k \in 1..a : k \in 1..(a + 1)
  OBVIOUS
<1>2. Holds(L2, a + 1, x)
  BY <1>1 DEF Holds, Grown
<1>3. ASSUME NEW y, Holds(L, a, y) PROVE Holds(L2, a + 1, y)
  <2>1. PICK k \in 1..a : L[k] = y
    BY <1>3 DEF Holds
  <2>2. k \in 1..(a + 1) /\ L2[k] = y
    BY <1>1, <2>1 DEF Grown
  <2>. QED  BY <2>2 DEF Holds
<1>. QED  BY <1>2, <1>3

\* A list of candidates taken from the positions R grows by another candidate.
LEMMA ListGrows ==
    ASSUME NEW m \in Nat, NEW C, NEW R, NEW i \in 1..m, NEW a \in Nat, NEW L, NEW L2,
           R \subseteq 1..m, i \notin R,
           Distinct(C, m), From(L, a, C, R), Grown(L2, L, a, C[i])
    PROVE  /\ From(L2, a + 1, C, R \union {i})
           /\ Distinct(L, a) => Distinct(L2, a + 1)
<1>1. \A k \in 1..(a + 1) : k \in 1..a \/ k = a + 1
  BY IndexSplit
<1>2. ASSUME NEW k \in 1..(a + 1) PROVE \E j \in R \union {i} : L2[k] = C[j]
  BY <1>1 DEF From, Grown
<1>3. ASSUME NEW k \in 1..a PROVE L2[k] # L2[a + 1]
  <2>1. PICK j \in R : L[k] = C[j]
    BY DEF From
  <2>2. C[j] # C[i]
    BY DEF Distinct
  <2>. QED  BY <2>1, <2>2 DEF Grown
<1>4. ASSUME Distinct(L, a), NEW j \in 1..(a + 1), NEW k \in 1..(a + 1), L2[j] = L2[k]
      PROVE  j = k
  <2>1. CASE j \in 1..a /\ k \in 1..a
    <3>1. L[j] = L[k]
      BY <1>4, <2>1 DEF Grown
    <3>. QED  BY <1>4, <2>1, <3>1 DEF Distinct
  <2>2. CASE j = a + 1 \/ k = a + 1
    BY <1>1, <1>3, <1>4, <2>2
  <2>. QED  BY <1>1, <2>1, <2>2
<1>. QED  BY <1>2, <1>4 DEF From, Distinct

\* Receiving a result adds the one decision that is about it.
LEMMA DecisionsCollect ==
    ASSUME EngineInv, NEW p \in Queries, BooksOf(p), NEW i \in Positions, Collect(p, i)
    PROVE  /\ OneDecisionEach(p)'
           /\ Len(decisions'[p]) = Cardinality(Received(p)')
<1> DEFINE n == Len(decisions[p])
           m == Len(cands[p])
           C == cands[p]
           R == Received(p)
           L == [k \in 1..n |-> decisions[p][k].chunk]
           L2 == [k \in 1..(n + 1) |-> decisions'[p][k].chunk]
<1>1. /\ i \in 1..m /\ i \notin R /\ Received(p)' = R \union {i}
      /\ n \in Nat /\ Len(decisions'[p]) = n + 1
      /\ \A k \in 1..n : decisions'[p][k] = decisions[p][k]
      /\ decisions'[p][n + 1] = [chunk |-> C[i], reason |-> check[p][i]]
  BY CollectAppends
<1>2. /\ TypeOK /\ ChecksPlaced /\ OneDecisionEach(p) /\ n = Cardinality(R)
      /\ Distinct(C, m) /\ cands'[p] = C
  BY DEF EngineInv, BooksOf, Collect, CandidatesSound, Distinct
<1>3. R \subseteq 1..m /\ IsFiniteSet(R) /\ m \in Nat
  BY <1>2, ReceivedPlaced DEF TypeOK
<1>4. /\ From(L, n, C, R) /\ Distinct(L, n)
      /\ \A j \in R : Holds(L, n, C[j])
  BY <1>2 DEF OneDecisionEach, From, Holds, Distinct
<1>5. Grown(L2, L, n, C[i])
  BY <1>1 DEF Grown
<1>6. \A k \in 1..(n + 1) : L2[k] = decisions'[p][k].chunk
  OBVIOUS
<1> HIDE DEF n, m, C, R, L, L2
<1>7. From(L2, n + 1, C, R \union {i}) /\ Distinct(L2, n + 1)
  <2>1. i \in 1..m /\ i \notin R /\ n \in Nat
    BY <1>1
  <2>2. Distinct(C, m)
    BY <1>2
  <2>3. R \subseteq 1..m /\ m \in Nat
    BY <1>3
  <2>4. From(L, n, C, R) /\ Distinct(L, n)
    BY <1>4
  <2>. QED  BY <1>5, <2>1, <2>2, <2>3, <2>4, ListGrows
<1>8. \A j \in R \union {i} : Holds(L2, n + 1, C[j])
  BY <1>1, <1>4, <1>5, HoldsGrown
<1>9. OneDecisionEach(p)'
  BY <1>1, <1>2, <1>6, <1>7, <1>8 DEF OneDecisionEach, From, Distinct, Holds
<1>10. Cardinality(R \union {i}) = Cardinality(R) + 1
  BY <1>1, <1>3, FS_AddElement
<1>. QED  BY <1>1, <1>2, <1>9, <1>10

\* Receiving a result puts the candidate in its list, if it has one.
LEMMA ResultsCollect ==
    ASSUME EngineInv, NEW p \in Queries, BooksOf(p), NEW i \in Positions, Collect(p, i)
    PROVE  ResultsPlaced(p)'
<1> DEFINE n == Len(decisions[p])
           m == Len(cands[p])
           C == cands[p]
           R == Received(p)
           P == permitted[p]
           B == blockedValid[p]
           D == decisions[p]
           a == Len(permitted[p])
           b == Len(blockedValid[p])
           P2 == permitted'[p]
           B2 == blockedValid'[p]
           D2 == decisions'[p]
           Allowed(x) == [chunk |-> x, reason |-> "allowed"]
           In(j) == InBoundary(p, C[j])
<1>1. /\ i \in 1..m /\ i \notin R /\ Received(p)' = R \union {i}
      /\ n \in Nat /\ Len(D2) = n + 1
      /\ Grown(D2, D, n, [chunk |-> C[i], reason |-> check[p][i]])
  BY CollectAppends DEF Grown
<1>2. /\ TypeOK /\ ChecksPlaced /\ ResultsPlaced(p) /\ cands'[p] = C
      /\ Distinct(C, m) /\ (check[p][i] = "wrong_tenant" => ~In(i))
  BY DEF EngineInv, BooksOf, Collect, CandidatesSound, Filtered, Distinct
<1>3. /\ P \in Seq(Chunks) /\ B \in Seq(Chunks) /\ C[i] \in Chunks
      /\ a \in Nat /\ b \in Nat /\ m \in Nat /\ R \subseteq 1..m
  BY <1>2, ReceivedPlaced, CollectsCandidate DEF TypeOK
<1>4. /\ From(P, a, C, R) /\ Distinct(P, a) /\ From(B, b, C, R)
      /\ \A k \in 1..a : Holds(D, n, Allowed(P[k]))
      /\ \A j \in R : In(j) => Holds(P, a, C[j]) \/ Holds(B, b, C[j])
  BY <1>2 DEF ResultsPlaced, From, Distinct, Holds
<1>5. \/ check[p][i] = "wrong_tenant" /\ P2 = P /\ B2 = B
      \/ P2 = P /\ B2 = Append(B, C[i])
      \/ check[p][i] = "allowed" /\ P2 = Append(P, C[i]) /\ B2 = B
  BY <1>2 DEF Collect, TypeOK
<1>6. ASSUME NEW a2, NEW b2, Len(P2) = a2, Len(B2) = b2,
             From(P2, a2, C, R \union {i}), Distinct(P2, a2), From(B2, b2, C, R \union {i}),
             \A k \in 1..a2 : Holds(D2, n + 1, Allowed(P2[k])),
             \A j \in R \union {i} : In(j) => Holds(P2, a2, C[j]) \/ Holds(B2, b2, C[j])
      PROVE  ResultsPlaced(p)'
  <2>1. (\A k \in 1..Len(permitted[p]) : \E j \in Received(p) : permitted[p][k] = cands[p][j])'
    BY <1>1, <1>2, <1>6 DEF From
  <2>2. (\A j, k \in 1..Len(permitted[p]) : permitted[p][j] = permitted[p][k] => j = k)'
    BY <1>6 DEF Distinct
  <2>3. (\A k \in 1..Len(permitted[p]) : \E j \in 1..Len(decisions[p]) :
            decisions[p][j] = [chunk |-> permitted[p][k], reason |-> "allowed"])'
    BY <1>1, <1>6 DEF Holds
  <2>4. (\A k \in 1..Len(blockedValid[p]) :
            \E j \in Received(p) : blockedValid[p][k] = cands[p][j])'
    BY <1>1, <1>2, <1>6 DEF From
  <2>5. (\A j \in Received(p) : InBoundary(p, cands[p][j]) =>
            \/ \E k \in 1..Len(permitted[p]) : permitted[p][k] = cands[p][j]
            \/ \E k \in 1..Len(blockedValid[p]) : blockedValid[p][k] = cands[p][j])'
    BY <1>1, <1>2, <1>6 DEF Holds, InBoundary
  <2>. QED  BY <2>1, <2>2, <2>3, <2>4, <2>5 DEF ResultsPlaced
<1>8. Len(P) = a /\ Len(B) = b
  OBVIOUS
<1>9. D2[n + 1] = [chunk |-> C[i], reason |-> check[p][i]] /\ (n + 1) \in 1..(n + 1)
  BY <1>1 DEF Grown
<1>10. check[p][i] = "allowed" => Holds(D2, n + 1, Allowed(C[i]))
  BY <1>9 DEF Holds
<1> HIDE DEF n, m, C, R, P, B, D, a, b, P2, B2, D2, Allowed, In
<1>7. \A k \in 1..a : Holds(D2, n + 1, Allowed(P[k]))
  BY <1>1, <1>4, HoldsGrown
<1>11. From(P, a, C, R \union {i}) /\ From(B, b, C, R \union {i})
  BY <1>4 DEF From
<1>12. CASE check[p][i] = "wrong_tenant" /\ P2 = P /\ B2 = B
  <2>1. \A j \in R \union {i} : In(j) => Holds(P, a, C[j]) \/ Holds(B, b, C[j])
    BY <1>2, <1>4, <1>12
  <2>. QED  BY <1>4, <1>6, <1>7, <1>8, <1>11, <1>12, <2>1
<1>13. CASE P2 = P /\ B2 = Append(B, C[i])
  <2>1. Len(B2) = b + 1 /\ Grown(B2, B, b, C[i])
    BY <1>3, <1>8, <1>13, AppendProperties DEF Grown
  <2>2. From(B2, b + 1, C, R \union {i})
    BY <1>1, <1>2, <1>3, <1>4, <2>1, ListGrows
  <2>3. Holds(B2, b + 1, C[i]) /\ \A j \in R : Holds(B, b, C[j]) => Holds(B2, b + 1, C[j])
    BY <1>3, <2>1, HoldsGrown
  <2>4. \A j \in R \union {i} : In(j) => Holds(P, a, C[j]) \/ Holds(B2, b + 1, C[j])
    BY <1>4, <2>3
  <2>. QED  BY <1>4, <1>6, <1>7, <1>8, <1>11, <1>13, <2>1, <2>2, <2>4
<1>14. CASE check[p][i] = "allowed" /\ P2 = Append(P, C[i]) /\ B2 = B
  <2>1. Len(P2) = a + 1 /\ Grown(P2, P, a, C[i])
    BY <1>3, <1>8, <1>14, AppendProperties DEF Grown
  <2>2. From(P2, a + 1, C, R \union {i}) /\ Distinct(P2, a + 1)
    BY <1>1, <1>2, <1>3, <1>4, <2>1, ListGrows
  <2>3. Holds(P2, a + 1, C[i]) /\ \A j \in R : Holds(P, a, C[j]) => Holds(P2, a + 1, C[j])
    BY <1>3, <2>1, HoldsGrown
  <2>4. \A j \in R \union {i} : In(j) => Holds(P2, a + 1, C[j]) \/ Holds(B, b, C[j])
    BY <1>4, <2>3
  <2>5. ASSUME NEW k \in 1..(a + 1) PROVE Holds(D2, n + 1, Allowed(P2[k]))
    <3>1. CASE k \in 1..a
      BY <1>7, <2>1, <3>1 DEF Grown
    <3>2. CASE k = a + 1
      BY <1>10, <1>14, <2>1, <3>2 DEF Grown
    <3>. QED  BY <1>3, <3>1, <3>2, IndexSplit
  <2>. QED  BY <1>6, <1>8, <1>11, <1>14, <2>1, <2>2, <2>4, <2>5
<1>. QED  BY <1>5, <1>12, <1>13, <1>14

\* Receiving a result keeps the books.
LEMMA BooksCollect ==
    ASSUME EngineInv, NEW p \in Queries, BooksOf(p), NEW i \in Positions, Collect(p, i)
    PROVE  BooksOf(p)'
<1>1. /\ TypeOK /\ CandidatesSound(p) /\ pc[p] = "collect"
      /\ Counted(p) = Len(decisions[p])
  BY DEF EngineInv, BooksOf, Collect
<1>2. OneDecisionEach(p)' /\ Len(decisions'[p]) = Cardinality(Received(p)')
  BY DecisionsCollect
<1>3. ResultsPlaced(p)'
  BY ResultsCollect
<1>4. pc'[p] = "collect" /\ cands'[p] = cands[p]
  BY <1>1 DEF Collect
<1>5. CandidatesSound(p)'
  <2>1. \A j \in Positions : check'[p][j] = IF j = i THEN "received" ELSE check[p][j]
    BY <1>1 DEF Collect, TypeOK
  <2>. QED  BY <1>1, <1>4, <2>1 DEF CandidatesSound, InBoundary
<1>6. Counted(p)' = Len(decisions'[p])
  <2> DEFINE a == Len(permitted[p])
             b == blockedACL[p]
             r == blockedRegion[p]
  <2>1. /\ a \in Nat /\ b \in Nat /\ r \in Nat
        /\ permitted[p] \in Seq(Chunks) /\ cands[p][i] \in Chunks
    BY <1>1, CollectsCandidate DEF TypeOK, EngineInv
  <2>2. \/ permitted'[p] = permitted[p] /\ blockedACL'[p] = b /\ blockedRegion'[p] = r + 1
        \/ permitted'[p] = permitted[p] /\ blockedACL'[p] = b + 1 /\ blockedRegion'[p] = r
        \/ /\ permitted'[p] = Append(permitted[p], cands[p][i])
           /\ blockedACL'[p] = b /\ blockedRegion'[p] = r
    BY <1>1 DEF Collect, TypeOK
  <2>3. Len(Append(permitted[p], cands[p][i])) = a + 1
    BY <2>1, AppendProperties
  <2>4. a + b + r = Len(decisions[p]) /\ Len(decisions'[p]) = Len(decisions[p]) + 1
    BY <1>1, CollectAppends DEF Counted
  <2>5. Counted(p)' = Len(permitted'[p]) + blockedACL'[p] + blockedRegion'[p]
    BY DEF Counted
  <2>6. Len(permitted'[p]) = a \/ Len(permitted'[p]) = a + 1
    BY <2>2, <2>3
  <2>7. Len(permitted'[p]) + blockedACL'[p] + blockedRegion'[p] = a + b + r + 1
    <3>1. CASE permitted'[p] = permitted[p] /\ blockedACL'[p] = b /\ blockedRegion'[p] = r + 1
      <4> HIDE DEF b, r
      <4>1. Len(permitted'[p]) = a
        BY <3>1
      <4> HIDE DEF a
      <4>. QED  BY <2>1, <3>1, <4>1
    <3>2. CASE permitted'[p] = permitted[p] /\ blockedACL'[p] = b + 1 /\ blockedRegion'[p] = r
      <4> HIDE DEF b, r
      <4>1. Len(permitted'[p]) = a
        BY <3>2
      <4> HIDE DEF a
      <4>. QED  BY <2>1, <3>2, <4>1
    <3>3. CASE /\ permitted'[p] = Append(permitted[p], cands[p][i])
               /\ blockedACL'[p] = b /\ blockedRegion'[p] = r
      <4> HIDE DEF b, r
      <4>1. Len(permitted'[p]) = a + 1
        BY <2>3, <3>3
      <4> HIDE DEF a
      <4>. QED  BY <2>1, <3>3, <4>1
    <3>. QED  BY <2>2, <3>1, <3>2, <3>3
  <2>. QED  BY <2>4, <2>5, <2>7
<1>. QED  BY <1>2, <1>3, <1>4, <1>5, <1>6 DEF BooksOf, BeforeFilter, Filtered

\* A list without repetition has as many elements as entries.
LEMMA DistinctRange ==
    ASSUME NEW S, NEW s \in Seq(S), Distinct(s, Len(s))
    PROVE  Cardinality(Range(s)) = Len(s)
<1>1. Len(s) \in Nat /\ DOMAIN s = 1..Len(s) /\ s \in [1..Len(s) -> S]
  BY LenProperties
<1>2. s \in [1..Len(s) -> Range(s)] /\ \A y \in Range(s) : \E k \in 1..Len(s) : s[k] = y
  BY <1>1 DEF Range
<1>3. s \in Injection(1..Len(s), Range(s))
  BY <1>1, <1>2 DEF Injection, IsInjective, Distinct
<1>4. s \in Surjection(1..Len(s), Range(s))
  BY <1>2 DEF Surjection
<1>5. IsFiniteSet(1..Len(s)) /\ Cardinality(1..Len(s)) = Len(s)
  BY <1>1, FirstPositions
<1>. QED  BY <1>3, <1>4, <1>5, FS_Surjection

\* The rerank takes as many of the permitted candidates as it may.
LEMMA BooksSend ==
    ASSUME EngineInv, NEW p \in Queries, BooksOf(p), WriteAuditSend(p)
    PROVE  BooksOf(p)'
<1>1. /\ TypeOK /\ CandidatesSound(p) /\ pc[p] = "audit" /\ ResultsPlaced(p)
      /\ Counted(p) = Len(cands[p]) /\ (AllReceived(p) => OneDecisionEach(p))
  BY DEF EngineInv, BooksOf, WriteAuditSend, Filtered
<1>2. /\ UNCHANGED <<check, decisions, permitted, blockedValid, blockedACL, blockedRegion,
                     config, cands>>
      /\ pc'[p] = "auditing"
  BY <1>1 DEF WriteAuditSend, filterVars, envVars, Goto, TypeOK
<1>3. /\ Received(p)' = Received(p) /\ Counted(p)' = Counted(p)
      /\ AllReceived(p)' = AllReceived(p)
  BY <1>2 DEF Received, Counted, AllReceived
<1>4. CandidatesSound(p)'
  BY <1>1, <1>2 DEF CandidatesSound, InBoundary
<1>5. OneDecisionEach(p) => OneDecisionEach(p)'
  BY <1>2, <1>3, OneDecisionKept
<1>6. ResultsPlaced(p)'
  BY <1>1, <1>2, <1>3, ResultsKept
<1>7. ASSUME ~config.shadow
      PROVE  Cardinality(reranked'[p]) = IF Len(permitted'[p]) <= MaxCitations
                                         THEN Len(permitted'[p]) ELSE MaxCitations
  <2>1. ResultSet(p) = Range(permitted[p])
    BY <1>7 DEF ResultSet
  <2>2. Cardinality(Range(permitted[p])) = Len(permitted[p])
    <3>1. permitted[p] \in Seq(Chunks) /\ Distinct(permitted[p], Len(permitted[p]))
      BY <1>1 DEF TypeOK, ResultsPlaced, Distinct
    <3>. QED  BY <3>1, DistinctRange
  <2>3. reranked'[p] \in Rerank(ResultSet(p))
    BY <1>1 DEF WriteAuditSend, TypeOK
  <2>. QED  BY <1>2, <2>1, <2>2, <2>3 DEF Rerank
<1>8. config' = config /\ cands'[p] = cands[p]
  BY <1>2
<1>. QED  BY <1>1, <1>2, <1>3, <1>4, <1>5, <1>6, <1>7, <1>8 DEF BooksOf, BeforeFilter, Filtered

\* Every step keeps the books of every query.
LEMMA BooksOfStep ==
    ASSUME EngineInv, \A q \in Queries : BooksOf(q), [Next]_vars, NEW p \in Queries
    PROVE  BooksOf(p)'
<1>1. TypeOK /\ BooksOf(p)
  BY DEF EngineInv
<1>2. CASE BooksStill(p)
  BY <1>1, <1>2, BooksStillKept
<1>3. CASE BooksStep(p)
  <2>1. CASE RetrieveSucceeds(p) \/ FilterRefused(p) \/ FilterStart(p)
    BY <1>1, <2>1, BooksRetrieve, BooksRefused, BooksStart
  <2>2. ASSUME NEW i \in Positions, CheckStep(p, i) \/ Collect(p, i) PROVE BooksOf(p)'
    BY <1>1, <2>2, BooksCheck, BooksCollect
  <2>3. CASE CollectGivesUp(p) \/ CollectDone(p) \/ WriteAuditSend(p)
    BY <1>1, <2>3, BooksGiveUp, BooksDone, BooksSend
  <2>. QED  BY <1>3, <2>1, <2>2, <2>3 DEF BooksStep
<1>. QED  BY <1>1, <1>2, <1>3, BooksKinds

\* The row of a finished query accounts for its candidates.
LEMMA RowBalances ==
    ASSUME TypeOK, NEW q \in Queries, BooksOf(q), pc[q] = "auditing", ~config.shadow
    PROVE  LET row == AuditRow(q)
           IN  \/ row.allowed + row.blocked = row.retrieved
               \/ row.allowed = MaxCitations /\ row.allowed + row.blocked < row.retrieved
<1> DEFINE a == Len(permitted[q])
           b == blockedACL[q]
           r == blockedRegion[q]
           m == Len(cands[q])
           c == Cardinality(reranked[q])
<1>1. /\ a \in Nat /\ b \in Nat /\ r \in Nat /\ m \in Nat /\ MaxCitations \in Nat
      /\ a + b + r = m
      /\ c = IF a <= MaxCitations THEN a ELSE MaxCitations
  BY EngineAssumption DEF TypeOK, BooksOf, Counted
<1>2. /\ AuditRow(q).allowed = c /\ AuditRow(q).blocked = b + r
      /\ AuditRow(q).retrieved = m
  BY DEF AuditRow
<1> HIDE DEF a, b, r, m, c
<1>3. c + (b + r) = m \/ (c = MaxCitations /\ c + (b + r) < m)
  BY <1>1
<1>. QED  BY <1>2, <1>3

\* Every step keeps the rows balanced.
LEMMA RowsStep ==
    ASSUME EngineInv, BooksInv, [Next]_vars
    PROVE  RowsAddUp'
<1> DEFINE Balanced(row) ==
               \/ row.allowed + row.blocked = row.retrieved
               \/ row.allowed = MaxCitations /\ row.allowed + row.blocked < row.retrieved
<1>1. TypeOK
  BY DEF EngineInv
<1>2. config' = config
  <2> USE DEF filterVars, envVars
  <2>1. ASSUME NEW q \in Queries, QueryStep(q) PROVE config' = config
    BY <2>1 DEF QueryStep, RetrieveRefused, RetrieveSend, RetrieveSucceeds, RetrieveFails,
                FilterRefused, FilterStart, Collect, CollectGivesUp, CollectDone,
                WriteAuditRefused, WriteAuditSend, WriteAuditSucceeds, WriteAuditFails,
                FailAuditRefused, FailAuditSend, FailAuditReturns, AuditRefused
  <2>2. ASSUME NEW q \in Queries, NEW i \in Positions, CheckStep(q, i) PROVE config' = config
    BY <2>2 DEF CheckStep, CheckWrongTenant, CheckBegin, CheckGivesUp, CheckAnswered,
                CheckErrs, Advance
  <2>. QED
    BY <2>1, <2>2 DEF Next, Execute, AclDeadline, TotalDeadline, WindowElapses,
                      PermissionChanges, vars
<1>3. \/ ledger' = ledger
      \/ \E q \in Queries : pc[q] = "auditing" /\ ledger' = ledger \union {AuditRow(q)}
      \/ \E q \in Queries : ledger' = ledger \union {FailRow(q)}
  <2> USE DEF filterVars, envVars
  <2>1. ASSUME NEW q \in Queries, QueryStep(q),
               ~(WriteAuditSucceeds(q) \/ WriteAuditFails(q) \/ FailAuditReturns(q))
        PROVE  ledger' = ledger
    BY <2>1 DEF QueryStep, RetrieveRefused, RetrieveSend, RetrieveSucceeds, RetrieveFails,
                FilterRefused, FilterStart, Collect, CollectGivesUp, CollectDone,
                WriteAuditRefused, WriteAuditSend, FailAuditRefused, FailAuditSend, AuditRefused
  <2>2. ASSUME NEW q \in Queries, WriteAuditSucceeds(q) \/ WriteAuditFails(q)
        PROVE  pc[q] = "auditing" /\ ledger' \in {ledger, ledger \union {AuditRow(q)}}
    BY <2>2 DEF WriteAuditSucceeds, WriteAuditFails
  <2>3. ASSUME NEW q \in Queries, FailAuditReturns(q)
        PROVE  ledger' \in {ledger, ledger \union {FailRow(q)}}
    BY <2>3 DEF FailAuditReturns
  <2>4. ASSUME NEW q \in Queries, NEW i \in Positions, CheckStep(q, i) PROVE ledger' = ledger
    BY <2>4 DEF CheckStep, CheckWrongTenant, CheckBegin, CheckGivesUp, CheckAnswered,
                CheckErrs, Advance
  <2>. QED
    BY <2>1, <2>2, <2>3, <2>4 DEF Next, Execute, AclDeadline, TotalDeadline, WindowElapses,
                                  PermissionChanges, vars
<1> SUFFICES ASSUME ~config.shadow PROVE \A row \in ledger' : Balanced(row)
  BY <1>2 DEF RowsAddUp
<1>4. \A row \in ledger : Balanced(row)
  BY DEF BooksInv, RowsAddUp
<1>5. ASSUME NEW q \in Queries, pc[q] = "auditing" PROVE Balanced(AuditRow(q))
  BY <1>1, <1>5, RowBalances DEF BooksInv
<1>6. \A q \in Queries : Balanced(FailRow(q))
  <2>1. ASSUME NEW q \in Queries
        PROVE FailRow(q).allowed = 0 /\ FailRow(q).blocked = 0 /\ FailRow(q).retrieved = 0
    BY DEF FailRow
  <2>2. 0 + 0 = 0
    OBVIOUS
  <2>. QED  BY <2>1, <2>2
<1> HIDE DEF Balanced
<1>. QED  BY <1>3, <1>4, <1>5, <1>6

\* The books are in order in every reachable state: EngineInv says what lies
\* in resultCh, BooksInv what the collector made of it.
THEOREM BooksInvariant == Spec => [](EngineInv /\ BooksInv)
<1>1. Init => BooksInv
  <2> SUFFICES ASSUME Init PROVE BooksInv
    OBVIOUS
  <2>1. RowsAddUp
    BY DEF Init, RowsAddUp
  <2>2. ASSUME NEW q \in Queries PROVE BooksOf(q)
    <3>1. /\ pc[q] = "idle" /\ cands[q] = << >> /\ NothingCollected(q)
      BY DEF Init, NothingCollected
    <3>2. \A i \in Positions : check[q][i] = "none"
      <4>1. check = [r \in Queries |-> [i \in Positions |-> "none"]]
        BY DEF Init
      <4>. QED  BY <4>1
    <3>3. Len(<< >>) = 0 /\ 1..0 = {}
      OBVIOUS
    <3>4. CandidatesSound(q)
      BY <3>1, <3>2, <3>3 DEF CandidatesSound
    <3>. QED  BY <3>1, <3>4 DEF BooksOf, BeforeFilter, Filtered
  <2>. QED  BY <2>1, <2>2 DEF BooksInv
<1>2. EngineInv /\ BooksInv /\ [Next]_vars => BooksInv'
  BY BooksOfStep, RowsStep DEF BooksInv
<1>. QED  BY <1>1, <1>2, EngineInvariant, PTL DEF Spec

\* With enforcement on, every audit row accounts for every retrieved candidate.
THEOREM RowsAddUpHolds == Spec => []RowsAddUp
<1>1. EngineInv /\ BooksInv => RowsAddUp
  BY DEF BooksInv
<1>. QED  BY <1>1, BooksInvariant, PTL

\* The candidates are the received ones once every result is in.
LEMMA AllReceivedPositions ==
    ASSUME TypeOK, NEW q \in Queries, AllReceived(q)
    PROVE  \A i \in DOMAIN cands[q] : i \in Received(q)
<1>1. DOMAIN cands[q] = 1..Len(cands[q]) /\ Len(cands[q]) \in Nat
      /\ Len(cands[q]) <= MaxCandidates
  BY LenProperties DEF TypeOK
<1>. QED  BY <1>1, EngineAssumption DEF AllReceived, Received, Positions

\* The decisions a row is about to record justify the answer, in whatever order
\* the results came.
THEOREM DecisionsAttributedHolds == Spec => []DecisionsAttributed
<1>1. ASSUME EngineInv, BooksInv PROVE DecisionsAttributed
  <2> SUFFICES ASSUME NEW q \in Queries, pc[q] \in {"audit", "auditing"}
               PROVE  /\ \A c \in Range(permitted[q]) :
                            [chunk |-> c, reason |-> "allowed"] \in Range(decisions[q])
                      /\ AllReceived(q) => \A c \in Range(cands[q]) :
                            Cardinality({k \in DOMAIN decisions[q] :
                                            decisions[q][k].chunk = c}) = 1
    BY DEF DecisionsAttributed
  <2>1. /\ TypeOK /\ ResultsPlaced(q) /\ (AllReceived(q) => OneDecisionEach(q))
    BY <1>1 DEF EngineInv, BooksInv, BooksOf, Filtered
  <2>2. /\ DOMAIN permitted[q] = 1..Len(permitted[q])
        /\ DOMAIN decisions[q] = 1..Len(decisions[q])
    BY <2>1, LenProperties DEF TypeOK
  <2>3. ASSUME NEW c \in Range(permitted[q])
        PROVE  [chunk |-> c, reason |-> "allowed"] \in Range(decisions[q])
    <3>1. PICK k \in 1..Len(permitted[q]) : permitted[q][k] = c
      BY <2>2 DEF Range
    <3>2. PICK j \in 1..Len(decisions[q]) :
                decisions[q][j] = [chunk |-> c, reason |-> "allowed"]
      BY <2>1, <3>1 DEF ResultsPlaced
    <3>. QED  BY <2>2, <3>2 DEF Range
  <2>4. ASSUME AllReceived(q), NEW c \in Range(cands[q])
        PROVE  Cardinality({k \in DOMAIN decisions[q] : decisions[q][k].chunk = c}) = 1
    <3>1. PICK i \in Received(q) : cands[q][i] = c
      BY <2>1, <2>4, AllReceivedPositions DEF Range
    <3>2. OneDecisionEach(q)
      BY <2>1, <2>4
    <3>3. PICK k \in 1..Len(decisions[q]) : decisions[q][k].chunk = c
      BY <3>1, <3>2 DEF OneDecisionEach
    <3>4. \A j \in 1..Len(decisions[q]) : decisions[q][j].chunk = c => j = k
      BY <3>2, <3>3 DEF OneDecisionEach
    <3>5. {j \in DOMAIN decisions[q] : decisions[q][j].chunk = c} = {k}
      BY <2>2, <3>3, <3>4
    <3>. QED  BY <3>5, FS_Singleton
  <2>. QED  BY <2>3, <2>4
<1>. QED  BY <1>1, BooksInvariant, PTL

\* Shadow mode returns what is inside the boundary: nothing else, and all of it
\* once every result was received.
THEOREM ShadowComparesAllHolds == Spec => []ShadowComparesAll
<1>1. ASSUME EngineInv, BooksInv PROVE ShadowComparesAll
  <2> SUFFICES ASSUME config.shadow, NEW q \in Queries, pc[q] \in {"audit", "auditing"}
               PROVE  LET inside == {c \in Range(cands[q]) : InBoundary(q, c)}
                      IN  /\ ResultSet(q) \subseteq inside
                          /\ AllReceived(q) => inside \subseteq ResultSet(q)
    BY DEF ShadowComparesAll
  <2> DEFINE inside == {c \in Range(cands[q]) : InBoundary(q, c)}
  <2>1. TypeOK /\ ChecksPlaced /\ ResultsPlaced(q) /\ ResultsSound
    BY <1>1 DEF EngineInv, BooksInv, BooksOf, Filtered
  <2>2. /\ DOMAIN permitted[q] = 1..Len(permitted[q])
        /\ DOMAIN blockedValid[q] = 1..Len(blockedValid[q])
        /\ DOMAIN cands[q] = 1..Len(cands[q])
        /\ Received(q) \subseteq 1..Len(cands[q])
    BY <2>1, LenProperties, ReceivedPlaced DEF TypeOK
  <2>3. ResultSet(q) = Range(permitted[q]) \union Range(blockedValid[q])
    BY DEF ResultSet
  <2>4. ASSUME NEW c \in ResultSet(q) PROVE c \in inside
    <3>1. CASE c \in Range(permitted[q])
      <4>1. PICK k \in 1..Len(permitted[q]) : permitted[q][k] = c
        BY <2>2, <3>1 DEF Range
      <4>2. InBoundary(q, c)
        BY <2>1, <4>1 DEF ResultsSound
      <4>3. \E i \in Received(q) : c = cands[q][i]
        BY <2>1, <4>1 DEF ResultsPlaced
      <4>. QED  BY <2>2, <4>2, <4>3 DEF Range
    <3>2. CASE c \in Range(blockedValid[q])
      <4>1. PICK k \in 1..Len(blockedValid[q]) : blockedValid[q][k] = c
        BY <2>2, <3>2 DEF Range
      <4>2. InBoundary(q, c)
        BY <2>1, <4>1 DEF ResultsSound
      <4>3. \E i \in Received(q) : c = cands[q][i]
        BY <2>1, <4>1 DEF ResultsPlaced
      <4>. QED  BY <2>2, <4>2, <4>3 DEF Range
    <3>. QED  BY <2>3, <3>1, <3>2
  <2>5. ASSUME AllReceived(q), NEW c \in inside PROVE c \in ResultSet(q)
    <3>1. PICK i \in Received(q) : cands[q][i] = c
      BY <2>1, <2>5, AllReceivedPositions DEF Range
    <3>2. \/ \E k \in 1..Len(permitted[q]) : permitted[q][k] = c
          \/ \E k \in 1..Len(blockedValid[q]) : blockedValid[q][k] = c
      BY <2>1, <2>5, <3>1 DEF ResultsPlaced
    <3>. QED  BY <2>2, <2>3, <3>2 DEF Range
  <2>. QED  BY <2>4, <2>5
<1>. QED  BY <1>1, BooksInvariant, PTL

=============================================================================
