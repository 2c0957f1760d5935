------------------------- MODULE AuditLedgerProofs --------------------------
(***************************************************************************)
(* Proofs about AuditLedger, for every number of writers, tenants, ids and *)
(* clock ticks: the stored digests recompute, and the rows of a tenant are *)
(* one tree.  The argument is the inductive invariant LedgerInv: the lock  *)
(* excludes, so the previous hash read under it is still that of a row of  *)
(* the tenant when the row that links to it is committed.  ChainInv adds   *)
(* what the verifier needs: it accepts exactly the ledgers committed in    *)
(* the order of their stamps, and reports a change of an inner row.        *)
(***************************************************************************)
EXTENDS AuditLedger, SequenceTheorems, TLAPS

\* Truncating twice is truncating once, for every resolution.
LEMMA TruncateTwice ==
    ASSUME NEW t \in Nat
    PROVE  Normalize(t) \in Nat /\ Stored(Normalize(t)) = Normalize(t)
<1> DEFINE R == Resolution
           q == t \div R
<1>0. R \in Nat \ {0}
  BY LedgerAssumption
<1>1. t = R * q + (t % R) /\ q \in Nat /\ t % R \in Nat
  BY <1>0
<1>2. t - (t % R) = R * q
  BY <1>0, <1>1
<1>3. (R * q) % R = 0
  <2>1. \A k \in Nat : (R * k) % R = 0
    BY <1>0
  <2>. QED  BY <1>1, <2>1
<1>4. (t - (t % R)) % R = 0
  BY <1>2, <1>3
<1>5. t - (t % R) \in Nat
  BY <1>0
<1>. QED  BY <1>0, <1>4, <1>5 DEF Normalize, Stored

\* A digest is not the empty previous hash.
LEMMA DigestNotRoot == \A r : ComputeDigest(r) # Root
BY DEF ComputeDigest, Root

\* The table is a sequence.
TableIsSeq == \E S : table \in Seq(S)

\* Committing puts one row behind the others.
LEMMA TableAppend ==
    ASSUME TableIsSeq, NEW r, table' = Append(table, r)
    PROVE  /\ TableIsSeq'
           /\ Len(table) \in Nat /\ DOMAIN table = 1..Len(table)
           /\ DOMAIN table' = 1..(Len(table) + 1)
           /\ table'[Len(table) + 1] = r
           /\ \A k \in DOMAIN table : table'[k] = table[k]
<1>1. PICK S : table \in Seq(S)
  BY DEF TableIsSeq
<1> DEFINE T == S \union {r}
<1>2. table \in Seq(T)
  BY <1>1, SeqDef
<1>3. table' \in Seq(T)
  BY <1>2
<1>. QED  BY <1>2, <1>3, AppendProperties DEF TableIsSeq

\* The rows of a tenant after a commit.
LEMMA RowsAppend ==
    ASSUME TableIsSeq, NEW r, table' = Append(table, r), NEW t
    PROVE  Rows(t)' = IF r.tenant = t THEN Rows(t) \union {r} ELSE Rows(t)
<1>1. /\ Len(table) \in Nat /\ DOMAIN table = 1..Len(table)
      /\ DOMAIN table' = 1..(Len(table) + 1)
      /\ table'[Len(table) + 1] = r
      /\ \A k \in DOMAIN table : table'[k] = table[k]
  BY TableAppend
<1>2. DOMAIN table' = DOMAIN table \union {Len(table) + 1}
  BY <1>1
<1>3. \A x : x \in Rows(t)' <=> \E k \in DOMAIN table' : table'[k].tenant = t /\ x = table'[k]
  BY DEF Rows
<1>4. \A x : x \in Rows(t) <=> \E k \in DOMAIN table : table[k].tenant = t /\ x = table[k]
  BY DEF Rows
<1>5. \A x : x \in Rows(t)' <=> (x \in Rows(t) \/ (r.tenant = t /\ x = r))
  BY <1>1, <1>2, <1>3, <1>4
<1>. HIDE DEF Rows
<1>. QED  BY <1>5

\* While the table does not change, its rows do not.
LEMMA RowsKept == UNCHANGED table => \A t : Rows(t)' = Rows(t)
BY DEF Rows

-----------------------------------------------------------------------------
(* Types *)

\* The initial states satisfy the invariant.
LEMMA LedgerInit == Init => LedgerInv /\ TableIsSeq
<1> SUFFICES ASSUME Init PROVE LedgerInv /\ TableIsSeq
  OBVIOUS
<1>1. TableIsSeq /\ DOMAIN table = {}
  <2>1. table \in Seq({})
    BY DEF Init
  <2>. QED  BY <2>1 DEF Init, TableIsSeq
<1>2. \A t : Rows(t) = {}
  BY <1>1 DEF Rows
<1>3. TypeOK
  BY <1>1, LedgerAssumption DEF Init, TypeOK, Steps
<1>4. LockHeld /\ PrevFresh /\ PendingSound
  BY DEF Init, LockHeld, PrevFresh, PendingSound, InTransaction
<1>5. IdsUnique /\ RowsSound /\ OneRoot /\ LinksResolve
  BY <1>1 DEF Init, IdsUnique, RowsSound, OneRoot, LinksResolve
<1>6. NewestExists
  BY <1>2 DEF NewestExists
<1>. QED  BY <1>1, <1>3, <1>4, <1>5, <1>6 DEF LedgerInv

\* Every step preserves the types, and the table stays a sequence.
LEMMA LedgerTypeStep == TypeOK /\ TableIsSeq /\ [Next]_vars => TypeOK' /\ TableIsSeq'
<1> SUFFICES ASSUME TypeOK, TableIsSeq, [Next]_vars PROVE TypeOK' /\ TableIsSeq'
  OBVIOUS
<1> USE LedgerAssumption
<1>1. CASE Tick
  BY <1>1 DEF Tick, TypeOK, TableIsSeq
<1>2. ASSUME NEW w \in Writers, Start(w) \/ Begin(w) PROVE TypeOK' /\ TableIsSeq'
  <2>1. CASE Start(w)
    BY <2>1 DEF Start, TypeOK, TableIsSeq, Steps
  <2>2. CASE Begin(w)
    BY <2>2 DEF Begin, TypeOK, TableIsSeq, Steps
  <2>. QED  BY <1>2, <2>1, <2>2
<1>3. ASSUME NEW w \in Writers, AcquireLock(w) \/ ReadPrev(w) PROVE TypeOK' /\ TableIsSeq'
  <2>1. CASE AcquireLock(w)
    BY <2>1 DEF AcquireLock, TypeOK, TableIsSeq, Steps
  <2>2. CASE ReadPrev(w)
    <3>1. DOMAIN prev' = Writers
      BY <2>2 DEF ReadPrev, TypeOK
    <3>2. /\ pc' = [pc EXCEPT ![w] = "inserting"]
          /\ UNCHANGED <<clock, started, holder, pending, table>>
      BY <2>2 DEF ReadPrev
    <3>. QED  BY <3>1, <3>2 DEF TypeOK, TableIsSeq, Steps, RowOK
  <2>. QED  BY <1>3, <2>1, <2>2
<1>4. ASSUME NEW w \in Writers, Insert(w) PROVE TypeOK' /\ TableIsSeq'
  <2>1. PICK id \in Ids : pending' = [pending EXCEPT ![w] =
                  [trace |-> w, tenant |-> TenantOf[w], body |-> "original",
                   stamp |-> Stored(Normalize(started[w])), prev |-> prev[w], id |-> id,
                   digest |-> ComputeDigest([trace |-> w, tenant |-> TenantOf[w],
                                body |-> "original", stamp |-> Normalize(started[w]),
                                prev |-> prev[w]])]]
    BY <1>4 DEF Insert
  <2>2. Stored(Normalize(started[w])) \in Nat
    BY TruncateTwice DEF TypeOK
  <2>3. RowOK(pending'[w])
    BY <2>1, <2>2 DEF RowOK, TypeOK
  <2>4. \A v \in Writers \ {w} : pending'[v] = pending[v] /\ pc'[v] = pc[v]
    BY <1>4, <2>1 DEF Insert, TypeOK
  <2>5. \A v \in Writers : pc'[v] = "committing" => RowOK(pending'[v])
    BY <2>3, <2>4 DEF TypeOK
  <2>. QED  BY <1>4, <2>1, <2>5 DEF Insert, TypeOK, TableIsSeq, Steps, RowOK
<1>5. ASSUME NEW w \in Writers, Commit(w) PROVE TypeOK' /\ TableIsSeq'
  <2>1. table' = Append(table, pending[w])
    BY <1>5 DEF Commit
  <2>2. RowOK(pending[w])
    BY <1>5 DEF Commit, TypeOK
  <2>3. TableIsSeq' /\ \A k \in DOMAIN table' : RowOK(table'[k])
    <3>1. /\ TableIsSeq' /\ Len(table) \in Nat /\ DOMAIN table = 1..Len(table)
          /\ DOMAIN table' = 1..(Len(table) + 1)
          /\ table'[Len(table) + 1] = pending[w]
          /\ \A k \in DOMAIN table : table'[k] = table[k]
      BY <2>1, TableAppend
    <3>2. DOMAIN table' = DOMAIN table \union {Len(table) + 1}
      BY <3>1
    <3>. QED  BY <2>2, <3>1, <3>2 DEF TypeOK
  <2>4. \A v \in Writers : pc'[v] = "committing" => RowOK(pending'[v])
    BY <1>5 DEF Commit, TypeOK, Steps
  <2>5. pc' \in [Writers -> Steps] /\ holder' \in [Tenants -> SUBSET Writers]
        /\ DOMAIN pending' = Writers
    BY <1>5 DEF Commit, Release, TypeOK, Steps
  <2>. QED  BY <1>5, <2>3, <2>4, <2>5 DEF Commit, TypeOK, RowOK
<1>6. ASSUME NEW w \in Writers, Abort(w) PROVE TypeOK' /\ TableIsSeq'
  <2>1. \A v \in Writers : pc'[v] = "committing" => RowOK(pending'[v])
    BY <1>6 DEF Abort, TypeOK, Steps
  <2>. QED  BY <1>6, <2>1 DEF Abort, Release, TypeOK, TableIsSeq, Steps, RowOK
<1>7. CASE UNCHANGED vars
  BY <1>7 DEF vars, TypeOK, TableIsSeq, RowOK
<1>. QED  BY <1>1, <1>2, <1>3, <1>4, <1>5, <1>6, <1>7 DEF Next, WriteStep

\* AuditLedger is type correct.
THEOREM LedgerTypeCorrect == Spec => []TypeOK
<1>1. Init => TypeOK /\ TableIsSeq
  BY LedgerInit DEF LedgerInv
<1>2. (TypeOK /\ TableIsSeq) /\ [Next]_vars => (TypeOK /\ TableIsSeq)'
  BY LedgerTypeStep
<1>. QED  BY <1>1, <1>2, PTL DEF Spec

-----------------------------------------------------------------------------
(* The lock, and what is read under it *)

\* Only AcquireLock enters a transaction, and the lock must be free.
LEMMA LockStep == TypeOK /\ LockHeld /\ [Next]_vars => LockHeld'
<1> SUFFICES ASSUME TypeOK, LockHeld, [Next]_vars, NEW v \in Writers, pc'[v] \in InTransaction
             PROVE  holder'[TenantOf[v]] = {v}
  BY DEF LockHeld
<1> USE LedgerAssumption
<1>0. /\ pc \in [Writers -> Steps] /\ holder \in [Tenants -> SUBSET Writers]
      /\ TenantOf[v] \in Tenants
  BY DEF TypeOK
<1>1. CASE pc[v] \in InTransaction /\ holder'[TenantOf[v]] = holder[TenantOf[v]]
  BY <1>1 DEF LockHeld
<1>2. ASSUME NEW w \in Writers, AcquireLock(w) PROVE holder'[TenantOf[v]] = {v}
  <2>1. CASE w = v
    BY <1>0, <1>2, <2>1 DEF AcquireLock
  <2>2. CASE w # v
    <3>1. pc[v] \in InTransaction
      BY <1>0, <1>2, <2>2 DEF AcquireLock
    <3>2. holder[TenantOf[v]] = {v} /\ holder[TenantOf[w]] = {}
      BY <1>2, <3>1 DEF LockHeld, AcquireLock
    <3>3. TenantOf[v] # TenantOf[w]
      BY <3>2
    <3>. QED  BY <1>0, <1>2, <3>2, <3>3 DEF AcquireLock
  <2>. QED  BY <2>1, <2>2
<1>3. ASSUME NEW w \in Writers, Commit(w) \/ Abort(w) PROVE holder'[TenantOf[v]] = {v}
  <2>1. w # v /\ pc[v] \in InTransaction
    BY <1>0, <1>3 DEF Commit, Abort, InTransaction
  <2>2. holder[TenantOf[v]] = {v}
    BY <2>1 DEF LockHeld
  <2>3. holder' = Release(w)
    BY <1>3 DEF Commit, Abort
  <2>. QED  BY <1>0, <2>1, <2>2, <2>3 DEF Release
<1>4. ASSUME NEW w \in Writers, Start(w) \/ Begin(w) PROVE holder'[TenantOf[v]] = {v}
  <2>1. pc[v] \in InTransaction /\ holder' = holder
    BY <1>0, <1>4 DEF Start, Begin, InTransaction
  <2>. QED  BY <1>1, <2>1
<1>5. ASSUME NEW w \in Writers, ReadPrev(w) \/ Insert(w) PROVE holder'[TenantOf[v]] = {v}
  <2>1. /\ holder' = holder /\ pc[w] \in InTransaction
        /\ \E step \in Steps : pc' = [pc EXCEPT ![w] = step]
    BY <1>5 DEF ReadPrev, Insert, InTransaction, Steps
  <2>2. pc[v] \in InTransaction
    BY <1>0, <2>1
  <2>. QED  BY <1>1, <2>1, <2>2
<1>6. CASE Tick \/ UNCHANGED vars
  BY <1>1, <1>6 DEF Tick, vars
<1>. QED  BY <1>2, <1>3, <1>4, <1>5, <1>6 DEF Next, WriteStep

\* Two transactions of one tenant are one.
LEMMA Exclusive ==
    ASSUME LockHeld, NEW v \in Writers, NEW w \in Writers, pc[v] \in InTransaction,
           pc[w] \in InTransaction, TenantOf[v] = TenantOf[w]
    PROVE  v = w
<1>1. holder[TenantOf[v]] = {v} /\ holder[TenantOf[w]] = {w}
  BY DEF LockHeld
<1>. QED  BY <1>1

\* A step that commits nothing keeps everything said of the table alone.
LEMMA TableKept ==
    ASSUME LedgerInv, UNCHANGED table
    PROVE  NewestExists' /\ RowsSound' /\ OneRoot' /\ LinksResolve'
<1>1. \A t : Rows(t)' = Rows(t)
  BY RowsKept
<1>2. NewestExists'
  BY <1>1 DEF LedgerInv, NewestExists
<1>. QED  BY <1>2 DEF LedgerInv, RowsSound, OneRoot, LinksResolve

\* What is said of writer v holds after any step that leaves v and the
\* table alone.
LEMMA WriterKept ==
    ASSUME LedgerInv, UNCHANGED table, NEW v \in Writers, pc'[v] = pc[v],
           prev'[v] = prev[v], pending'[v] = pending[v]
    PROVE  /\ pc'[v] \in {"inserting", "committing"} =>
                 IF Rows(TenantOf[v])' = {} THEN prev'[v] = Root
                 ELSE \E r \in Rows(TenantOf[v])' : prev'[v] = r.digest
           /\ pc'[v] = "committing" =>
                 /\ pending'[v].prev = prev'[v] /\ pending'[v].tenant = TenantOf[v]
                 /\ pending'[v].digest = ComputeDigest(pending'[v])
                 /\ \A k \in DOMAIN table' : table'[k].id # pending'[v].id
<1>1. Rows(TenantOf[v])' = Rows(TenantOf[v])
  BY RowsKept
<1>2. pc'[v] = "committing" =>
                 /\ pending'[v].prev = prev'[v] /\ pending'[v].tenant = TenantOf[v]
                 /\ pending'[v].digest = ComputeDigest(pending'[v])
                 /\ \A k \in DOMAIN table' : table'[k].id # pending'[v].id
  <2>1. pc[v] = "committing" =>
           /\ pending[v].prev = prev[v] /\ pending[v].tenant = TenantOf[v]
           /\ pending[v].digest = ComputeDigest(pending[v])
    BY DEF LedgerInv, PendingSound
  <2>2. pc[v] = "committing" => \A k \in DOMAIN table : table[k].id # pending[v].id
    BY DEF LedgerInv, IdsUnique
  <2>. QED  BY <2>1, <2>2
<1>3. pc[v] \in {"inserting", "committing"} =>
                 IF Rows(TenantOf[v]) = {} THEN prev[v] = Root
                 ELSE \E r \in Rows(TenantOf[v]) : prev[v] = r.digest
  BY DEF LedgerInv, PrevFresh
<1>. QED  BY <1>1, <1>2, <1>3

-----------------------------------------------------------------------------
(* The steps that matter: reading, inserting, committing *)

\* The part of LedgerInv that is about the writers' own state.
WritersInv == IdsUnique /\ PrevFresh /\ PendingSound

\* Steps that read, insert and commit nothing.
LEMMA QuietStep ==
    ASSUME LedgerInv, UNCHANGED table,
           \A v \in Writers : \/ pc'[v] \notin {"inserting", "committing"}
                              \/ pc'[v] = pc[v] /\ prev'[v] = prev[v] /\ pending'[v] = pending[v]
    PROVE  WritersInv'
<1>1. PrevFresh'
  BY WriterKept DEF PrevFresh
<1>2. PendingSound'
  BY WriterKept DEF PendingSound, ComputeDigest
<1>3. IdsUnique'
  BY DEF LedgerInv, IdsUnique
<1>. QED  BY <1>1, <1>2, <1>3 DEF WritersInv

\* The newest row exists, so the previous hash read is a row's digest.
LEMMA ReadPrevStep ==
    ASSUME LedgerInv, NEW w \in Writers, ReadPrev(w) PROVE WritersInv'
<1> DEFINE S == Rows(TenantOf[w])
<1>0. pc \in [Writers -> Steps] /\ DOMAIN prev = Writers /\ TenantOf[w] \in Tenants
  BY LedgerAssumption DEF LedgerInv, TypeOK
<1>1. /\ pc' = [pc EXCEPT ![w] = "inserting"] /\ UNCHANGED <<pending, table>>
      /\ prev' = [prev EXCEPT ![w] = IF S = {} THEN Root ELSE Newest(S).digest]
  BY DEF ReadPrev
<1>2. \A v \in Writers \ {w} : pc'[v] = pc[v] /\ prev'[v] = prev[v] /\ pending'[v] = pending[v]
  BY <1>0, <1>1
<1>3. pc'[w] = "inserting" /\ prev'[w] = IF S = {} THEN Root ELSE Newest(S).digest
  BY <1>0, <1>1
<1>4. S # {} => Newest(S) \in S
  <2>1. S # {} => \E r \in S : \A s \in S \ {r} : Precedes(s, r)
    BY <1>0 DEF LedgerInv, NewestExists
  <2>. HIDE DEF S
  <2>. QED  BY <2>1 DEF Newest
<1>5. Rows(TenantOf[w])' = S
  BY <1>1, RowsKept
<1>6. PrevFresh'
  <2> SUFFICES ASSUME NEW v \in Writers, pc'[v] \in {"inserting", "committing"}
               PROVE  IF Rows(TenantOf[v])' = {} THEN prev'[v] = Root
                      ELSE \E r \in Rows(TenantOf[v])' : prev'[v] = r.digest
    BY DEF PrevFresh
  <2>1. CASE v = w
    <3>. HIDE DEF S
    <3>. QED  BY <1>3, <1>4, <1>5, <2>1
  <2>2. CASE v # w
    BY <1>1, <1>2, <2>2, WriterKept
  <2>. QED  BY <2>1, <2>2
<1>7. PendingSound'
  BY <1>1, <1>2, <1>3, WriterKept DEF PendingSound, ComputeDigest
<1>8. IdsUnique'
  <2>1. \A v \in Writers : pc'[v] = "committing" => pc[v] = "committing"
    BY <1>2, <1>3
  <2>. QED  BY <1>1, <2>1 DEF LedgerInv, IdsUnique
<1>. QED  BY <1>6, <1>7, <1>8 DEF WritersInv

\* The inserted row has a fresh id, links to what was read, and its digest is
\* that of the row as the table will keep it.
LEMMA InsertStep ==
    ASSUME LedgerInv, NEW w \in Writers, Insert(w) PROVE WritersInv'
<1> DEFINE entry == [trace |-> w, tenant |-> TenantOf[w], body |-> "original",
                     stamp |-> Normalize(started[w]), prev |-> prev[w]]
<1>0. pc \in [Writers -> Steps] /\ DOMAIN pending = Writers /\ started[w] \in Nat
  BY DEF LedgerInv, TypeOK
<1>1. PICK id \in Ids :
        /\ \A k \in DOMAIN table : table[k].id # id
        /\ \A v \in Writers : pending[v].id # id
        /\ pending' = [pending EXCEPT ![w] =
              [trace |-> w, tenant |-> TenantOf[w], body |-> "original",
               stamp |-> Stored(Normalize(started[w])), prev |-> prev[w], id |-> id,
               digest |-> ComputeDigest(entry)]]
  BY DEF Insert
<1>2. pc[w] = "inserting" /\ pc' = [pc EXCEPT ![w] = "committing"] /\ UNCHANGED <<prev, table>>
  BY DEF Insert
<1>3. \A v \in Writers \ {w} : pc'[v] = pc[v] /\ prev'[v] = prev[v] /\ pending'[v] = pending[v]
  BY <1>0, <1>1, <1>2
<1>4. pc'[w] = "committing" /\ pending'[w] =
              [trace |-> w, tenant |-> TenantOf[w], body |-> "original",
               stamp |-> Stored(Normalize(started[w])), prev |-> prev[w], id |-> id,
               digest |-> ComputeDigest(entry)]
  BY <1>0, <1>1, <1>2
<1>5. pending'[w].digest = ComputeDigest(pending'[w])
  BY <1>0, <1>4, TruncateTwice DEF ComputeDigest
<1>6. pending'[w].prev = prev'[w] /\ pending'[w].tenant = TenantOf[w] /\ pending'[w].id = id
  BY <1>2, <1>4
<1>7. PrevFresh'
  <2>1. Rows(TenantOf[w])' = Rows(TenantOf[w])
    BY <1>2, RowsKept
  <2>2. IF Rows(TenantOf[w]) = {} THEN prev[w] = Root
        ELSE \E r \in Rows(TenantOf[w]) : prev[w] = r.digest
    BY <1>2 DEF LedgerInv, PrevFresh
  <2>. QED  BY <1>2, <1>3, <2>1, <2>2, WriterKept DEF PrevFresh
<1>8. PendingSound'
  <2> SUFFICES ASSUME NEW v \in Writers, pc'[v] = "committing"
               PROVE  /\ pending'[v].prev = prev'[v] /\ pending'[v].tenant = TenantOf[v]
                      /\ pending'[v].digest = ComputeDigest(pending'[v])
    BY DEF PendingSound, ComputeDigest
  <2>. QED  BY <1>2, <1>3, <1>5, <1>6, WriterKept
<1>9. IdsUnique'
  <2>1. \A v \in Writers \ {w} : pc'[v] = "committing" => pending'[v].id # pending'[w].id
    BY <1>1, <1>3, <1>6
  <2>. QED  BY <1>1, <1>2, <1>3, <1>6, <2>1 DEF LedgerInv, IdsUnique
<1>. QED  BY <1>7, <1>8, <1>9 DEF WritersInv

\* The (timestamp, id) order is total on rows with different ids, and
\* transitive.
LEMMA PrecedesOrders ==
    ASSUME NEW a, NEW b, NEW c, RowOK(a), RowOK(b), RowOK(c)
    PROVE  /\ a.id # b.id => Precedes(a, b) \/ Precedes(b, a)
           /\ Precedes(a, b) /\ Precedes(b, c) => Precedes(a, c)
<1>1. /\ a.stamp \in Nat /\ b.stamp \in Nat /\ c.stamp \in Nat
      /\ a.id \in Nat /\ b.id \in Nat /\ c.id \in Nat
  BY LedgerAssumption DEF RowOK
<1>2. a.id # b.id => Precedes(a, b) \/ Precedes(b, a)
  BY <1>1 DEF Precedes
<1>3. Precedes(a, b) /\ Precedes(b, c) => Precedes(a, c)
  BY <1>1 DEF Precedes
<1>. QED  BY <1>2, <1>3

\* Committing keeps every part of the invariant.
LEMMA CommitStep ==
    ASSUME LedgerInv, TableIsSeq, NEW w \in Writers, Commit(w)
    PROVE  WritersInv' /\ NewestExists' /\ RowsSound' /\ OneRoot' /\ LinksResolve'
<1> DEFINE row == pending[w]
           n   == Len(table)
           own == TenantOf[w]
<1>0. /\ TypeOK /\ LockHeld /\ IdsUnique /\ NewestExists /\ PrevFresh /\ PendingSound
      /\ RowsSound /\ OneRoot /\ LinksResolve
  BY DEF LedgerInv
<1>1. /\ pc[w] = "committing" /\ table' = Append(table, row) /\ UNCHANGED prev
      /\ pending' = [pending EXCEPT ![w] = NoRow]
      /\ \E outcome \in {"done", "failed"} : pc' = [pc EXCEPT ![w] = outcome]
  BY DEF Commit
<1>2. /\ n \in Nat /\ DOMAIN table = 1..n /\ DOMAIN table' = 1..(n + 1)
      /\ table'[n + 1] = row
      /\ \A k \in DOMAIN table : table'[k] = table[k]
  BY <1>1, TableAppend
<1>3. DOMAIN table' = DOMAIN table \union {n + 1} /\ n + 1 \notin DOMAIN table
  BY <1>2
<1>4. /\ row.tenant = own /\ row.prev = prev[w] /\ row.digest = ComputeDigest(row)
      /\ RowOK(row) /\ \A k \in DOMAIN table : table[k].id # row.id
  BY <1>0, <1>1 DEF PendingSound, TypeOK, IdsUnique
<1>5. \A t : Rows(t)' = IF t = own THEN Rows(t) \union {row} ELSE Rows(t)
  BY <1>1, <1>4, RowsAppend
<1>6. pc'[w] \notin {"inserting", "committing"}
      /\ \A v \in Writers \ {w} : pc'[v] = pc[v] /\ pending'[v] = pending[v] /\ prev'[v] = prev[v]
  BY <1>0, <1>1 DEF TypeOK
<1>7. \A t : \A r \in Rows(t) : \E k \in DOMAIN table : table[k].tenant = t /\ r = table[k]
  BY DEF Rows
<1>8. IF Rows(own) = {} THEN row.prev = Root ELSE \E r \in Rows(own) : row.prev = r.digest
  BY <1>0, <1>1, <1>4 DEF PrevFresh
<1>. HIDE DEF row, n, own
<1>9. PrevFresh'
  <2> SUFFICES ASSUME NEW v \in Writers, pc'[v] \in {"inserting", "committing"}
               PROVE  IF Rows(TenantOf[v])' = {} THEN prev'[v] = Root
                      ELSE \E r \in Rows(TenantOf[v])' : prev'[v] = r.digest
    BY DEF PrevFresh
  <2>1. v # w /\ pc[v] = pc'[v] /\ prev'[v] = prev[v]
    BY <1>6
  <2>2. TenantOf[v] # own
    BY <1>0, <1>1, <2>1, Exclusive DEF InTransaction, own
  <2>3. Rows(TenantOf[v])' = Rows(TenantOf[v])
    BY <1>5, <2>2
  <2>. QED  BY <1>0, <2>1, <2>3 DEF PrevFresh
<1>10. PendingSound'
  BY <1>0, <1>6 DEF PendingSound, ComputeDigest
<1>11. IdsUnique'
  <2>1. \A j, k \in DOMAIN table' : table'[j].id = table'[k].id => j = k
    BY <1>0, <1>2, <1>3, <1>4 DEF IdsUnique
  <2>2. ASSUME NEW v \in Writers, pc'[v] = "committing"
        PROVE  /\ \A k \in DOMAIN table' : table'[k].id # pending'[v].id
               /\ \A u \in Writers \ {v} : pc'[u] = "committing" => pending'[u].id # pending'[v].id
    <3>1. v # w /\ pc[v] = "committing" /\ pending'[v] = pending[v]
      BY <1>6, <2>2
    <3>2. pending[v].id # row.id
      BY <1>0, <1>1, <3>1 DEF IdsUnique, row
    <3>3. \A k \in DOMAIN table' : table'[k].id # pending'[v].id
      BY <1>0, <1>2, <1>3, <3>1, <3>2 DEF IdsUnique
    <3>4. \A u \in Writers \ {v} : pc'[u] = "committing" => pending'[u].id # pending'[v].id
      BY <1>0, <1>6, <3>1 DEF IdsUnique
    <3>. QED  BY <3>3, <3>4
  <2>. QED  BY <2>1, <2>2 DEF IdsUnique
<1>12. NewestExists'
  <2> SUFFICES ASSUME NEW t \in Tenants, Rows(t)' # {}
               PROVE  \E r \in Rows(t)' : \A s \in Rows(t)' \ {r} : Precedes(s, r)
    BY DEF NewestExists, Precedes
  <2>1. CASE t # own
    BY <1>0, <1>5, <2>1 DEF NewestExists
  <2>2. CASE t = own /\ Rows(t) = {}
    <3>1. Rows(t)' = {row}
      BY <1>5, <2>2
    <3>. QED  BY <3>1
  <2>3. CASE t = own /\ Rows(t) # {}
    <3>1. PICK top \in Rows(t) : \A s \in Rows(t) \ {top} : Precedes(s, top)
      BY <1>0, <2>3 DEF NewestExists
    <3>2. \A r \in Rows(t) : RowOK(r) /\ r.id # row.id
      BY <1>0, <1>4, <1>7 DEF TypeOK
    <3>3. Rows(t)' = Rows(t) \union {row}
      BY <1>5, <2>3
    <3>4. CASE Precedes(top, row)
      <4>1. \A s \in Rows(t)' \ {row} : Precedes(s, row)
        BY <1>4, <3>1, <3>2, <3>3, <3>4, PrecedesOrders
      <4>. QED  BY <3>3, <4>1
    <3>5. CASE Precedes(row, top)
      <4>1. \A s \in Rows(t)' \ {top} : Precedes(s, top)
        BY <3>1, <3>3, <3>5
      <4>. QED  BY <3>1, <3>3, <4>1
    <3>6. Precedes(top, row) \/ Precedes(row, top)
      BY <1>4, <3>1, <3>2, PrecedesOrders
    <3>. QED  BY <3>4, <3>5, <3>6
  <2>. QED  BY <2>1, <2>2, <2>3
<1>13. RowsSound'
  BY <1>0, <1>2, <1>3, <1>4 DEF RowsSound, ComputeDigest
<1>14. OneRoot'
  <2>1. row.prev = Root => \A k \in DOMAIN table : table[k].tenant # own
    <3> SUFFICES ASSUME row.prev = Root, NEW k \in DOMAIN table, table[k].tenant = own
                 PROVE  FALSE
      OBVIOUS
    <3>1. Rows(own) # {}
      BY DEF Rows
    <3>2. PICK r \in Rows(own) : row.prev = r.digest
      BY <1>8, <3>1
    <3>3. r.digest = ComputeDigest(r)
      BY <1>0, <1>7 DEF RowsSound
    <3>. QED  BY <3>2, <3>3, DigestNotRoot
  <2>. QED  BY <1>0, <1>2, <1>3, <1>4, <2>1 DEF OneRoot
<1>15. LinksResolve'
  <2> SUFFICES ASSUME NEW k \in DOMAIN table', table'[k].prev # Root
               PROVE  \E j \in 1..(k - 1) : /\ table'[j].tenant = table'[k].tenant
                                            /\ table'[j].digest = table'[k].prev
    BY DEF LinksResolve
  <2>1. CASE k \in DOMAIN table
    <3>1. PICK j \in 1..(k - 1) : table[j].tenant = table[k].tenant /\ table[j].digest = table[k].prev
      BY <1>0, <1>2, <2>1 DEF LinksResolve
    <3>2. j \in DOMAIN table
      BY <1>2, <2>1
    <3>. QED  BY <1>2, <2>1, <3>1, <3>2
  <2>2. CASE k = n + 1
    <3>1. PICK r \in Rows(own) : row.prev = r.digest
      BY <1>2, <1>8, <2>2
    <3>2. PICK j \in DOMAIN table : table[j].tenant = own /\ r = table[j]
      BY <1>7
    <3>3. j \in 1..(k - 1)
      BY <1>2, <2>2
    <3>. QED  BY <1>2, <1>4, <2>2, <3>1, <3>2, <3>3
  <2>. QED  BY <1>3, <2>1, <2>2
<1>. QED  BY <1>9, <1>10, <1>11, <1>12, <1>13, <1>14, <1>15 DEF WritersInv

-----------------------------------------------------------------------------
(* The theorems *)

\* LedgerInv holds in every reachable state.
THEOREM LedgerInvariant == Spec => []LedgerInv
<1>1. LedgerInv /\ TableIsSeq /\ [Next]_vars => LedgerInv' /\ TableIsSeq'
  <2> SUFFICES ASSUME LedgerInv, TableIsSeq, [Next]_vars PROVE LedgerInv' /\ TableIsSeq'
    OBVIOUS
  <2>1. TypeOK' /\ TableIsSeq' /\ LockHeld'
    BY LedgerTypeStep, LockStep DEF LedgerInv
  <2>0. pc \in [Writers -> Steps] /\ DOMAIN prev = Writers /\ DOMAIN pending = Writers
    BY DEF LedgerInv, TypeOK
  <2>2. ASSUME NEW w \in Writers, ReadPrev(w) \/ Insert(w)
        PROVE  WritersInv' /\ UNCHANGED table
    BY <2>2, ReadPrevStep, InsertStep DEF ReadPrev, Insert
  <2>3. ASSUME NEW w \in Writers, Start(w) \/ Begin(w) \/ AcquireLock(w) \/ Abort(w)
        PROVE  WritersInv' /\ UNCHANGED table
    <3>1. /\ UNCHANGED <<table, prev>>
          /\ pc'[w] \notin {"inserting", "committing"}
          /\ \A v \in Writers \ {w} : pc'[v] = pc[v] /\ pending'[v] = pending[v]
      BY <2>0, <2>3 DEF Start, Begin, AcquireLock, Abort
    <3>. QED  BY <3>1, QuietStep
  <2>4. CASE Tick \/ UNCHANGED vars
    <3>1. UNCHANGED <<table, prev, pc, pending>>
      BY <2>4 DEF Tick, vars
    <3>. QED  BY <2>1, <3>1, QuietStep, TableKept DEF WritersInv, LedgerInv
  <2>5. ASSUME NEW w \in Writers, Commit(w) PROVE LedgerInv' /\ TableIsSeq'
    BY <2>1, <2>5, CommitStep DEF LedgerInv, WritersInv
  <2>6. ASSUME WritersInv', UNCHANGED table PROVE LedgerInv' /\ TableIsSeq'
    BY <2>1, <2>6, TableKept DEF LedgerInv, WritersInv
  <2>. QED  BY <2>2, <2>3, <2>4, <2>5, <2>6 DEF Next, WriteStep
<1>. QED  BY <1>1, LedgerInit, PTL DEF Spec

\* Every stored row recomputes to its stored digest, for every resolution of
\* the timestamp column.
THEOREM DigestsRecomputeHolds == Spec => []DigestsRecompute
<1>1. LedgerInv => DigestsRecompute
  BY DEF LedgerInv, RowsSound, DigestsRecompute, DigestMismatches, Rows
<1>. QED  BY <1>1, LedgerInvariant, PTL

\* No tenant ever has two rows without a previous hash.
THEOREM OneRootHolds == Spec => []OneRoot
<1>1. LedgerInv => OneRoot
  BY DEF LedgerInv
<1>. QED  BY <1>1, LedgerInvariant, PTL

\* Every link leads to a row of the same tenant committed before.
THEOREM LinksResolveHolds == Spec => []LinksResolve
<1>1. LedgerInv => LinksResolve
  BY DEF LedgerInv
<1>. QED  BY <1>1, LedgerInvariant, PTL

-----------------------------------------------------------------------------
(* ChainInv: how the chain is linked *)

\* What a row links to while the table does not change.
LEMMA LinksKept ==
    UNCHANGED table => /\ \A k : Earlier(k)' = Earlier(k)
                       /\ \A t : LinkTo(Rows(t))' = LinkTo(Rows(t))
                       /\ \A k : LinkTo(Earlier(k))' = LinkTo(Earlier(k))
<1> SUFFICES ASSUME UNCHANGED table
             PROVE  /\ \A k : Earlier(k)' = Earlier(k)
                    /\ \A t : LinkTo(Rows(t))' = LinkTo(Rows(t))
                    /\ \A k : LinkTo(Earlier(k))' = LinkTo(Earlier(k))
  OBVIOUS
<1>. QED  BY DEF Earlier, Rows, LinkTo, Newest, Precedes

\* A row that is committed has the rows of its tenant before it, and nothing
\* comes before the rows that are there already.
LEMMA EarlierAppend ==
    ASSUME TableIsSeq, NEW r, table' = Append(table, r)
    PROVE  /\ \A k \in DOMAIN table : Earlier(k)' = Earlier(k)
           /\ \A k \in {Len(table) + 1} : Earlier(k)' = Rows(r.tenant)
<1> DEFINE n == Len(table)
<1>1. /\ n \in Nat /\ DOMAIN table = 1..n /\ DOMAIN table' = 1..(n + 1)
      /\ table'[n + 1] = r /\ \A k \in DOMAIN table : table'[k] = table[k]
  BY TableAppend
<1>. HIDE DEF n
<1>2. ASSUME NEW k \in DOMAIN table PROVE Earlier(k)' = Earlier(k)
  <2>1. \A i \in 1..(k - 1) : i \in DOMAIN table
    BY <1>1, <1>2
  <2>2. /\ {i \in 1..(k - 1) : table'[i].tenant = table'[k].tenant}
             = {i \in 1..(k - 1) : table[i].tenant = table[k].tenant}
        /\ \A i \in 1..(k - 1) : table'[i] = table[i]
    BY <1>1, <1>2, <2>1
  <2>. QED  BY <2>2 DEF Earlier
<1>3. ASSUME NEW k, k = n + 1 PROVE Earlier(k)' = Rows(r.tenant)
  <2>1. 1..(k - 1) = DOMAIN table /\ table'[k] = r
    BY <1>1, <1>3
  <2>2. {i \in 1..(k - 1) : table'[i].tenant = table'[k].tenant}
             = {j \in DOMAIN table : table[j].tenant = r.tenant}
    BY <1>1, <2>1
  <2>3. \A i \in DOMAIN table : table'[i] = table[i]
    BY <1>1
  <2>. QED  BY <2>1, <2>2, <2>3 DEF Earlier, Rows
<1>. QED  BY <1>2, <1>3 DEF n

\* The initial states satisfy ChainInv.
LEMMA ChainInit == Init => ChainInv
<1> SUFFICES ASSUME Init PROVE ChainInv
  OBVIOUS
<1>1. DOMAIN table = {} /\ \A t : Rows(t) = {}
  BY DEF Init, Rows
<1>2. Ranked
  BY <1>1 DEF Ranked
<1>3. LinksNewest /\ OneRowEach /\ RootThere
  BY <1>1 DEF Init, LinksNewest, OneRowEach, RootThere
<1>. QED  BY <1>2, <1>3 DEF ChainInv

\* Steps that commit nothing.
LEMMA ChainQuiet ==
    ASSUME LedgerInv, ChainInv, [Next]_vars, UNCHANGED table
    PROVE  ChainInv'
<1>0. /\ pc \in [Writers -> Steps] /\ DOMAIN prev = Writers /\ DOMAIN pending = Writers
      /\ \A k \in DOMAIN table : table[k].trace \in Writers
  BY DEF LedgerInv, TypeOK, RowOK
<1>1. Ranked' /\ RootThere'
  <2>1. \A t : Rows(t)' = Rows(t)
    BY RowsKept
  <2>. QED  BY <2>1 DEF ChainInv, Ranked, RootThere
<1>2. \A k \in DOMAIN table' : table'[k].prev = LinkTo(Earlier(k))'
  BY LinksKept DEF ChainInv, LinksNewest
<1>3. ASSUME NEW w \in Writers
      PROVE  /\ pc'[w] \in {"inserting", "committing"} => prev'[w] = LinkTo(Rows(TenantOf[w]))
             /\ pc[w] \in {"done", "failed"} => pc'[w] \in {"done", "failed"}
             /\ pc'[w] = "committing" => pending'[w].trace = w /\ AsWritten(pending'[w])
  <2> DEFINE Kept == pc'[w] = pc[w] /\ prev'[w] = prev[w] /\ pending'[w] = pending[w]
             Goal == /\ pc'[w] \in {"inserting", "committing"} => prev'[w] = LinkTo(Rows(TenantOf[w]))
                     /\ pc[w] \in {"done", "failed"} => pc'[w] \in {"done", "failed"}
                     /\ pc'[w] = "committing" => pending'[w].trace = w /\ AsWritten(pending'[w])
  <2>1. CASE Kept
    BY <2>1 DEF ChainInv, LinksNewest, OneRowEach
  <2>2. CASE ReadPrev(w)
    <3>1. pc[w] = "reading" /\ pc'[w] = "inserting" /\ prev'[w] = LinkTo(Rows(TenantOf[w]))
      BY <1>0, <2>2 DEF ReadPrev, LinkTo
    <3>. QED  BY <3>1
  <2>3. CASE Insert(w)
    <3>1. /\ pc[w] = "inserting" /\ pc'[w] = "committing" /\ prev'[w] = prev[w]
          /\ pending'[w].trace = w /\ AsWritten(pending'[w])
      BY <1>0, <2>3 DEF Insert, AsWritten
    <3>. QED  BY <3>1 DEF ChainInv, LinksNewest
  <2>4. CASE Start(w) \/ Begin(w) \/ AcquireLock(w) \/ Abort(w)
    <3>1. pc[w] \notin {"done", "failed"} /\ pc'[w] \notin {"inserting", "committing"}
      BY <1>0, <2>4 DEF Start, Begin, AcquireLock, Abort, InTransaction
    <3>. QED  BY <3>1
  <2>5. CASE Tick \/ UNCHANGED vars
    <3>1. Kept
      BY <2>5 DEF Tick, vars
    <3>. QED  BY <2>1, <3>1
  <2>6. ASSUME NEW v \in Writers \ {w}, Start(v) \/ WriteStep(v) \/ Abort(v) PROVE Kept
    <3>1. CASE Start(v) \/ Begin(v) \/ AcquireLock(v) \/ Abort(v)
      BY <1>0, <3>1 DEF Start, Begin, AcquireLock, Abort
    <3>2. CASE ReadPrev(v) \/ Insert(v)
      BY <1>0, <3>2 DEF ReadPrev, Insert
    <3>3. CASE Commit(v)
      BY <1>0, <3>3 DEF Commit
    <3>. QED  BY <2>6, <3>1, <3>2, <3>3 DEF WriteStep
  <2>7. CASE Commit(w)
    <3>1. pc[w] = "committing" /\ pc'[w] \in {"done", "failed"}
      BY <1>0, <2>7 DEF Commit
    <3>. QED  BY <3>1
  <2>. HIDE DEF Kept
  <2>. QED  BY <2>1, <2>2, <2>3, <2>4, <2>5, <2>6, <2>7 DEF Next, WriteStep
<1>4. LinksNewest'
  BY <1>2, <1>3, LinksKept DEF LinksNewest
<1>5. OneRowEach'
  <2>1. \A k \in DOMAIN table : pc'[table[k].trace] \in {"done", "failed"}
    BY <1>0, <1>3 DEF ChainInv, OneRowEach
  <2>. QED  BY <1>3, <2>1 DEF ChainInv, OneRowEach
<1>. QED  BY <1>1, <1>4, <1>5 DEF ChainInv

\* Committing a row.
LEMMA ChainCommit ==
    ASSUME LedgerInv, ChainInv, TableIsSeq, NEW w \in Writers, Commit(w)
    PROVE  ChainInv'
<1> DEFINE row == pending[w]
           n   == Len(table)
           own == TenantOf[w]
<1>0. /\ TypeOK /\ LockHeld /\ IdsUnique /\ PendingSound
      /\ Ranked /\ LinksNewest /\ OneRowEach /\ RootThere /\ own \in Tenants
  BY LedgerAssumption DEF LedgerInv, ChainInv
<1>1. /\ pc[w] = "committing" /\ table' = Append(table, row) /\ UNCHANGED prev
      /\ pending' = [pending EXCEPT ![w] = NoRow]
      /\ \E outcome \in {"done", "failed"} : pc' = [pc EXCEPT ![w] = outcome]
  BY DEF Commit
<1>2. /\ n \in Nat /\ DOMAIN table = 1..n /\ DOMAIN table' = 1..(n + 1)
      /\ table'[n + 1] = row
      /\ \A k \in DOMAIN table : table'[k] = table[k]
  BY <1>1, TableAppend
<1>3. DOMAIN table' = DOMAIN table \union {n + 1} /\ n + 1 \notin DOMAIN table
  BY <1>2
<1>4. /\ row.tenant = own /\ row.prev = prev[w] /\ RowOK(row)
      /\ \A k \in DOMAIN table : table[k].id # row.id
      /\ row.trace = w /\ AsWritten(row) /\ row.prev = LinkTo(Rows(own))
  BY <1>0, <1>1 DEF PendingSound, TypeOK, IdsUnique, OneRowEach, LinksNewest
<1>5. \A t : Rows(t)' = IF t = own THEN Rows(t) \union {row} ELSE Rows(t)
  BY <1>1, <1>4, RowsAppend
<1>6. /\ pc'[w] \in {"done", "failed"}
      /\ \A v \in Writers \ {w} : pc'[v] = pc[v] /\ pending'[v] = pending[v] /\ prev'[v] = prev[v]
  BY <1>0, <1>1 DEF TypeOK
<1>7. \A t : \A r \in Rows(t) : RowOK(r) /\ r.id # row.id
  BY <1>0, <1>4 DEF Rows, TypeOK
<1>8. /\ \A k \in DOMAIN table : Earlier(k)' = Earlier(k)
      /\ \A k \in {n + 1} : Earlier(k)' = Rows(own)
  BY <1>1, <1>4, EarlierAppend
<1>. HIDE DEF row, n, own
<1>9. Ranked'
  <2> SUFFICES ASSUME NEW t \in Tenants, NEW S \in SUBSET Rows(t)', S # {}
               PROVE  /\ \E r \in S : \A s \in S \ {r} : Precedes(s, r)
                      /\ \E r \in S : \A s \in S \ {r} : Precedes(r, s)
    BY DEF Ranked, Precedes
  <2>1. CASE S \subseteq Rows(t)
    BY <1>0, <2>1 DEF Ranked
  <2>2. CASE S = {row}
    BY <2>2
  <2>3. CASE row \in S /\ S # {row} /\ S \ {row} \subseteq Rows(t)
    <3> DEFINE P == S \ {row}
    <3>1. P # {} /\ S = P \union {row} /\ P \in SUBSET Rows(t)
      BY <2>3
    <3>. HIDE DEF P
    <3>2. PICK hi \in P : \A s \in P \ {hi} : Precedes(s, hi)
      BY <1>0, <3>1 DEF Ranked
    <3>3. PICK lo \in P : \A s \in P \ {lo} : Precedes(lo, s)
      BY <1>0, <3>1 DEF Ranked
    <3>4. \A s \in P : RowOK(s) /\ s.id # row.id
      BY <1>7, <3>1
    <3>5. \E r \in S : \A s \in S \ {r} : Precedes(s, r)
      <4>1. CASE Precedes(row, hi)
        BY <3>1, <3>2, <4>1
      <4>2. CASE Precedes(hi, row)
        <5>1. \A s \in P : Precedes(s, row)
          BY <1>4, <3>2, <3>4, <4>2, PrecedesOrders
        <5>. QED  BY <3>1, <5>1
      <4>. QED  BY <1>4, <3>2, <3>4, <4>1, <4>2, PrecedesOrders
    <3>6. \E r \in S : \A s \in S \ {r} : Precedes(r, s)
      <4>1. CASE Precedes(lo, row)
        BY <3>1, <3>3, <4>1
      <4>2. CASE Precedes(row, lo)
        <5>1. \A s \in P : Precedes(row, s)
          BY <1>4, <3>3, <3>4, <4>2, PrecedesOrders
        <5>. QED  BY <3>1, <5>1
      <4>. QED  BY <1>4, <3>3, <3>4, <4>1, <4>2, PrecedesOrders
    <3>. QED  BY <3>5, <3>6
  <2>. QED  BY <1>5, <2>1, <2>2, <2>3
<1>10. \A k \in DOMAIN table' : table'[k].prev = LinkTo(Earlier(k))'
  <2>1. \A k : LinkTo(Earlier(k))' = LinkTo(Earlier(k)')
    BY DEF LinkTo, Newest, Precedes
  <2>2. ASSUME NEW k \in DOMAIN table PROVE table'[k].prev = LinkTo(Earlier(k))'
    BY <1>0, <1>2, <1>8, <2>1, <2>2 DEF LinksNewest
  <2>3. ASSUME NEW k, k = n + 1 PROVE table'[k].prev = LinkTo(Earlier(k))'
    BY <1>2, <1>4, <1>8, <2>1, <2>3
  <2>. QED  BY <1>3, <2>2, <2>3
<1>11. \A v \in Writers : pc'[v] \in {"inserting", "committing"} =>
          prev'[v] = LinkTo(Rows(TenantOf[v]))'
  <2> SUFFICES ASSUME NEW v \in Writers, pc'[v] \in {"inserting", "committing"}
               PROVE  prev'[v] = LinkTo(Rows(TenantOf[v]))'
    OBVIOUS
  <2>1. v # w /\ pc[v] = pc'[v] /\ prev'[v] = prev[v]
    BY <1>6
  <2>2. TenantOf[v] # own
    BY <1>0, <1>1, <2>1, Exclusive DEF InTransaction, own
  <2>3. Rows(TenantOf[v])' = Rows(TenantOf[v])
    BY <1>5, <2>2
  <2>4. LinkTo(Rows(TenantOf[v]))' = LinkTo(Rows(TenantOf[v]))
    BY <2>3 DEF LinkTo, Newest, Precedes
  <2>. QED  BY <1>0, <2>1, <2>4 DEF LinksNewest
<1>12. OneRowEach'
  <2>1. \A k \in DOMAIN table : /\ table[k].trace \in Writers /\ AsWritten(table[k])
                                /\ pc[table[k].trace] \in {"done", "failed"}
    BY <1>0 DEF OneRowEach, TypeOK, RowOK
  <2>2. \A k \in DOMAIN table : table[k].trace # w
    BY <1>1, <2>1
  <2>3. \A j, k \in DOMAIN table' : table'[j].trace = table'[k].trace => j = k
    BY <1>0, <1>2, <1>3, <1>4, <2>2 DEF OneRowEach
  <2>4. \A k \in DOMAIN table' : /\ AsWritten(table'[k])
                                 /\ pc'[table'[k].trace] \in {"done", "failed"}
    BY <1>2, <1>3, <1>4, <1>6, <2>1, <2>2
  <2>5. \A v \in Writers : pc'[v] = "committing" =>
            pending'[v].trace = v /\ AsWritten(pending'[v])
    BY <1>0, <1>6 DEF OneRowEach
  <2>. QED  BY <2>3, <2>4, <2>5 DEF OneRowEach
<1>13. RootThere'
  <2> SUFFICES ASSUME NEW t \in Tenants, Rows(t)' # {}
               PROVE  \E r \in Rows(t)' : r.prev = Root
    BY DEF RootThere
  <2>1. CASE Rows(t) # {}
    BY <1>0, <1>5, <2>1 DEF RootThere
  <2>2. CASE Rows(t) = {}
    <3>1. t = own /\ row \in Rows(t)'
      BY <1>5, <2>2
    <3>. QED  BY <1>4, <2>2, <3>1 DEF LinkTo
  <2>. QED  BY <2>1, <2>2
<1>. QED  BY <1>9, <1>10, <1>11, <1>12, <1>13 DEF ChainInv, LinksNewest

\* LedgerInv and ChainInv hold in every reachable state.
THEOREM ChainInvariant == Spec => [](LedgerInv /\ ChainInv)
<1>1. (LedgerInv /\ ChainInv /\ TableIsSeq) /\ [Next]_vars => ChainInv'
  <2> SUFFICES ASSUME LedgerInv, ChainInv, TableIsSeq, [Next]_vars PROVE ChainInv'
    OBVIOUS
  <2>1. ASSUME NEW w \in Writers, Commit(w) PROVE ChainInv'
    BY <2>1, ChainCommit
  <2>2. CASE ~ \E w \in Writers : Commit(w)
    <3>1. UNCHANGED table
      BY <2>2 DEF Next, WriteStep, Tick, Start, Begin, AcquireLock, ReadPrev, Insert,
                  Abort, vars
    <3>. QED  BY <3>1, ChainQuiet
  <2>. QED  BY <2>1, <2>2
<1>2. TypeOK /\ TableIsSeq /\ [Next]_vars => TableIsSeq'
  BY LedgerTypeStep
<1>3. LedgerInv => TypeOK
  BY DEF LedgerInv
<1>. QED  BY <1>1, <1>2, <1>3, LedgerInit, LedgerInvariant, ChainInit, PTL DEF Spec

-----------------------------------------------------------------------------
(* What the verifier finds in a chain that is linked like this *)

\* The rows of a tenant are in a strict order, and no two have the same digest.
LEMMA RowFacts ==
    ASSUME LedgerInv, ChainInv, NEW t \in Tenants
    PROVE  /\ \A r \in Rows(t) : /\ RowOK(r) /\ r.tenant = t /\ AsWritten(r)
                                 /\ r.digest = ComputeDigest(r) /\ r.digest # Root
           /\ \A r, s \in Rows(t) : r.digest = s.digest \/ r.trace = s.trace => r = s
           /\ \A r, s \in Rows(t) : r # s => Precedes(r, s) \/ Precedes(s, r)
           /\ \A r, s \in Rows(t) : Precedes(r, s) => r # s /\ ~ Precedes(s, r)
           /\ \A r, s, u \in Rows(t) : Precedes(r, s) /\ Precedes(s, u) => Precedes(r, u)
<1>1. \A r \in Rows(t) : \E k \in DOMAIN table : r = table[k] /\ r.tenant = t
  BY DEF Rows
<1>2. \A r \in Rows(t) : /\ RowOK(r) /\ r.tenant = t /\ AsWritten(r)
                         /\ r.digest = ComputeDigest(r) /\ r.digest # Root
  BY <1>1, DigestNotRoot DEF LedgerInv, ChainInv, TypeOK, RowsSound, OneRowEach
<1>3. \A r, s \in Rows(t) : r.trace = s.trace => r = s
  BY <1>1 DEF ChainInv, OneRowEach
<1>4. \A r, s \in Rows(t) : r.digest = s.digest => r.trace = s.trace
  BY <1>2 DEF ComputeDigest
<1>5. \A r, s \in Rows(t) : r.id = s.id => r = s
  BY <1>1 DEF LedgerInv, IdsUnique
<1>6. \A r \in Rows(t) : r.stamp \in Nat /\ r.id \in Nat
  BY <1>2, LedgerAssumption DEF RowOK
<1>7. \A r, s \in Rows(t) : r # s => Precedes(r, s) \/ Precedes(s, r)
  BY <1>2, <1>5, PrecedesOrders
<1>8. \A r, s \in Rows(t) : Precedes(r, s) => r # s /\ ~ Precedes(s, r)
  BY <1>6 DEF Precedes
<1>9. \A r, s, u \in Rows(t) : Precedes(r, s) /\ Precedes(s, u) => Precedes(r, u)
  BY <1>2, PrecedesOrders
<1>. QED  BY <1>2, <1>3, <1>4, <1>7, <1>8, <1>9

\* Newest finds the one row that no other follows.
LEMMA NewestIs ==
    ASSUME LedgerInv, ChainInv, NEW t \in Tenants, NEW S \in SUBSET Rows(t), S # {}
    PROVE  /\ Newest(S) \in S
           /\ \A s \in S \ {Newest(S)} : Precedes(s, Newest(S))
           /\ \A r \in S : (\A s \in S \ {r} : Precedes(s, r)) => Newest(S) = r
<1>1. \E r \in S : \A s \in S \ {r} : Precedes(s, r)
  BY DEF ChainInv, Ranked
<1>2. Newest(S) \in S /\ \A s \in S \ {Newest(S)} : Precedes(s, Newest(S))
  BY <1>1 DEF Newest
<1>3. ASSUME NEW r \in S, \A s \in S \ {r} : Precedes(s, r), Newest(S) # r PROVE FALSE
  <2>1. Precedes(Newest(S), r) /\ Precedes(r, Newest(S))
    BY <1>2, <1>3
  <2>. QED  BY <1>2, <2>1, RowFacts
<1>. QED  BY <1>2, <1>3

\* A chain committed in order has no broken link: before a row come exactly
\* the rows that were committed earlier.
LEMMA InOrderUnbroken ==
    ASSUME LedgerInv, ChainInv, TableIsSeq, NEW t \in Tenants, CommittedInOrder(t)
    PROVE  BrokenLinks(Rows(t)) = {}
<1> SUFFICES ASSUME NEW r \in Rows(t), NEW before, before = {s \in Rows(t) : Precedes(s, r)},
                    before # {}
             PROVE  r.prev = Newest(before).digest
  BY DEF BrokenLinks
<1>0. Len(table) \in Nat /\ DOMAIN table = 1..Len(table)
  BY DEF TableIsSeq
<1>1. PICK k \in DOMAIN table : r = table[k] /\ table[k].tenant = t
  BY DEF Rows
<1>2. \A s : s \in Rows(t) <=> \E j \in DOMAIN table : s = table[j] /\ table[j].tenant = t
  BY DEF Rows
<1>3. \A j \in DOMAIN table : table[j].tenant = t => (Precedes(table[j], r) <=> j < k)
  <2> SUFFICES ASSUME NEW j \in DOMAIN table, table[j].tenant = t
               PROVE  Precedes(table[j], r) <=> j < k
    OBVIOUS
  <2>1. j < k => Precedes(table[j], r)
    BY <1>1 DEF CommittedInOrder
  <2>2. k < j => Precedes(r, table[j])
    BY <1>1 DEF CommittedInOrder
  <2>3. table[j] \in Rows(t)
    BY <1>2
  <2>4. j \in Nat /\ k \in Nat
    BY <1>0
  <2>. QED  BY <1>1, <2>1, <2>2, <2>3, <2>4, RowFacts
<1>4. before = Earlier(k)
  <2>1. \A s : s \in Earlier(k) <=> \E j \in 1..(k - 1) : s = table[j] /\ table[j].tenant = t
    BY <1>1 DEF Earlier
  <2>2. \A j : j \in 1..(k - 1) <=> j \in DOMAIN table /\ j < k
    BY <1>0
  <2>3. \A s : s \in before <=> s \in Earlier(k)
    BY <1>2, <1>3, <2>1, <2>2
  <2>. QED  BY <2>3
<1>. QED  BY <1>1, <1>4 DEF ChainInv, LinksNewest, LinkTo

\* A row that was committed after a row it precedes breaks a link: its own, or,
\* if it is now the oldest, that of the root.
LEMMA OutOfOrderReported ==
    ASSUME LedgerInv, ChainInv, TableIsSeq, NEW t \in Tenants, ~ CommittedInOrder(t)
    PROVE  BrokenLinks(Rows(t)) # {}
<1>0. Len(table) \in Nat /\ DOMAIN table = 1..Len(table)
  BY DEF TableIsSeq
<1>1. PICK j \in DOMAIN table, k \in DOMAIN table :
          /\ j < k /\ table[j].tenant = t /\ table[k].tenant = t
          /\ ~ Precedes(table[j], table[k])
  BY DEF CommittedInOrder
<1> DEFINE late == table[k]
           first == table[j]
           E == Earlier(k)
           before(r) == {s \in Rows(t) : Precedes(s, r)}
<1>2. late \in Rows(t) /\ first \in Rows(t) /\ Precedes(late, first)
  <2>1. late \in Rows(t) /\ first \in Rows(t)
    BY <1>1 DEF Rows
  <2>2. late # first
    <3>1. j # k
      BY <1>0, <1>1
    <3>. QED  BY <1>1, <3>1 DEF LedgerInv, IdsUnique
  <2>. QED  BY <1>1, <2>1, <2>2, RowFacts
<1>3. E \in SUBSET Rows(t) /\ first \in E
  <2>1. \A i \in 1..(k - 1) : i \in DOMAIN table
    BY <1>0, <1>1
  <2>2. j \in 1..(k - 1)
    BY <1>0, <1>1
  <2>. QED  BY <1>1, <2>1, <2>2 DEF Earlier, Rows
<1>4. late.prev = Newest(E).digest
  BY <1>1, <1>3 DEF ChainInv, LinksNewest, LinkTo
<1>5. Newest(E) \in Rows(t) /\ Precedes(late, Newest(E))
  <2>1. Newest(E) \in E /\ (first = Newest(E) \/ Precedes(first, Newest(E)))
    BY <1>3, NewestIs
  <2>. QED  BY <1>2, <1>3, <2>1, RowFacts
<1>. HIDE DEF late, first, E
<1>6. CASE before(late) # {}
  <2>1. Newest(before(late)) \in before(late)
    BY <1>6, NewestIs
  <2>2. Newest(before(late)) # Newest(E)
    BY <1>2, <1>5, <2>1, RowFacts
  <2>3. late.prev # Newest(before(late)).digest
    BY <1>4, <1>5, <2>1, <2>2, RowFacts
  <2>. QED  BY <1>2, <1>6, <2>3 DEF BrokenLinks
<1>7. CASE before(late) = {}
  <2>1. PICK root \in Rows(t) : root.prev = Root
    BY <1>2 DEF ChainInv, RootThere
  <2>2. root # late
    BY <1>4, <1>5, <2>1, RowFacts
  <2>3. late \in before(root)
    BY <1>2, <1>7, <2>1, <2>2, RowFacts
  <2>4. Newest(before(root)) \in Rows(t)
    BY <2>3, NewestIs
  <2>5. root.prev # Newest(before(root)).digest
    BY <2>1, <2>4, RowFacts
  <2>. QED  BY <2>1, <2>3, <2>5 DEF BrokenLinks
<1>. QED  BY <1>6, <1>7

\* For any number of writers: an untouched chain verifies exactly when its rows
\* were committed in the order in which the verifier reads them.
THEOREM VerifiesIffInOrderHolds == Spec => []VerifiesIffInOrder
<1>1. LedgerInv /\ ChainInv /\ TableIsSeq => VerifiesIffInOrder
  <2> SUFFICES ASSUME LedgerInv, ChainInv, TableIsSeq, NEW t \in Tenants
               PROVE  VerifyChain(Rows(t)) = {} <=> CommittedInOrder(t)
    BY DEF VerifiesIffInOrder
  <2>1. DigestMismatches(Rows(t)) = {}
    BY RowFacts DEF DigestMismatches
  <2>2. VerifyChain(Rows(t)) = {} <=> BrokenLinks(Rows(t)) = {}
    BY <2>1 DEF VerifyChain
  <2>. QED  BY <2>2, InOrderUnbroken, OutOfOrderReported
<1>2. TypeOK /\ TableIsSeq /\ [Next]_vars => TableIsSeq'
  BY LedgerTypeStep
<1>3. LedgerInv => TypeOK
  BY DEF LedgerInv
<1>. QED  BY <1>1, <1>2, <1>3, LedgerInit, ChainInvariant, PTL DEF Spec

\* For any number of writers: queries that end in the order in which they
\* started leave a chain that verifies.
THEOREM InOrderVerifiesHolds == Spec => []InOrderVerifies
<1>1. VerifiesIffInOrder => InOrderVerifies
  BY DEF VerifiesIffInOrder, InOrderVerifies
<1>. QED  BY <1>1, VerifiesIffInOrderHolds, PTL

\* A row whose hashed fields are changed no longer has its digest.
LEMMA ForgeryReported ==
    ASSUME LedgerInv, ChainInv, NEW t \in Tenants, NEW r \in Rows(t), NEW f \in Forged(r),
           NEW others
    PROVE  <<r.trace, "digest_mismatch">> \in VerifyChain(others \union {f})
<1>1. RowOK(r) /\ AsWritten(r) /\ r.digest = ComputeDigest(r)
  BY RowFacts
<1>2. r.stamp \in Nat /\ Resolution \in Nat \ {0}
  BY <1>1, LedgerAssumption DEF RowOK
<1>3. /\ f.trace = r.trace /\ f.digest = r.digest
      /\ f.body # r.body \/ f.stamp # r.stamp \/ f.prev # r.prev
  <2>1. CASE f = [r EXCEPT !.body = "altered"]
    BY <1>1, <2>1 DEF AsWritten
  <2>2. CASE f = [r EXCEPT !.stamp = @ + Resolution]
    BY <1>1, <1>2, <2>2 DEF AsWritten
  <2>3. ASSUME NEW d, d # r.prev, f = [r EXCEPT !.prev = d]
        PROVE  f.trace = r.trace /\ f.digest = r.digest /\ f.prev # r.prev
    BY <1>1, <2>3 DEF AsWritten
  <2>. QED  BY <2>1, <2>2, <2>3 DEF Forged
<1>4. ComputeDigest(f) # f.digest
  BY <1>1, <1>3 DEF ComputeDigest
<1>. QED  BY <1>3, <1>4 DEF VerifyChain, DigestMismatches

\* Without row r, the row that followed it links to nothing that is there.
LEMMA DeletionReported ==
    ASSUME LedgerInv, ChainInv, NEW t \in Tenants, NEW r \in Rows(t),
           BrokenLinks(Rows(t)) = {}, NEW a \in Rows(t) \ {r}, NEW b \in Rows(t) \ {r},
           Precedes(a, r), Precedes(r, b)
    PROVE  BrokenLinks(Rows(t) \ {r}) # {}
<1> DEFINE after == {s \in Rows(t) : Precedes(r, s)}
<1>1. PICK next \in after : \A s \in after \ {next} : Precedes(next, s)
  <2>1. after \in SUBSET Rows(t) /\ after # {}
    OBVIOUS
  <2>. HIDE DEF after
  <2>. QED  BY <2>1 DEF ChainInv, Ranked
<1> DEFINE before == {s \in Rows(t) : Precedes(s, next)}
           left   == {s \in Rows(t) \ {r} : Precedes(s, next)}
<1>2. next \in Rows(t) /\ next # r /\ Precedes(r, next)
  BY <1>1, RowFacts
<1>3. \A s \in before \ {r} : Precedes(s, r)
  BY <1>1, <1>2, RowFacts
<1>4. Newest(before) = r
  <2>1. r \in before /\ before \in SUBSET Rows(t)
    BY <1>2
  <2>. HIDE DEF before
  <2>. QED  BY <1>3, <2>1, NewestIs
<1>5. next.prev = r.digest
  BY <1>2, <1>4 DEF BrokenLinks
<1>6. a \in left
  BY <1>2, RowFacts
<1>7. Newest(left) \in Rows(t) \ {r}
  <2>1. left \in SUBSET Rows(t) /\ left # {} /\ left \subseteq Rows(t) \ {r}
    BY <1>6
  <2>. HIDE DEF left
  <2>. QED  BY <2>1, NewestIs
<1>8. next.prev # Newest(left).digest
  BY <1>5, <1>7, RowFacts
<1>. QED  BY <1>2, <1>6, <1>8 DEF BrokenLinks

\* For any number of writers: a changed field or link is reported for the row
\* that has it, and so is the removal of a row between two others.
THEOREM TamperingReportedHolds == Spec => []TamperingReported
<1>1. LedgerInv /\ ChainInv => TamperingReported
  <2> SUFFICES ASSUME LedgerInv, ChainInv, NEW t \in Tenants, NEW r \in Rows(t)
               PROVE  /\ \A f \in Forged(r) : <<r.trace, "digest_mismatch">>
                                                \in VerifyChain((Rows(t) \ {r}) \union {f})
                      /\ VerifyChain(Rows(t)) = {}
                         /\ (\E a, b \in Rows(t) \ {r} : Precedes(a, r) /\ Precedes(r, b))
                            => VerifyChain(Rows(t) \ {r}) # {}
    BY DEF TamperingReported
  <2>1. \A S : VerifyChain(S) = {} => BrokenLinks(S) = {}
    BY DEF VerifyChain
  <2>2. ASSUME NEW f \in Forged(r)
        PROVE  <<r.trace, "digest_mismatch">> \in VerifyChain((Rows(t) \ {r}) \union {f})
    BY ForgeryReported
  <2>. QED  BY <2>1, <2>2, DeletionReported
<1>. QED  BY <1>1, ChainInvariant, PTL
=============================================================================
