----------------------------- MODULE SyncProofs -----------------------------
(***************************************************************************)
(* Proofs about the two state machines that a directory feeds: AclSync,    *)
(* who may read, and Identity, who a query runs as.                        *)
(*                                                                         *)
(* AclSync: types, the inductive invariant SyncInv and the two action      *)
(* properties that follow from it, for every number of tenants, whether    *)
(* they share stores or not, tuples, source changes and both kinds of sink.*)
(*                                                                         *)
(* Identity: the inductive invariant IdentityInv, that a principal stands  *)
(* for one person, and that a query runs as the principal its token        *)
(* resolved to, for every number of people, addresses, requests and syncs. *)
(***************************************************************************)
EXTENDS AclSync, Identity, FiniteSetTheorems, SequenceTheorems, TLAPS

-----------------------------------------------------------------------------
(* Types *)

\* The tuples of a tenant are tuples.
LEMMA GrantsAreTuples == \A t \in Tenants : Grants[t] \subseteq Tuples
BY DEF Tuples

\* The event of a source change is a change.
LEMMA EventTyping ==
    ASSUME NEW n \in Nat, NEW g \in Tuples, NEW type \in ChangeTypes
    PROVE  [type |-> type, tuple |-> g, nth |-> n] \in Change
BY DEF Change

\* The initial states are well typed.
LEMMA TypeInit == Init => TypeOK
<1> SUFFICES ASSUME Init PROVE TypeOK
  OBVIOUS
<1> USE SyncAssumption, GrantsAreTuples
<1>1. changes \in [Tenants -> Seq(Change)] /\ \A t \in Tenants : Len(changes[t]) <= Capacity
  BY DEF Init
<1>2. /\ \A t \in Tenants : source[t] \subseteq Grants[t] /\ absent[t] \subseteq Grants[t]
      /\ source \in [Tenants -> SUBSET Tuples] /\ absent \in [Tenants -> SUBSET Tuples]
  BY DEF Init
<1>3. /\ left \in [Tenants -> Nat] /\ strict \in BOOLEAN
      /\ mode \in [Tenants -> ServiceModes]
  BY DEF Init
<1>4. pc \in [Tenants -> Steps]
  BY DEF Init, Steps
<1>. QED  BY <1>1, <1>2, <1>3, <1>4 DEF Init, TypeOK

\* A request, accepted or lost, leaves sets of tuples in the stores.
LEMMA StoreTyping ==
    ASSUME TypeOK, NEW t \in Tenants, NEW W \in SUBSET Tuples, NEW D
    PROVE  /\ Applied(t, W, D) \in [Stores -> SUBSET Tuples]
           /\ Lost(t, W, D) => store' \in [Stores -> SUBSET Tuples]
<1>1. store \in [Stores -> SUBSET Tuples]
  BY DEF TypeOK
<1>2. Applied(t, W, D) \in [Stores -> SUBSET Tuples]
  BY <1>1 DEF Applied
<1>. QED  BY <1>1, <1>2 DEF Lost

\* What a request writes are tuples.
LEMMA RequestTyping ==
    ASSUME TypeOK, NEW t \in Tenants
    PROVE  /\ ToWrite(t) \in SUBSET Tuples
           /\ Writes(change[t]) \in SUBSET Tuples
BY DEF TypeOK, ToWrite, Writes, Change, NoChange

\* A request leaves the marks it should.
LEMMA DisturbTyping ==
    ASSUME TypeOK, NEW t \in Tenants, Disturb(t)
    PROVE  disturbed' \in [Tenants -> BOOLEAN]
BY DEF TypeOK, Disturb

\* Every step preserves the types.
LEMMA TypeStep == TypeOK /\ [Next]_vars => TypeOK'
<1> SUFFICES ASSUME TypeOK, [Next]_vars PROVE TypeOK'
  OBVIOUS
<1> USE DEF srcVars, storeVars, deployVars, Goto
<1>1. ASSUME NEW t \in Tenants, NEW g \in Grants[t], NEW type \in ChangeTypes,
             SourceChanges(t, g, type) PROVE TypeOK'
  <2>1. g \in Tuples
    BY GrantsAreTuples
  <2> DEFINE event == [type |-> type, tuple |-> g, nth |-> left[t]]
  <2>2. event \in Change
    BY <1>1, <2>1, EventTyping DEF SourceChanges, TypeOK
  <2>3. emitting \in [Tenants -> SUBSET Change]
    BY DEF TypeOK
  <2>4. emitting' \in [Tenants -> SUBSET Change]
    <3>1. emitting' = [emitting EXCEPT ![t] = IF g \in Evented THEN @ \union {event} ELSE @]
      BY <1>1 DEF SourceChanges
    <3>. HIDE DEF event
    <3>. QED  BY <2>2, <2>3, <3>1
  <2>5. left' \in [Tenants -> Nat]
    BY <1>1 DEF SourceChanges, TypeOK
  <2>6. /\ \A u \in Tenants : source'[u] \subseteq Grants[u] /\ absent'[u] \subseteq Grants[u]
        /\ source' \in [Tenants -> SUBSET Tuples] /\ absent' \in [Tenants -> SUBSET Tuples]
    BY <1>1, <2>1 DEF SourceChanges, TypeOK
  <2>. QED  BY <1>1, <2>4, <2>5, <2>6 DEF SourceChanges, TypeOK
<1>2. ASSUME NEW t \in Tenants, NEW c \in emitting[t], Emit(t, c) PROVE TypeOK'
  <2>0. c \in Change
    BY DEF TypeOK
  <2>1. changes' \in [Tenants -> Seq(Change)] /\ \A u \in Tenants : Len(changes'[u]) <= Capacity
    BY <1>2, <2>0, AppendProperties, SyncAssumption DEF Emit, TypeOK
  <2>2. emitting' \in [Tenants -> SUBSET Change]
    BY <1>2 DEF Emit, TypeOK
  <2>. QED  BY <1>2, <2>1, <2>2 DEF Emit, TypeOK
<1>3. ASSUME NEW t \in Tenants, TakeSnapshot(t) \/ TakeEmptySnapshot(t) \/ ListTuples(t)
      PROVE  TypeOK'
  <2>1. source[t] \subseteq Tuples
    BY GrantsAreTuples DEF TypeOK
  <2>2. StoreOf[t] \in Stores
    BY DEF Stores
  <2>3. CASE TakeSnapshot(t)
    BY <2>1, <2>3 DEF TypeOK, TakeSnapshot, Steps
  <2>4. CASE TakeEmptySnapshot(t)
    BY <2>4 DEF TypeOK, TakeEmptySnapshot, Steps
  <2>5. CASE ListTuples(t)
    BY <2>2, <2>5 DEF TypeOK, ListTuples, Steps
  <2>. QED  BY <1>3, <2>3, <2>4, <2>5
<1>4. ASSUME NEW t \in Tenants, WriteMissing(t) PROVE TypeOK'
  BY <1>4, StoreTyping, RequestTyping, DisturbTyping DEF TypeOK, WriteMissing, Steps
<1>5. ASSUME NEW t \in Tenants, DeleteExtra(t) PROVE TypeOK'
  BY <1>5, StoreTyping, DisturbTyping DEF TypeOK, DeleteExtra, Steps
<1>6. ASSUME NEW t \in Tenants, SyncFails(t) PROVE TypeOK'
  <2>1. store' \in [Stores -> SUBSET Tuples]
    BY <1>6, StoreTyping, RequestTyping DEF SyncFails, TypeOK
  <2>. QED  BY <1>6, <2>1, DisturbTyping DEF TypeOK, SyncFails, Steps
<1>7. ASSUME NEW t \in Tenants, ReceiveChange(t) PROVE TypeOK'
  <2>1. Head(changes[t]) \in Change /\ Tail(changes[t]) \in Seq(Change)
        /\ Len(Tail(changes[t])) <= Capacity
    BY <1>7, HeadTailProperties, SyncAssumption DEF ReceiveChange, TypeOK
  <2>. QED  BY <1>7, <2>1 DEF TypeOK, ReceiveChange, Steps
<1>8. ASSUME NEW t \in Tenants, ApplyChange(t) PROVE TypeOK'
  BY <1>8, StoreTyping, RequestTyping, DisturbTyping DEF TypeOK, ApplyChange, Steps
<1>9. ASSUME NEW t \in Tenants, ApplyFails(t) PROVE TypeOK'
  BY <1>9, StoreTyping, RequestTyping, DisturbTyping DEF TypeOK, ApplyFails, Steps
<1>10. ASSUME NEW t \in Tenants, SyncTick(t) \/ SyncRefused(t) \/ Shutdown(t) PROVE TypeOK'
  BY <1>10 DEF TypeOK, SyncTick, SyncRefused, Shutdown, Steps
<1>11. CASE UNCHANGED vars
  BY <1>11 DEF TypeOK, vars
<1>. QED
  BY <1>1, <1>2, <1>3, <1>4, <1>5, <1>6, <1>7, <1>8, <1>9, <1>10, <1>11 DEF Next

\* AclSync is type correct.
THEOREM SyncTypeCorrect == Spec => []TypeOK
<1>. QED  BY TypeInit, TypeStep, PTL DEF Spec

-----------------------------------------------------------------------------
(* The inductive invariant *)

\* What a service does between two select statements.
ServiceStep(t) ==
    \/ TakeSnapshot(t) \/ TakeEmptySnapshot(t) \/ ListTuples(t)
    \/ WriteMissing(t) \/ DeleteExtra(t) \/ SyncFails(t) \/ SyncRefused(t)
    \/ ReceiveChange(t) \/ SyncTick(t)
    \/ ApplyChange(t) \/ ApplyFails(t) \/ Shutdown(t)

\* A step is one of the source, of emit, of one service, or none at all.
LEMMA StepKinds ==
    ASSUME [Next]_vars
    PROVE  \/ \E t \in Tenants : \E g \in Grants[t], type \in ChangeTypes : SourceChanges(t, g, type)
           \/ \E t \in Tenants : \E c \in emitting[t] : Emit(t, c)
           \/ \E t \in Tenants : ServiceStep(t)
           \/ UNCHANGED vars
BY DEF Next, ServiceStep

\* A service step leaves the source, and the locals of other services, alone.
LEMMA ServiceLocal ==
    ASSUME TypeOK, NEW t \in Tenants, ServiceStep(t)
    PROVE  /\ UNCHANGED srcVars
           /\ \A u \in Tenants \ {t} :
                /\ pc'[u] = pc[u] /\ desired'[u] = desired[u] /\ have'[u] = have[u]
                /\ changes'[u] = changes[u] /\ change'[u] = change[u]
<1> USE DEF srcVars, storeVars, deployVars, Goto
<1>1. /\ pc \in [Tenants -> Steps] /\ DOMAIN desired = Tenants /\ DOMAIN have = Tenants
      /\ DOMAIN changes = Tenants /\ DOMAIN change = Tenants
  BY DEF TypeOK
<1>2. UNCHANGED srcVars
  BY DEF ServiceStep, TakeSnapshot, TakeEmptySnapshot, ListTuples, WriteMissing, DeleteExtra,
         SyncFails, SyncRefused, ReceiveChange, SyncTick, ApplyChange, ApplyFails, Shutdown
<1>3. ASSUME NEW u \in Tenants \ {t}
      PROVE  /\ pc'[u] = pc[u] /\ desired'[u] = desired[u] /\ have'[u] = have[u]
             /\ changes'[u] = changes[u] /\ change'[u] = change[u]
  <2>1. CASE TakeSnapshot(t) \/ TakeEmptySnapshot(t) \/ ListTuples(t)
    BY <1>1, <2>1 DEF TakeSnapshot, TakeEmptySnapshot, ListTuples
  <2>2. CASE WriteMissing(t) \/ DeleteExtra(t) \/ SyncFails(t) \/ SyncRefused(t)
    BY <1>1, <2>2 DEF WriteMissing, DeleteExtra, SyncFails, SyncRefused
  <2>3. CASE ReceiveChange(t) \/ SyncTick(t)
    BY <1>1, <2>3 DEF ReceiveChange, SyncTick
  <2>4. CASE ApplyChange(t) \/ ApplyFails(t) \/ Shutdown(t)
    BY <1>1, <2>4 DEF ApplyChange, ApplyFails, Shutdown
  <2>. QED  BY <2>1, <2>2, <2>3, <2>4 DEF ServiceStep
<1>. QED  BY <1>2, <1>3

\* The only requests a service sends, and what may become of each.
LEMMA ServiceStore ==
    ASSUME TypeOK, NEW t \in Tenants, ServiceStep(t)
    PROVE  \/ store' = store
           \/ pc[t] = "write" /\ store' = Applied(t, ToWrite(t), {})
           \/ pc[t] = "delete" /\ store' = Applied(t, {}, ToDelete(t))
           \/ pc[t] = "apply" /\ store' = Applied(t, Writes(change[t]), Deletes(change[t]))
<1>1. CASE TakeSnapshot(t) \/ TakeEmptySnapshot(t) \/ ListTuples(t) \/ ReceiveChange(t)
           \/ SyncTick(t) \/ SyncRefused(t) \/ Shutdown(t)
  BY <1>1 DEF TakeSnapshot, TakeEmptySnapshot, ListTuples, ReceiveChange, SyncTick,
              SyncRefused, Shutdown, storeVars
<1>2. CASE WriteMissing(t) \/ DeleteExtra(t) \/ ApplyChange(t)
  BY <1>2 DEF WriteMissing, DeleteExtra, ApplyChange
<1>3. CASE SyncFails(t) \/ ApplyFails(t)
  BY <1>3 DEF SyncFails, ApplyFails, Lost
<1>. QED  BY <1>1, <1>2, <1>3 DEF ServiceStep

\* A service that is not told of a disturbance was not disturbed: the step of
\* another service left its store alone.
LEMMA UndisturbedStore ==
    ASSUME TypeOK, NEW t \in Tenants, ServiceStep(t), NEW u \in Tenants \ {t}, ~disturbed'[u]
    PROVE  ~disturbed[u] /\ store'[StoreOf[u]] = store[StoreOf[u]]
<1>0. StoreOf[u] \in Stores /\ DOMAIN store = Stores /\ DOMAIN disturbed = Tenants
  BY DEF Stores, TypeOK
<1>1. CASE Disturb(t)
  <2>1. ~disturbed[u] /\ (StoreOf[u] = StoreOf[t] => store' = store)
    BY <1>1 DEF Disturb
  <2>2. \A W, D : StoreOf[u] # StoreOf[t] => Applied(t, W, D)[StoreOf[u]] = store[StoreOf[u]]
    BY <1>0 DEF Applied
  <2>. QED  BY <2>1, <2>2, ServiceStore
<1>2. CASE ListTuples(t)
  BY <1>0, <1>2 DEF ListTuples
<1>3. CASE ~ListTuples(t) /\ ~Disturb(t)
  BY <1>3 DEF ServiceStep, TakeSnapshot, TakeEmptySnapshot, WriteMissing, DeleteExtra, SyncFails,
              SyncRefused, ReceiveChange, SyncTick, ApplyChange, ApplyFails, Shutdown, storeVars
<1>. QED  BY <1>1, <1>2, <1>3

\* The request of a service changes its store as it says.
LEMMA OwnStoreApplied ==
    ASSUME TypeOK, NEW t \in Tenants
    PROVE  /\ Applied(t, ToWrite(t), {})[StoreOf[t]] = store[StoreOf[t]] \union ToWrite(t)
           /\ Applied(t, {}, ToDelete(t))[StoreOf[t]] = store[StoreOf[t]] \ ToDelete(t)
           /\ Applied(t, Writes(change[t]), Deletes(change[t]))[StoreOf[t]]
                = (store[StoreOf[t]] \union Writes(change[t])) \ Deletes(change[t])
<1>1. StoreOf[t] \in Stores /\ DOMAIN store = Stores
  BY DEF Stores, TypeOK
<1>. QED  BY <1>1 DEF Applied

\* The history variable stays complete, and only grows.
LEMMA AbsentStep ==
    ASSUME TypeOK, AbsentComplete, [Next]_vars
    PROVE  AbsentComplete' /\ \A u \in Tenants : absent[u] \subseteq absent'[u]
<1>1. ASSUME NEW t \in Tenants, NEW g \in Grants[t], NEW type \in ChangeTypes,
             SourceChanges(t, g, type)
      PROVE  AbsentComplete' /\ \A u \in Tenants : absent[u] \subseteq absent'[u]
  <2>1. DOMAIN source = Tenants /\ DOMAIN absent = Tenants
    BY DEF TypeOK
  <2>2. \A u \in Tenants \ {t} : source'[u] = source[u] /\ absent'[u] = absent[u]
    BY <1>1, <2>1 DEF SourceChanges
  <2>3. \/ source'[t] = source[t] \union {g} /\ absent'[t] = absent[t]
        \/ source'[t] = source[t] \ {g} /\ absent'[t] = absent[t] \union {g}
    BY <1>1, <2>1 DEF SourceChanges
  <2>. QED  BY <2>2, <2>3 DEF AbsentComplete
<1>2. ASSUME UNCHANGED <<source, absent>>
      PROVE  AbsentComplete' /\ \A u \in Tenants : absent[u] \subseteq absent'[u]
  BY <1>2 DEF AbsentComplete
<1>3. ASSUME NEW t \in Tenants, ServiceStep(t) PROVE UNCHANGED <<source, absent>>
  BY <1>3, ServiceLocal DEF srcVars
<1>. QED  BY <1>1, <1>2, <1>3, StepKinds DEF Emit, vars, srcVars

\* Snapshots are taken from the source and do not go stale in what matters.
LEMMA SnapshotStep == SyncInv /\ [Next]_vars => SnapshotSound'
<1> SUFFICES ASSUME SyncInv, [Next]_vars, NEW u \in Tenants,
                    pc'[u] \in {"list", "write", "delete"}, desired'[u] # {}
             PROVE  Grants[u] \ absent'[u] \subseteq desired'[u]
  BY DEF SnapshotSound
<1>0. TypeOK /\ absent[u] \subseteq absent'[u]
  BY AbsentStep DEF SyncInv
<1>1. CASE pc'[u] = pc[u] /\ desired'[u] = desired[u]
  BY <1>0, <1>1 DEF SyncInv, SnapshotSound
<1>2. CASE ServiceStep(u)
  <2>0. DOMAIN desired = Tenants /\ DOMAIN pc = Tenants
    BY <1>0 DEF TypeOK
  <2>1. CASE TakeSnapshot(u)
    BY <1>0, <2>0, <2>1 DEF TakeSnapshot, SyncInv, AbsentComplete
  <2>2. CASE TakeEmptySnapshot(u)
    BY <2>0, <2>2 DEF TakeEmptySnapshot
  <2>3. CASE ListTuples(u) \/ WriteMissing(u)
    <3>1. pc[u] \in {"list", "write"} /\ desired'[u] = desired[u]
      BY <2>3 DEF ListTuples, WriteMissing
    <3>. QED  BY <1>0, <3>1 DEF SyncInv, SnapshotSound
  <2>4. CASE DeleteExtra(u) \/ SyncFails(u) \/ SyncRefused(u) \/ ReceiveChange(u) \/ SyncTick(u)
             \/ ApplyChange(u) \/ ApplyFails(u) \/ Shutdown(u)
    BY <2>0, <2>4 DEF DeleteExtra, SyncFails, SyncRefused, ReceiveChange, SyncTick, ApplyChange,
                      ApplyFails, Shutdown, Goto
  <2>. QED  BY <1>2, <2>1, <2>2, <2>3, <2>4 DEF ServiceStep
<1>3. ASSUME NEW t \in Tenants, ServiceStep(t), t # u
      PROVE  pc'[u] = pc[u] /\ desired'[u] = desired[u]
  BY <1>0, <1>3, ServiceLocal
<1>. QED  BY <1>1, <1>2, <1>3, StepKinds DEF SourceChanges, Emit, vars

\* Revocations in the channel are of tuples that were absent.
LEMMA EventsStep == SyncInv /\ [Next]_vars => EventsSound'
<1> DEFINE Sound(u) == /\ \A c \in emitting[u] : RevokedOnce(u, c)
                       /\ \A k \in 1..Len(changes[u]) : RevokedOnce(u, changes[u][k])
                       /\ RevokedOnce(u, change[u])
<1> SUFFICES ASSUME SyncInv, [Next]_vars, NEW u \in Tenants PROVE Sound(u)'
  BY DEF EventsSound
<1>0. /\ absent[u] \subseteq absent'[u] /\ Sound(u)
      /\ emitting \in [Tenants -> SUBSET Change] /\ changes \in [Tenants -> Seq(Change)]
      /\ DOMAIN change = Tenants /\ DOMAIN absent = Tenants
  BY AbsentStep DEF SyncInv, EventsSound, TypeOK
<1>1. ASSUME emitting'[u] \subseteq emitting[u], changes'[u] = changes[u], change'[u] = change[u]
      PROVE  Sound(u)'
  BY <1>0, <1>1 DEF RevokedOnce
<1>2. ASSUME NEW t \in Tenants, NEW g \in Grants[t], NEW type \in ChangeTypes,
             SourceChanges(t, g, type) PROVE Sound(u)'
  <2>1. CASE t # u
    <3>1. emitting'[u] = emitting[u] /\ changes' = changes /\ change' = change
      BY <1>0, <1>2, <2>1 DEF SourceChanges
    <3>. QED  BY <1>1, <3>1
  <2>2. CASE t = u
    <3> DEFINE event == [type |-> type, tuple |-> g, nth |-> left[u]]
    <3>1. emitting'[u] \subseteq emitting[u] \union {event} /\ changes' = changes /\ change' = change
      BY <1>0, <1>2, <2>2 DEF SourceChanges
    <3>2. type = "revoke" => g \in absent'[u]
      BY <1>0, <1>2, <2>2 DEF SourceChanges, ChangeTypes
    <3>3. event.type = type /\ event.tuple = g
      OBVIOUS
    <3>. HIDE DEF event
    <3>. QED  BY <1>0, <3>1, <3>2, <3>3 DEF RevokedOnce
  <2>. QED  BY <2>1, <2>2
<1>3. ASSUME NEW t \in Tenants, NEW c \in emitting[t], Emit(t, c) PROVE Sound(u)'
  <2>1. emitting'[u] \subseteq emitting[u] /\ change' = change
    BY <1>0, <1>3 DEF Emit
  <2>2. \/ changes'[u] = changes[u]
        \/ changes'[u] = Append(changes[u], c) /\ c \in emitting[u]
    BY <1>0, <1>3 DEF Emit
  <2>3. CASE changes'[u] = Append(changes[u], c) /\ c \in emitting[u]
    <3>1. \A k \in 1..Len(changes'[u]) : changes'[u][k] = c \/
             (k \in 1..Len(changes[u]) /\ changes'[u][k] = changes[u][k])
      BY <1>0, <2>3, AppendProperties
    <3>. QED  BY <1>0, <2>1, <2>3, <3>1 DEF RevokedOnce
  <2>. QED  BY <1>1, <2>1, <2>2, <2>3
<1>4. ASSUME NEW t \in Tenants, ServiceStep(t), t # u PROVE Sound(u)'
  <2>1. emitting' = emitting /\ changes'[u] = changes[u] /\ change'[u] = change[u]
    BY <1>4, ServiceLocal DEF SyncInv, srcVars
  <2>. QED  BY <1>1, <2>1
<1>5. ASSUME ServiceStep(u) PROVE Sound(u)'
  <2>0. emitting' = emitting
    BY <1>5, ServiceLocal DEF SyncInv, srcVars
  <2>1. CASE ReceiveChange(u)
    <3>1. /\ change'[u] = changes[u][1] /\ Len(changes[u]) > 0
          /\ changes'[u] = Tail(changes[u])
      BY <1>0, <2>1, HeadTailProperties DEF ReceiveChange
    <3>2. \A k \in 1..Len(changes'[u]) : k + 1 \in 1..Len(changes[u])
                                        /\ changes'[u][k] = changes[u][k + 1]
      BY <1>0, <3>1, HeadTailProperties
    <3>3. 1 \in 1..Len(changes[u])
      BY <1>0, <3>1
    <3>. QED  BY <1>0, <2>0, <3>1, <3>2, <3>3 DEF RevokedOnce
  <2>2. CASE ApplyChange(u)
    <3>1. changes' = changes /\ change'[u] = NoChange
      BY <1>0, <2>2 DEF ApplyChange
    <3>. QED  BY <1>0, <2>0, <3>1 DEF RevokedOnce, NoChange
  <2>3. CASE ~ReceiveChange(u) /\ ~ApplyChange(u)
    <3>1. changes' = changes /\ change' = change
      BY <1>5, <2>3 DEF ServiceStep, TakeSnapshot, TakeEmptySnapshot, ListTuples, WriteMissing,
                        DeleteExtra, SyncFails, SyncRefused, SyncTick, ApplyFails, Shutdown
    <3>. QED  BY <1>1, <2>0, <3>1
  <2>. QED  BY <2>1, <2>2, <2>3
<1>6. CASE UNCHANGED vars
  BY <1>1, <1>6 DEF vars, srcVars
<1>. HIDE DEF Sound
<1>. QED  BY <1>2, <1>3, <1>4, <1>5, <1>6, StepKinds

\* Between two of its calls only the service itself changes its store, or it
\* is told.
LEMMA ListingStep == SyncInv /\ [Next]_vars => ListingCurrent'
<1> SUFFICES ASSUME SyncInv, [Next]_vars, NEW u \in Tenants, ~disturbed'[u]
             PROVE  /\ pc'[u] = "write" => store'[StoreOf[u]] = have'[u]
                    /\ pc'[u] = "delete" => store'[StoreOf[u]] = have'[u] \union desired'[u]
  BY DEF ListingCurrent
<1>0. TypeOK /\ DOMAIN have = Tenants /\ DOMAIN pc = Tenants /\ DOMAIN disturbed = Tenants
  BY DEF SyncInv, TypeOK
<1>1. CASE pc'[u] = pc[u] /\ have'[u] = have[u] /\ desired'[u] = desired[u]
           /\ store'[StoreOf[u]] = store[StoreOf[u]] /\ ~disturbed[u]
  BY <1>1 DEF SyncInv, ListingCurrent
<1>2. CASE ServiceStep(u)
  <2>1. CASE ListTuples(u)
    BY <1>0, <2>1 DEF ListTuples, Goto
  <2>2. CASE WriteMissing(u)
    <3>1. /\ pc[u] = "write" /\ pc'[u] = "delete" /\ have' = have /\ desired' = desired
          /\ store' = Applied(u, ToWrite(u), {}) /\ ~disturbed[u]
      BY <1>0, <2>2 DEF WriteMissing, Goto, Disturb
    <3>2. store'[StoreOf[u]] = store[StoreOf[u]] \union ToWrite(u)
      BY <1>0, <3>1, OwnStoreApplied
    <3>. QED  BY <3>1, <3>2 DEF SyncInv, ListingCurrent, ToWrite
  <2>3. CASE ApplyFails(u)
    BY <2>3 DEF ApplyFails
  <2>4. CASE ~ListTuples(u) /\ ~WriteMissing(u) /\ ~ApplyFails(u)
    <3>1. pc'[u] \notin {"write", "delete"}
      BY <1>0, <1>2, <2>4 DEF ServiceStep, TakeSnapshot, TakeEmptySnapshot, DeleteExtra, SyncFails,
              SyncRefused, ReceiveChange, SyncTick, ApplyChange, Shutdown, Goto
    <3>. QED  BY <3>1
  <2>. QED  BY <2>1, <2>2, <2>3, <2>4
<1>3. ASSUME NEW t \in Tenants, ServiceStep(t), t # u
      PROVE  pc'[u] = pc[u] /\ have'[u] = have[u] /\ desired'[u] = desired[u]
             /\ store'[StoreOf[u]] = store[StoreOf[u]] /\ ~disturbed[u]
  BY <1>0, <1>3, ServiceLocal, UndisturbedStore
<1>. QED  BY <1>1, <1>2, <1>3, StepKinds DEF SourceChanges, Emit, vars, storeVars

\* The invariant holds initially.
LEMMA SyncInit == Init => SyncInv
<1> SUFFICES ASSUME Init PROVE SyncInv
  OBVIOUS
<1>1. TypeOK
  BY TypeInit
<1>2. AbsentComplete /\ SnapshotSound /\ ListingCurrent
  BY SyncAssumption DEF Init, AbsentComplete, SnapshotSound, ListingCurrent
<1>3. EventsSound
  BY DEF Init, EventsSound, RevokedOnce, NoChange
<1>. QED  BY <1>1, <1>2, <1>3 DEF SyncInv

\* SyncInv holds in every reachable state, whoever shares a store.
THEOREM SyncInvariant == Spec => []SyncInv
<1>1. SyncInv /\ [Next]_vars => SyncInv'
  BY TypeStep, AbsentStep, SnapshotStep, EventsStep, ListingStep DEF SyncInv
<1>. QED  BY <1>1, SyncInit, PTL DEF Spec

-----------------------------------------------------------------------------
(* The action properties *)

\* What the requests of a service delete was absent from its source.
LEMMA DeletesAbsent ==
    ASSUME SyncInv, NEW t \in Tenants
    PROVE  /\ pc[t] = "delete" => ToDelete(t) \intersect Grants[t] \subseteq absent[t]
           /\ Deletes(change[t]) \subseteq absent[t]
BY DEF SyncInv, SnapshotSound, EventsSound, RevokedOnce, ToDelete, Deletes

\* A tuple only ever leaves a store by a service whose own source has not
\* granted it all along: for every sink, outage, order of events and sharing
\* of stores.
THEOREM GrantsKeptHolds == Spec => GrantsKept
<1> DEFINE Kept == \A s \in Stores : \A g \in store[s] \ store'[s] :
                      \E t \in Tenants : /\ StoreOf[t] = s /\ pc[t] \in {"delete", "apply"}
                                         /\ g \notin Grants[t] \ absent[t]
<1>1. SyncInv /\ [Next]_vars => [Kept]_vars
  <2> SUFFICES ASSUME SyncInv, [Next]_vars, NEW s \in Stores,
                      NEW g \in store[s], g \notin store'[s]
               PROVE  \E t \in Tenants : /\ StoreOf[t] = s /\ pc[t] \in {"delete", "apply"}
                                         /\ g \notin Grants[t] \ absent[t]
    OBVIOUS
  <2>0. TypeOK /\ DOMAIN store = Stores
    BY DEF SyncInv, TypeOK
  <2>1. store' # store
    OBVIOUS
  <2>2. PICK t \in Tenants : ServiceStep(t)
    BY <2>1, StepKinds DEF SourceChanges, Emit, vars, storeVars
  <2>3. \/ pc[t] = "write" /\ store' = Applied(t, ToWrite(t), {})
        \/ pc[t] = "delete" /\ store' = Applied(t, {}, ToDelete(t))
        \/ pc[t] = "apply" /\ store' = Applied(t, Writes(change[t]), Deletes(change[t]))
    BY <2>0, <2>1, <2>2, ServiceStore
  <2>4. StoreOf[t] = s
    <3>1. \A W, D : StoreOf[t] # s => Applied(t, W, D)[s] = store[s]
      BY <2>0 DEF Applied
    <3>. QED  BY <2>3, <3>1
  <2>5. pc[t] \in {"delete", "apply"} /\ g \notin Grants[t] \ absent[t]
    BY <2>0, <2>3, <2>4, OwnStoreApplied, DeletesAbsent
  <2>. QED  BY <2>4, <2>5
<1>. QED  BY <1>1, SyncInvariant, PTL DEF Spec, GrantsKept

\* A sync that completes on a snapshot that is not empty leaves exactly that
\* snapshot in the store, unless another service changed the store since the
\* sync listed it.
THEOREM SyncEstablishesSnapshotHolds == Spec => SyncEstablishesSnapshot
<1> DEFINE Completed == \A t \in Tenants :
              pc[t] = "delete" /\ (pc'[t] = "select" \/ initial'[t] # initial[t])
                  => desired[t] = {} \/ disturbed[t] \/ store'[StoreOf[t]] = desired[t]
<1>1. SyncInv /\ [Next]_vars => [Completed]_vars
  <2> SUFFICES ASSUME SyncInv, [Next]_vars, NEW t \in Tenants, pc[t] = "delete",
                      pc'[t] = "select" \/ initial'[t] # initial[t], desired[t] # {},
                      ~disturbed[t]
               PROVE  store'[StoreOf[t]] = desired[t]
    OBVIOUS
  <2>0. TypeOK /\ DOMAIN pc = Tenants /\ DOMAIN initial = Tenants
    BY DEF SyncInv, TypeOK
  <2>1. PICK u \in Tenants : ServiceStep(u)
    BY StepKinds DEF SourceChanges, Emit, vars
  <2>2. DeleteExtra(t)
    BY <2>0, <2>1 DEF ServiceStep, TakeSnapshot, TakeEmptySnapshot, ListTuples, WriteMissing,
            DeleteExtra, SyncFails, SyncRefused, ReceiveChange, SyncTick, ApplyChange, ApplyFails,
            Shutdown, Goto
  <2>3. store'[StoreOf[t]] = store[StoreOf[t]] \ ToDelete(t)
    BY <2>0, <2>2, OwnStoreApplied DEF DeleteExtra
  <2>. QED  BY <2>3 DEF SyncInv, ListingCurrent, ToDelete
<1>. QED  BY <1>1, SyncInvariant, PTL DEF Spec, SyncEstablishesSnapshot

-----------------------------------------------------------------------------
(* Identity: tokens and assertions *)

\* Persons, addresses and principals are not NoOne.
LEMMA NoOneApart ==
    /\ NoOne \notin People /\ NoOne \notin Mails /\ NoOne \notin Principals
    /\ Foreign \in Principals /\ Home # Abroad /\ Never \in Nat
BY IdentityAssumption DEF Principals, Foreign, Never

\* What a token claims.
LEMMA ClaimsTyping ==
    ASSUME IdentityTypeOK, NEW o \in People, NEW shape \in Shapes
    PROVE  /\ Claims(o, shape) \in Claimed
           /\ Claims(o, shape).oid \in {o, NoOne} /\ Claims(o, shape).sub \in {o, NoOne}
           /\ Claims(o, shape).mail # NoOne => holder[Claims(o, shape).mail] = o
           /\ Claims(o, shape).name # NoOne => holder[Claims(o, shape).name] = o
<1> DEFINE mail == Address("jwt:email", o, holder)
           name == Address("jwt:preferred_username", o, holder)
<1>1. /\ mail \in In("jwt:email") \union {NoOne} /\ (mail # NoOne => holder[mail] = o)
      /\ name \in In("jwt:preferred_username") \union {NoOne} /\ (name # NoOne => holder[name] = o)
  BY DEF Address
<1>2. shape.verified \in BOOLEAN
  BY IdentityAssumption
<1> HIDE DEF mail, name
<1>3. Claims(o, shape) = [oid |-> IF shape.oid THEN o ELSE NoOne,
                          sub |-> IF shape.sub THEN o ELSE NoOne,
                          mail |-> IF shape.mail THEN mail ELSE NoOne,
                          name |-> IF shape.name THEN name ELSE NoOne,
                          verified |-> shape.verified]
  BY DEF Claims, mail, name
<1> QED
  BY <1>1, <1>2, <1>3 DEF Claimed

\* Anonymous, too, is a token.
LEMMA TokensTyping ==
    ASSUME IdentityTypeOK, NEW token \in Tokens
    PROVE  token \in Claimed
<1>1. Anonymous \in Claimed
  BY DEF Anonymous, Claimed
<1> QED
  BY <1>1, ClaimsTyping DEF Tokens

\* The assertions of a token are aliases that it may be resolved by.
LEMMA AssertionsTyping ==
    ASSUME NEW token \in Claimed
    PROVE  /\ verifiedAssertions(token) \subseteq Aliases
           /\ verifiedAssertions(token) \subseteq Trusted(token)
           /\ token.oid # NoOne => <<"entra:id", token.oid>> \in verifiedAssertions(token)
<1>1. token.oid \in People \union {NoOne} /\ token.sub \in People \union {NoOne}
      /\ token.mail \in In("jwt:email") \union {NoOne}
      /\ token.name \in In("jwt:preferred_username") \union {NoOne}
  BY DEF Claimed
<1>2. ASSUME NEW a \in verifiedAssertions(token) PROVE a \in Aliases /\ a \in Trusted(token)
  <2>1. CASE a = <<"entra:id", token.oid>>
    <3>1. token.oid # NoOne
      BY <1>2, <2>1 DEF verifiedAssertions
    <3> QED
      BY <1>1, <2>1, <3>1 DEF Aliases, Trusted
  <2>2. CASE a = <<"jwt:sub", token.sub>>
    <3>1. token.sub # NoOne
      BY <1>2, <2>2 DEF verifiedAssertions
    <3> QED
      BY <1>1, <2>2, <3>1 DEF Aliases, Trusted
  <2>3. CASE a = <<"jwt:email", IF token.verified THEN token.mail ELSE NoOne>>
    <3>1. token.verified /\ token.mail # NoOne
      BY <1>2, <2>3 DEF verifiedAssertions
    <3> QED
      BY <1>1, <2>3, <3>1 DEF Aliases, Trusted, In
  <2>4. CASE a = <<"jwt:preferred_username", IF token.verified THEN token.name ELSE NoOne>>
    <3>1. token.verified /\ token.name # NoOne
      BY <1>2, <2>4 DEF verifiedAssertions
    <3> QED
      BY <1>1, <2>4, <3>1 DEF Aliases, Trusted, In
  <2> QED
    BY <1>2, <2>1, <2>2, <2>3, <2>4 DEF verifiedAssertions
<1>3. token.oid # NoOne => <<"entra:id", token.oid>> \in verifiedAssertions(token)
  BY DEF verifiedAssertions
<1> QED
  BY <1>2, <1>3

\* A token that is issued while addresses are their owners' is about one person.
LEMMA TokenOfOne ==
    ASSUME IdentityTypeOK, \A m \in Mails : holder[m] \in {Owner[m], NoOne},
           NEW token \in Tokens,
           NEW a \in verifiedAssertions(token), NEW b \in verifiedAssertions(token)
    PROVE  PersonOf(a) = PersonOf(b)
<1>1. CASE token = Anonymous
  BY <1>1 DEF Anonymous, verifiedAssertions
<1>2. ASSUME NEW o \in People, NEW shape \in Shapes, token = Claims(o, shape),
             NEW c \in verifiedAssertions(token)
      PROVE  PersonOf(c) = o
  <2>1. token.oid \in {o, NoOne} /\ token.sub \in {o, NoOne} /\ token \in Claimed
        /\ (token.mail # NoOne => holder[token.mail] = o)
        /\ (token.name # NoOne => holder[token.name] = o)
    BY <1>2, ClaimsTyping
  <2>2. token.mail \in Mails \union {NoOne} /\ token.name \in Mails \union {NoOne}
    BY <2>1 DEF Claimed, In
  <2>3. CASE c = <<"entra:id", token.oid>>
    BY <1>2, <2>1, <2>3 DEF verifiedAssertions, PersonOf, Spaces
  <2>4. CASE c = <<"jwt:sub", token.sub>>
    BY <1>2, <2>1, <2>4 DEF verifiedAssertions, PersonOf, Spaces
  <2>5. CASE c = <<"jwt:email", IF token.verified THEN token.mail ELSE NoOne>>
    <3>1. c = <<"jwt:email", token.mail>> /\ token.mail # NoOne
      BY <1>2, <2>5 DEF verifiedAssertions
    <3>2. PersonOf(c) = Owner[token.mail]
      BY <3>1 DEF PersonOf, Spaces
    <3>3. holder[token.mail] = o /\ token.mail \in Mails /\ o # NoOne
      BY <3>1, <2>1, <2>2, NoOneApart
    <3> QED
      BY <3>2, <3>3
  <2>6. CASE c = <<"jwt:preferred_username", IF token.verified THEN token.name ELSE NoOne>>
    <3>1. c = <<"jwt:preferred_username", token.name>> /\ token.name # NoOne
      BY <1>2, <2>6 DEF verifiedAssertions
    <3>2. PersonOf(c) = Owner[token.name]
      BY <3>1 DEF PersonOf, Spaces
    <3>3. holder[token.name] = o /\ token.name \in Mails /\ o # NoOne
      BY <3>1, <2>1, <2>2, NoOneApart
    <3> QED
      BY <3>2, <3>3
  <2> QED
    BY <1>2, <2>3, <2>4, <2>5, <2>6 DEF verifiedAssertions
<1> QED
  BY <1>1, <1>2 DEF Tokens

\* The assertions of a person as a directory lists it stand for that person.
LEMMA DirectoryOfOne ==
    ASSUME NEW o \in People, NEW dir,
           NEW a \in directoryAssertions(o, dir)
    PROVE  /\ a \in Aliases
           /\ (\A m \in Mails : dir[m] \in {Owner[m], NoOne}) => PersonOf(a) = o
<1>1. CASE a = <<"entra:id", o>>
  BY <1>1 DEF Aliases, PersonOf, Spaces
<1>2. ASSUME NEW m \in Mails, dir[m] = o, a = <<Space[m], m>>
      PROVE  /\ a \in Aliases
             /\ (\A n \in Mails : dir[n] \in {Owner[n], NoOne}) => PersonOf(a) = o
  <2>1. Space[m] \in Spaces
    BY IdentityAssumption
  <2> QED
    BY <1>2, <2>1, NoOneApart DEF Aliases, PersonOf
<1> QED
  BY <1>1, <1>2 DEF directoryAssertions

\* Resolve names the principal of one of the assertions.
LEMMA ResolveFinds ==
    ASSUME NEW tenant, NEW A, Resolve(tenant, A) # NoOne
    PROVE  \E a \in A : aliases[tenant][a] = Resolve(tenant, A) /\ aliases[tenant][a] # NoOne
<1> DEFINE known == {a \in A : aliases[tenant][a] # NoOne}
           first(a) == \A b \in known : Rank(a) <= Rank(b)
           c == CHOOSE a \in known : first(a)
<1>1. known # {} /\ Resolve(tenant, A) = aliases[tenant][c]
  BY DEF Resolve
<1>2. \E a \in known : first(a)
  <2>1. \A a : Rank(a) \in {1, 2, 3, 4}
    BY DEF Rank
  <2> HIDE DEF Rank, known
  <2>2. CASE \E a \in known : Rank(a) = 1
    BY <2>1, <2>2
  <2>3. CASE ~(\E a \in known : Rank(a) = 1) /\ \E a \in known : Rank(a) = 2
    BY <2>1, <2>3
  <2>4. CASE \A a \in known : Rank(a) \in {3, 4}
    <3>1. CASE \E a \in known : Rank(a) = 3
      BY <2>4, <3>1
    <3>2. CASE ~(\E a \in known : Rank(a) = 3)
      BY <1>1, <2>4, <3>2
    <3> QED
      BY <3>1, <3>2
  <2>5. CASE ~(\E a \in known : Rank(a) = 1) /\ ~(\E a \in known : Rank(a) = 2)
    BY <2>1, <2>4, <2>5
  <2> QED
    BY <2>2, <2>3, <2>5
<1>3. c \in known
  <2> HIDE DEF first, known
  <2> QED
    BY <1>2
<1> QED
  BY <1>1, <1>3

-----------------------------------------------------------------------------
(* Identity: requests and the cache *)

\* The request q goes by the principal p.
GoesBy(q, p) ==
    \/ q.pc = "storing" /\ q.principal = p
    \/ q.pc = "executing" /\ q.user[1] = "principal" /\ q.user[2] = p

\* The request q fits the state.
FitRequest(q) ==
    /\ q.pc \in {"idle", "resolving", "storing", "executing"}
    /\ q.pc # "idle" =>
        /\ q.tenant \in BothTenants /\ q.token \in Claimed
        /\ q.pc = "storing" => /\ DOMAIN q = {"pc", "tenant", "token", "principal", "age"}
                               /\ q.principal \in Principals /\ q.age \in 0..Lag
        /\ q.pc = "executing" /\ q.user[1] = "principal" => q.user[2] \in Principals
    /\ q.pc \in {"resolving", "storing"} => config.canonical /\ q.token # Anonymous
    /\ q.pc # "idle" /\ q.tenant = Abroad => \A p : GoesBy(q, p) => p = Foreign
    /\ q.pc = "storing" /\ q.tenant = Home =>
        \E a \in verifiedAssertions(q.token) : since[a][q.principal] <= q.age
    /\ recycled = {} /\ q.pc # "idle" =>
        /\ \A a, b \in verifiedAssertions(q.token) : PersonOf(a) = PersonOf(b)
        /\ q.tenant = Home =>
            \A p \in Principals : \A a \in verifiedAssertions(q.token) :
                GoesBy(q, p) => Used(PersonOf(a), p)

\* The entry e of the cache for k fits the state.
FitEntry(k, e) ==
    /\ k \in Keys /\ e \in [principal : Principals, left : 1..TTL]
    /\ k[1] = Abroad => e.principal = Foreign
    /\ k[1] = Home => \E a \in k[2] : since[a][e.principal] + e.left <= TTL + Lag
    /\ recycled = {} /\ k[1] = Home => \A a \in k[2] : Used(PersonOf(a), e.principal)

\* Those that are there do.
LEMMA AllFit ==
    ASSUME IdentityInv
    PROVE  /\ \A r \in Slots : FitRequest(reqs[r])
           /\ \A k \in DOMAIN cache : FitEntry(k, cache[k])
<1>1. Shaped /\ IdentityTypeOK /\ Resolving /\ ApartAbroad /\ Recent /\ OwnPrincipals
  BY DEF IdentityInv, Shaped
<1>2. ASSUME NEW r \in Slots PROVE FitRequest(reqs[r])
  <2> DEFINE q == reqs[r]
  <2>1. /\ q.pc \in {"idle", "resolving", "storing", "executing"}
        /\ q.pc # "idle" =>
            /\ q.tenant \in BothTenants /\ q.token \in Claimed
            /\ q.pc = "storing" => /\ DOMAIN q = {"pc", "tenant", "token", "principal", "age"}
                                   /\ q.principal \in Principals /\ q.age \in 0..Lag
            /\ q.pc = "executing" /\ q.user[1] = "principal" => q.user[2] \in Principals
    BY <1>1 DEF Shaped, IdentityTypeOK, Executing
  <2>2. q.pc \in {"resolving", "storing"} => config.canonical /\ q.token # Anonymous
    BY <1>1 DEF Resolving
  <2>3. q.pc # "idle" /\ q.tenant = Abroad => \A p : GoesBy(q, p) => p = Foreign
    BY <1>1 DEF ApartAbroad, GoesBy, Executing
  <2>4. q.pc = "storing" /\ q.tenant = Home =>
            \E a \in verifiedAssertions(q.token) : since[a][q.principal] <= q.age
    BY <1>1 DEF Recent
  <2>5. recycled = {} /\ q.pc # "idle" =>
            \A a, b \in verifiedAssertions(q.token) : PersonOf(a) = PersonOf(b)
    BY <1>1 DEF OwnPrincipals
  <2>6. ASSUME q.pc # "idle", q.tenant = Home, NEW p \in Principals,
               NEW a \in verifiedAssertions(q.token), GoesBy(q, p)
        PROVE  Used(PersonOf(a), p)
    BY <2>6 DEF GoesBy, Used, Executing
  <2> HIDE DEF q
  <2>7. recycled = {} /\ q.pc # "idle" =>
            /\ \A a, b \in verifiedAssertions(q.token) : PersonOf(a) = PersonOf(b)
            /\ q.tenant = Home =>
                \A p \in Principals : \A a \in verifiedAssertions(q.token) :
                    GoesBy(q, p) => Used(PersonOf(a), p)
    BY <2>5, <2>6
  <2>8. FitRequest(q)
    BY <2>1, <2>2, <2>3, <2>4, <2>7 DEF FitRequest
  <2> QED
    BY <2>8 DEF q
<1>3. ASSUME NEW k \in DOMAIN cache PROVE FitEntry(k, cache[k])
  <2>1. k \in Keys /\ cache[k] \in [principal : Principals, left : 1..TTL]
    BY <1>1 DEF IdentityTypeOK
  <2>2. k[1] = Abroad => cache[k].principal = Foreign
    BY <1>1 DEF ApartAbroad
  <2>3. k[1] = Home => \E a \in k[2] : since[a][cache[k].principal] + cache[k].left <= TTL + Lag
    BY <1>1 DEF Recent
  <2>4. ASSUME k[1] = Home, NEW a \in k[2] PROVE Used(PersonOf(a), cache[k].principal)
    BY <2>4 DEF Used
  <2> QED
    BY <2>1, <2>2, <2>3, <2>4 DEF FitEntry
<1> QED
  BY <1>2, <1>3

\* Requests and entries that fit keep the invariant.
LEMMA RuntimeKeeps ==
    ASSUME IdentityInv, DOMAIN reqs' = Slots, \A r \in Slots : FitRequest(reqs'[r]),
           \A k \in DOMAIN cache' : FitEntry(k, cache'[k]),
           UNCHANGED <<config, holder, aliases, minted, grants, syncs, since, recycled>>
    PROVE  IdentityInv'
<1>1. Shaped /\ IdentityTypeOK /\ Resolving /\ ApartAbroad /\ Recent /\ OwnPrincipals
  BY DEF IdentityInv, Shaped
<1>2. /\ config' = config /\ holder' = holder /\ aliases' = aliases /\ minted' = minted
      /\ grants' = grants /\ syncs' = syncs /\ since' = since /\ recycled' = recycled
  OBVIOUS
<1>3. Shaped'
  <2>1. IdentityTypeOK'
    BY <1>1, <1>2 DEF IdentityTypeOK, FitRequest, FitEntry
  <2>2. \A r \in Slots : reqs'[r].pc # "idle" =>
        /\ reqs'[r].tenant \in BothTenants /\ reqs'[r].token \in Claimed
        /\ reqs'[r].pc = "storing" =>
            /\ DOMAIN reqs'[r] = {"pc", "tenant", "token", "principal", "age"}
            /\ reqs'[r].principal \in Principals /\ reqs'[r].age \in 0..Lag
        /\ reqs'[r].pc = "executing" /\ reqs'[r].user[1] = "principal" => reqs'[r].user[2] \in Principals
    BY DEF FitRequest
  <2> QED
    BY <1>1, <1>2, <2>1, <2>2 DEF Shaped, Executing
<1>4. Resolving'
  BY <1>2 DEF Resolving, FitRequest
<1>5. ApartAbroad'
  <2>1. \A a \in Aliases : aliases'[Abroad][a] \in {Foreign, NoOne}
    BY <1>1, <1>2 DEF ApartAbroad
  <2>2. \A k \in DOMAIN cache' : k[1] = Abroad => cache'[k].principal = Foreign
    BY DEF FitEntry
  <2>3. ASSUME NEW r \in Slots, reqs'[r].pc # "idle", reqs'[r].tenant = Abroad
        PROVE  /\ reqs'[r].pc = "storing" => reqs'[r].principal = Foreign
               /\ reqs'[r].pc = "executing" /\ reqs'[r].user[1] = "principal" => reqs'[r].user[2] = Foreign
    <3>1. \A p : GoesBy(reqs'[r], p) => p = Foreign
      BY <2>3 DEF FitRequest
    <3> QED
      BY <3>1 DEF GoesBy
  <2> QED
    BY <2>1, <2>2, <2>3 DEF ApartAbroad, Executing
<1>6. Recent'
  <2>1. \A a \in Aliases, p \in Principals : aliases'[Home][a] = p => since'[a][p] = 0
    BY <1>1, <1>2 DEF Recent
  <2>2. \A r \in Slots : reqs'[r].pc = "storing" /\ reqs'[r].tenant = Home =>
            \E a \in verifiedAssertions(reqs'[r].token) : since'[a][reqs'[r].principal] <= reqs'[r].age
    BY <1>2 DEF FitRequest
  <2>3. \A k \in DOMAIN cache' : k[1] = Home =>
            \E a \in k[2] : since'[a][cache'[k].principal] + cache'[k].left <= TTL + Lag
    BY <1>2 DEF FitEntry
  <2> QED
    BY <2>1, <2>2, <2>3 DEF Recent
<1>7. ASSUME recycled = {}, NEW o \in People, NEW p \in Principals, Used(o, p)' PROVE Used(o, p)
  <2>1. CASE \E k \in DOMAIN cache' : /\ k[1] = Home /\ cache'[k].principal = p
                                      /\ \E a \in k[2] : PersonOf(a) = o
    BY <1>7, <2>1 DEF FitEntry
  <2>2. CASE \E r \in Slots : /\ reqs'[r].pc # "idle" /\ reqs'[r].tenant = Home
                              /\ GoesBy(reqs'[r], p)
                              /\ \E a \in verifiedAssertions(reqs'[r].token) : PersonOf(a) = o
    BY <1>7, <2>2 DEF FitRequest
  <2>3. CASE ~(\E k \in DOMAIN cache' : /\ k[1] = Home /\ cache'[k].principal = p
                                        /\ \E a \in k[2] : PersonOf(a) = o)
             /\ ~(\E r \in Slots : /\ reqs'[r].pc # "idle" /\ reqs'[r].tenant = Home
                                   /\ GoesBy(reqs'[r], p)
                                   /\ \E a \in verifiedAssertions(reqs'[r].token) : PersonOf(a) = o)
    BY <1>2, <1>7, <2>3 DEF Used, GoesBy, Executing
  <2> QED
    BY <2>1, <2>2, <2>3
<1>8. OwnPrincipals'
  <2>1. recycled = {} => \A r \in Slots : reqs'[r].pc # "idle" =>
            \A a, b \in verifiedAssertions(reqs'[r].token) : PersonOf(a) = PersonOf(b)
    BY DEF FitRequest
  <2>2. recycled = {} =>
            /\ \A o \in People, p \in Principals : Used(o, p)' => p \in 1..minted
            /\ \A o, n \in People, p \in Principals : Used(o, p)' /\ Used(n, p)' => o = n
    BY <1>1, <1>7 DEF OwnPrincipals
  <2> QED
    BY <1>1, <1>2, <2>1, <2>2 DEF OwnPrincipals
<1> QED
  BY <1>3, <1>4, <1>5, <1>6, <1>8 DEF IdentityInv

\* One request changes.
LEMMA RequestKeeps ==
    ASSUME IdentityInv, NEW r \in Slots, NEW q, FitRequest(q),
           reqs' = [reqs EXCEPT ![r] = q],
           UNCHANGED <<config, holder, aliases, minted, grants, cache, syncs, since, recycled>>
    PROVE  IdentityInv'
<1>1. DOMAIN reqs = Slots
  BY DEF IdentityInv, Shaped
<1>2. DOMAIN reqs' = Slots /\ \A o \in Slots : reqs'[o] = IF o = r THEN q ELSE reqs[o]
  BY <1>1
<1>3. \A o \in Slots : FitRequest(reqs'[o])
  BY <1>2, AllFit
<1>4. \A k \in DOMAIN cache' : FitEntry(k, cache'[k])
  BY AllFit
<1> QED
  BY <1>2, <1>3, <1>4, RuntimeKeeps

\* A request that is over.
LEMMA IdleFits == FitRequest(Idle)
BY DEF FitRequest, Idle

\* A request that runs as a raw user.
LEMMA RawFits ==
    ASSUME IdentityInv, NEW tenant \in BothTenants, NEW token \in Tokens, NEW id
    PROVE  FitRequest([pc |-> "executing", tenant |-> tenant, token |-> token, user |-> Raw(id)])
<1> DEFINE q == [pc |-> "executing", tenant |-> tenant, token |-> token, user |-> Raw(id)]
<1>1. q.pc = "executing" /\ q.tenant = tenant /\ q.token = token /\ q.user[1] = "user"
  BY DEF Raw
<1> HIDE DEF q
<1>2. token \in Claimed
  BY TokensTyping DEF IdentityInv, Shaped
<1>3. \A p : ~GoesBy(q, p)
  BY <1>1 DEF GoesBy
<1>4. recycled = {} => \A a, b \in verifiedAssertions(token) : PersonOf(a) = PersonOf(b)
  BY TokenOfOne DEF IdentityInv, Shaped, OwnPrincipals
<1>5. FitRequest(q)
  BY <1>1, <1>2, <1>3, <1>4 DEF FitRequest
<1> QED
  BY <1>5 DEF q

\* A request that runs as the principal in the cache.
LEMMA CachedFits ==
    ASSUME IdentityInv, NEW tenant \in BothTenants, NEW token \in Tokens,
           NEW key, key = resolveCacheKey(tenant, verifiedAssertions(token)), key \in DOMAIN cache
    PROVE  FitRequest([pc |-> "executing", tenant |-> tenant, token |-> token,
                       user |-> Canonical(cache[key].principal)])
<1> DEFINE p == cache[key].principal
           q == [pc |-> "executing", tenant |-> tenant, token |-> token, user |-> Canonical(p)]
<1>1. q.pc = "executing" /\ q.tenant = tenant /\ q.token = token /\ q.user[1] = "principal"
      /\ q.user[2] = p
  BY DEF Canonical
<1>2. FitEntry(key, cache[key])
  BY AllFit
<1>3. key[1] = tenant /\ key[2] = verifiedAssertions(token)
  BY DEF resolveCacheKey
<1>4. /\ p \in Principals /\ (tenant = Abroad => p = Foreign)
      /\ recycled = {} /\ tenant = Home => \A a \in verifiedAssertions(token) : Used(PersonOf(a), p)
  BY <1>2, <1>3 DEF FitEntry
<1> HIDE DEF q, p
<1>5. token \in Claimed
  BY TokensTyping DEF IdentityInv, Shaped
<1>6. \A n : GoesBy(q, n) => n = p
  BY <1>1 DEF GoesBy
<1>7. recycled = {} => \A a, b \in verifiedAssertions(token) : PersonOf(a) = PersonOf(b)
  BY TokenOfOne DEF IdentityInv, Shaped, OwnPrincipals
<1>8. FitRequest(q)
  BY <1>1, <1>4, <1>5, <1>6, <1>7 DEF FitRequest
<1> QED
  BY <1>8 DEF q, p

\* A request that has to ask the database.
LEMMA ResolvingFits ==
    ASSUME IdentityInv, NEW tenant \in BothTenants, NEW token \in Tokens, token # Anonymous,
           config.canonical
    PROVE  FitRequest([pc |-> "resolving", tenant |-> tenant, token |-> token])
<1> DEFINE q == [pc |-> "resolving", tenant |-> tenant, token |-> token]
<1>1. q.pc = "resolving" /\ q.tenant = tenant /\ q.token = token
  OBVIOUS
<1> HIDE DEF q
<1>2. token \in Claimed
  BY TokensTyping DEF IdentityInv, Shaped
<1>3. \A p : ~GoesBy(q, p)
  BY <1>1 DEF GoesBy
<1>4. recycled = {} => \A a, b \in verifiedAssertions(token) : PersonOf(a) = PersonOf(b)
  BY TokenOfOne DEF IdentityInv, Shaped, OwnPrincipals
<1>5. FitRequest(q)
  BY <1>1, <1>2, <1>3, <1>4 DEF FitRequest
<1> QED
  BY <1>5 DEF q

\* A request arrives.
LEMMA IdentifyKeeps ==
    ASSUME IdentityInv, NEW r \in Slots, NEW tenant \in BothTenants, NEW token \in Tokens, NEW o,
           Identify(r, tenant, token, o)
    PROVE  IdentityInv'
<1> DEFINE key == resolveCacheKey(tenant, verifiedAssertions(token))
<1>1. UNCHANGED <<config, holder, aliases, minted, grants, cache, syncs, since, recycled>>
  BY DEF Identify
<1>2. \/ \E id : reqs' = [reqs EXCEPT ![r] =
                    [pc |-> "executing", tenant |-> tenant, token |-> token, user |-> Raw(id)]]
      \/ key \in DOMAIN cache /\ reqs' = [reqs EXCEPT ![r] =
                    [pc |-> "executing", tenant |-> tenant, token |-> token,
                     user |-> Canonical(cache[key].principal)]]
      \/ /\ token # Anonymous /\ config.canonical
         /\ reqs' = [reqs EXCEPT ![r] = [pc |-> "resolving", tenant |-> tenant, token |-> token]]
  BY DEF Identify, Run, CanonicalizeIdentity
<1>3. CASE \E id : reqs' = [reqs EXCEPT ![r] =
                    [pc |-> "executing", tenant |-> tenant, token |-> token, user |-> Raw(id)]]
  BY <1>1, <1>3, RawFits, RequestKeeps
<1>4. CASE key \in DOMAIN cache /\ reqs' = [reqs EXCEPT ![r] =
                    [pc |-> "executing", tenant |-> tenant, token |-> token,
                     user |-> Canonical(cache[key].principal)]]
  BY <1>1, <1>4, CachedFits, RequestKeeps
<1>5. CASE /\ token # Anonymous /\ config.canonical
           /\ reqs' = [reqs EXCEPT ![r] = [pc |-> "resolving", tenant |-> tenant, token |-> token]]
  BY <1>1, <1>5, ResolvingFits, RequestKeeps
<1> QED
  BY <1>2, <1>3, <1>4, <1>5

\* The database answers.
LEMMA ResolveInnerKeeps ==
    ASSUME IdentityInv, NEW r \in Slots, ResolveInner(r)
    PROVE  IdentityInv'
<1> DEFINE q == reqs[r]
           A == verifiedAssertions(q.token)
           p == Resolve(q.tenant, A)
           n == [pc |-> "storing", tenant |-> q.tenant, token |-> q.token, principal |-> p, age |-> 0]
<1>1. /\ q.pc = "resolving" /\ DOMAIN reqs = Slots
      /\ UNCHANGED <<config, holder, aliases, minted, grants, cache, syncs, since, recycled>>
      /\ reqs' = [reqs EXCEPT ![r] = IF p = NoOne THEN Idle ELSE n]
  BY DEF ResolveInner, IdentityInv, Shaped
<1>2. FitRequest(q)
  BY AllFit
<1>3. CASE p = NoOne
  BY <1>1, <1>3, IdleFits, RequestKeeps
<1>4. CASE p # NoOne
  <2>1. n.pc = "storing" /\ n.tenant = q.tenant /\ n.token = q.token /\ n.principal = p /\ n.age = 0
        /\ DOMAIN n = {"pc", "tenant", "token", "principal", "age"}
    OBVIOUS
  <2> HIDE DEF n
  <2>2. /\ q.tenant \in BothTenants /\ q.token \in Claimed /\ config.canonical /\ q.token # Anonymous
        /\ recycled = {} => \A a, b \in A : PersonOf(a) = PersonOf(b)
    BY <1>1, <1>2 DEF FitRequest
  <2>3. A \subseteq Aliases
    BY <2>2, AssertionsTyping
  <2>4. PICK a \in A : aliases[q.tenant][a] = p
    BY <1>4, ResolveFinds
  <2> HIDE DEF A, p, q
  <2>5. p \in Principals /\ a \in Aliases
    BY <1>4, <2>2, <2>3, <2>4 DEF IdentityInv, Shaped, IdentityTypeOK
  <2>6. q.tenant = Abroad => p = Foreign
    BY <1>4, <2>4, <2>5 DEF IdentityInv, ApartAbroad
  <2>7. q.tenant = Home => since[a][p] <= 0
    BY <2>4, <2>5 DEF IdentityInv, Recent
  <2>8. ASSUME q.tenant = Home, recycled = {}, NEW b \in A PROVE Used(PersonOf(b), p)
    <3>1. PersonOf(a) = PersonOf(b)
      BY <2>2, <2>8
    <3>2. Used(PersonOf(a), p)
      BY <2>4, <2>5, <2>8 DEF Used
    <3> QED
      BY <3>1, <3>2
  <2>9. \A x : GoesBy(n, x) => x = p
    BY <2>1 DEF GoesBy
  <2>10. n.age \in 0..Lag
    BY <2>1, IdentityAssumption
  <2>11. verifiedAssertions(n.token) = A
    BY <2>1 DEF A
  <2>12. FitRequest(n)
    BY <2>1, <2>2, <2>5, <2>6, <2>7, <2>8, <2>9, <2>10, <2>11 DEF FitRequest
  <2> QED
    BY <1>1, <1>4, <2>12, RequestKeeps
<1> QED
  BY <1>3, <1>4

\* The request is over, or fails.
LEMMA DoneKeeps ==
    ASSUME IdentityInv, NEW r \in Slots, ResolveFails(r) \/ Done(r)
    PROVE  IdentityInv'
<1>1. /\ UNCHANGED <<config, holder, aliases, minted, grants, cache, syncs, since, recycled>>
      /\ reqs' = [reqs EXCEPT ![r] = Idle]
  BY DEF ResolveFails, Done
<1> QED
  BY <1>1, IdleFits, RequestKeeps

\* The runtime restarts.
LEMMA RestartKeeps ==
    ASSUME IdentityInv, Restart
    PROVE  IdentityInv'
<1>1. DOMAIN reqs' = Slots /\ \A r \in Slots : reqs'[r] = Idle
  BY DEF Restart
<1>2. DOMAIN cache' = {}
  BY DEF Restart
<1> QED
  BY <1>1, <1>2, IdleFits, RuntimeKeeps DEF Restart

\* The answer is cached and used.
LEMMA StoreKeeps ==
    ASSUME IdentityInv, NEW r \in Slots, Store(r)
    PROVE  IdentityInv'
<1> DEFINE q == reqs[r]
           A == verifiedAssertions(q.token)
           key == resolveCacheKey(q.tenant, A)
           e == [principal |-> q.principal, left |-> TTL]
           n == [pc |-> "executing", tenant |-> q.tenant, token |-> q.token,
                 user |-> Canonical(q.principal)]
<1>1. /\ q.pc = "storing" /\ DOMAIN reqs = Slots
      /\ UNCHANGED <<config, holder, aliases, minted, grants, syncs, since, recycled>>
      /\ reqs' = [reqs EXCEPT ![r] = n]
      /\ cache' = [k \in DOMAIN cache \union {key} |-> IF k = key THEN e ELSE cache[k]]
  BY DEF Store, Run, Cached, IdentityInv, Shaped
<1>2. FitRequest(q)
  BY AllFit
<1>3. key = <<q.tenant, A>> /\ e.principal = q.principal /\ e.left = TTL
      /\ e \in [principal : {q.principal}, left : {TTL}]
  BY DEF resolveCacheKey
<1>4. n.pc = "executing" /\ n.tenant = q.tenant /\ n.token = q.token /\ n.user[1] = "principal"
      /\ n.user[2] = q.principal
  BY DEF Canonical
<1> HIDE DEF n, e, key
<1>5. /\ q.tenant \in BothTenants /\ q.token \in Claimed /\ q.principal \in Principals
      /\ q.age \in 0..Lag /\ GoesBy(q, q.principal)
      /\ q.tenant = Abroad => q.principal = Foreign
      /\ q.tenant = Home => \E a \in A : since[a][q.principal] <= q.age
      /\ recycled = {} => \A a, b \in A : PersonOf(a) = PersonOf(b)
      /\ recycled = {} /\ q.tenant = Home => \A a \in A : Used(PersonOf(a), q.principal)
  BY <1>1, <1>2 DEF FitRequest, GoesBy
<1>6. A \subseteq Aliases
  BY <1>5, AssertionsTyping
<1> HIDE DEF A, q
<1>7. FitRequest(n)
  <2>1. \A x : GoesBy(n, x) => x = q.principal
    BY <1>4 DEF GoesBy
  <2>2. verifiedAssertions(n.token) = A
    BY <1>4 DEF A, q
  <2> QED
    BY <1>4, <1>5, <2>1, <2>2 DEF FitRequest
<1>8. FitEntry(key, e)
  <2>1. TTL \in Nat \ {0} /\ Lag \in Nat
    BY IdentityAssumption
  <2>2. key \in Keys /\ e \in [principal : Principals, left : 1..TTL]
    BY <1>3, <1>5, <1>6, <2>1 DEF Keys
  <2>3. q.tenant = Home => \E a \in A : since[a][q.principal] + TTL <= TTL + Lag
    <3>1. ASSUME NEW a \in A, since[a][q.principal] <= q.age
          PROVE  since[a][q.principal] + TTL <= TTL + Lag
      <4>1. since[a][q.principal] \in Nat
        BY <1>5, <1>6 DEF IdentityInv, Shaped, IdentityTypeOK
      <4> QED
        BY <1>5, <2>1, <3>1, <4>1
    <3> QED
      BY <1>5, <3>1
  <2> QED
    BY <1>3, <1>5, <2>2, <2>3 DEF FitEntry
<1>9. DOMAIN reqs' = Slots /\ \A o \in Slots : FitRequest(reqs'[o])
  BY <1>1, <1>7, AllFit
<1>10. \A k \in DOMAIN cache' : FitEntry(k, cache'[k])
  BY <1>1, <1>8, AllFit
<1> QED
  BY <1>1, <1>9, <1>10, RuntimeKeeps

-----------------------------------------------------------------------------
(* Identity: the directory and its sync *)

\* The sync z fits a directory without addresses that have changed hands.
FitSync(z) ==
    /\ z.pc \in {"idle", "observing", "upserting"}
    /\ z.pc # "idle" =>
        /\ z.dir \in [Mails -> People \union {NoOne}]
        /\ z.todo \subseteq People
        /\ z.mapped \in [People -> Principals \union {NoOne}]
        /\ z.pc = "upserting" => z.person \in People /\ z.principal \in Principals
        /\ recycled = {} => \A m \in Mails : z.dir[m] \in {Owner[m], NoOne}

\* Those that run do.
LEMMA SyncsFit ==
    ASSUME IdentityInv, NEW s \in Syncs
    PROVE  FitSync(syncs[s])
<1>1. IdentityTypeOK /\ Shaped /\ OwnPrincipals
  BY DEF IdentityInv, Shaped
<1>2. recycled = {} /\ syncs[s].pc # "idle" => \A m \in Mails : syncs[s].dir[m] \in {Owner[m], NoOne}
  BY <1>1 DEF OwnPrincipals
<1> QED
  BY <1>1, <1>2 DEF FitSync, IdentityTypeOK, Shaped

\* Nobody goes by another principal than before, but for n by one that is minted.
OnlyMints(n) ==
    \A o \in People, p \in Principals : recycled = {} /\ Used(o, p)' =>
        Used(o, p) \/ (o = n /\ p = minted + 1 /\ p = minted')

\* A principal is minted for n at most, and the aliases are touched with their times.
LEMMA SyncKeeps ==
    ASSUME IdentityInv, UNCHANGED <<config, holder, cache, reqs, recycled>>,
           aliases' \in [BothTenants -> [Aliases -> Principals \union {NoOne}]],
           aliases'[Abroad] = aliases[Abroad],
           minted' \in Principals, minted <= minted',
           grants' \in [Principals -> SUBSET People],
           since' \in [Aliases -> [Principals -> 0..Never]],
           \A a \in Aliases, p \in Principals : aliases'[Home][a] = p => since'[a][p] = 0,
           \A a \in Aliases, p \in Principals : since'[a][p] <= since[a][p],
           DOMAIN syncs' = Syncs, \A s \in Syncs : FitSync(syncs'[s]),
           NEW n, OnlyMints(n)
    PROVE  IdentityInv'
<1>1. Shaped /\ IdentityTypeOK /\ Resolving /\ ApartAbroad /\ Recent /\ OwnPrincipals
  BY DEF IdentityInv, Shaped
<1>2. config' = config /\ holder' = holder /\ cache' = cache /\ reqs' = reqs /\ recycled' = recycled
  OBVIOUS
<1>3. Shaped'
  <2>1. IdentityTypeOK'
    BY <1>1, <1>2 DEF IdentityTypeOK, FitSync
  <2>2. \A s \in Syncs : syncs'[s].pc # "idle" =>
        /\ syncs'[s].dir \in [Mails -> People \union {NoOne}]
        /\ syncs'[s].todo \subseteq People
        /\ syncs'[s].mapped \in [People -> Principals \union {NoOne}]
        /\ syncs'[s].pc = "upserting" => /\ syncs'[s].person \in People
                                         /\ syncs'[s].principal \in Principals
    BY DEF FitSync
  <2> QED
    BY <1>1, <1>2, <2>1, <2>2 DEF Shaped, Executing
<1>4. Resolving' /\ ApartAbroad'
  BY <1>1, <1>2 DEF Resolving, ApartAbroad, Executing
<1>5. Recent'
  <2>1. ASSUME NEW a \in Aliases, NEW p \in Principals, NEW x \in Int, since[a][p] <= x
        PROVE  since'[a][p] <= x
    <3>1. since[a][p] \in 0..Never /\ since'[a][p] \in 0..Never /\ Never \in Nat
      BY <1>1, NoOneApart DEF IdentityTypeOK
    <3> QED
      BY <2>1, <3>1
  <2>2. ASSUME NEW r \in Slots, reqs[r].pc = "storing", reqs[r].tenant = Home
        PROVE  \E a \in verifiedAssertions(reqs[r].token) : since'[a][reqs[r].principal] <= reqs[r].age
    <3>1. PICK a \in verifiedAssertions(reqs[r].token) : since[a][reqs[r].principal] <= reqs[r].age
      BY <1>1, <2>2 DEF Recent
    <3>2. reqs[r].principal \in Principals /\ reqs[r].age \in Int /\ reqs[r].token \in Claimed
      BY <1>1, <2>2 DEF Shaped
    <3>3. a \in Aliases
      BY <3>1, <3>2, AssertionsTyping
    <3> QED
      BY <2>1, <3>1, <3>2, <3>3
  <2>3. ASSUME NEW k \in DOMAIN cache, k[1] = Home
        PROVE  \E a \in k[2] : since'[a][cache[k].principal] + cache[k].left <= TTL + Lag
    <3>1. PICK a \in k[2] : since[a][cache[k].principal] + cache[k].left <= TTL + Lag
      BY <1>1, <2>3 DEF Recent
    <3>2. k \in Keys /\ cache[k].principal \in Principals /\ cache[k].left \in Int
      BY <1>1 DEF IdentityTypeOK
    <3>3. a \in Aliases
      BY <3>1, <3>2 DEF Keys
    <3>4. since[a][cache[k].principal] \in Int /\ since'[a][cache[k].principal] \in Int
          /\ since'[a][cache[k].principal] <= since[a][cache[k].principal]
      BY <1>1, <3>2, <3>3, NoOneApart DEF IdentityTypeOK
    <3>5. TTL + Lag \in Int
      BY IdentityAssumption
    <3>6. since'[a][cache[k].principal] + cache[k].left <= TTL + Lag
      BY <3>1, <3>2, <3>4, <3>5
    <3> QED
      BY <3>6
  <2> QED
    BY <1>2, <2>2, <2>3 DEF Recent
<1>6. OwnPrincipals'
  <2> SUFFICES ASSUME recycled = {} PROVE OwnPrincipals'
    BY <1>2 DEF OwnPrincipals
  <2>1. /\ \A m \in Mails : holder[m] \in {Owner[m], NoOne}
        /\ \A r \in Slots : reqs[r].pc # "idle" =>
              \A a, b \in verifiedAssertions(reqs[r].token) : PersonOf(a) = PersonOf(b)
        /\ \A o \in People, p \in Principals : Used(o, p) => p \in 1..minted
        /\ \A o, m \in People, p \in Principals : Used(o, p) /\ Used(m, p) => o = m
    BY <1>1 DEF OwnPrincipals
  <2>2. \A s \in Syncs, m \in Mails : syncs'[s].pc # "idle" => syncs'[s].dir[m] \in {Owner[m], NoOne}
    BY DEF FitSync
  <2>3. minted \in Nat /\ minted' \in Nat
    BY <1>1, IdentityAssumption DEF IdentityTypeOK, Principals
  <2>4. \A o \in People, p \in Principals : Used(o, p)' => p \in 1..minted'
    <3>1. \A p : p \in 1..minted => p \in 1..minted'
      BY <2>3
    <3>2. minted' = minted + 1 => minted + 1 \in 1..minted'
      BY <2>3
    <3> QED
      BY <2>1, <3>1, <3>2 DEF OnlyMints
  <2>5. \A o, m \in People, p \in Principals : Used(o, p)' /\ Used(m, p)' => o = m
    <3>1. minted + 1 \notin 1..minted
      BY <2>3
    <3> QED
      BY <2>1, <3>1 DEF OnlyMints
  <2> QED
    BY <1>2, <2>1, <2>2, <2>4, <2>5 DEF OwnPrincipals
<1> QED
  BY <1>3, <1>4, <1>5, <1>6 DEF IdentityInv

\* Only syncs[s] changes, and nobody goes by a new principal.
LEMMA ProgressKeeps ==
    ASSUME IdentityInv, NEW s \in Syncs, NEW z, FitSync(z), syncs' = [syncs EXCEPT ![s] = z],
           UNCHANGED <<config, holder, aliases, cache, reqs, since, recycled>>,
           minted' \in Principals, minted <= minted',
           grants' \in [Principals -> SUBSET People],
           NEW n,
           \A o \in People, p \in Principals : recycled = {} /\ o \in grants'[p] => Used(o, p),
           \A o \in People, p \in Principals : recycled = {} =>
               /\ z.pc = "upserting" /\ z.person = o /\ z.principal = p =>
                    Used(o, p) \/ (o = n /\ p = minted + 1 /\ p = minted')
               /\ z.pc # "idle" /\ z.mapped[o] = p => Used(o, p)
    PROVE  IdentityInv'
<1>1. /\ Shaped /\ IdentityTypeOK /\ Recent
      /\ DOMAIN syncs = Syncs
  BY DEF IdentityInv, Shaped
<1>2. DOMAIN syncs' = Syncs /\ \A x \in Syncs : syncs'[x] = IF x = s THEN z ELSE syncs[x]
  BY <1>1
<1>3. \A x \in Syncs : FitSync(syncs'[x])
  BY <1>2, SyncsFit
<1>4. ASSUME NEW o \in People, NEW p \in Principals, recycled = {}, Used(o, p)'
      PROVE  Used(o, p) \/ (o = n /\ p = minted + 1 /\ p = minted')
  <2>1. CASE \E x \in Syncs : syncs'[x].pc = "upserting" /\ syncs'[x].person = o
                              /\ syncs'[x].principal = p
    BY <1>2, <1>4, <2>1 DEF Used
  <2>2. CASE \E x \in Syncs : syncs'[x].pc # "idle" /\ syncs'[x].mapped[o] = p
    BY <1>2, <1>4, <2>2 DEF Used
  <2>3. CASE o \in grants'[p]
    BY <1>4, <2>3
  <2>4. CASE ~(\E x \in Syncs : syncs'[x].pc = "upserting" /\ syncs'[x].person = o
                                /\ syncs'[x].principal = p)
             /\ ~(\E x \in Syncs : syncs'[x].pc # "idle" /\ syncs'[x].mapped[o] = p)
             /\ o \notin grants'[p]
    BY <1>4, <2>4 DEF Used, Executing
  <2> QED
    BY <2>1, <2>2, <2>3, <2>4
<1>5. \A a \in Aliases, p \in Principals : since'[a][p] <= since[a][p]
  <2>1. \A a \in Aliases, p \in Principals : since[a][p] \in Int
    BY <1>1, NoOneApart DEF IdentityTypeOK
  <2> QED
    BY <2>1
<1>6. /\ aliases' \in [BothTenants -> [Aliases -> Principals \union {NoOne}]]
      /\ aliases'[Abroad] = aliases[Abroad]
      /\ since' \in [Aliases -> [Principals -> 0..Never]]
      /\ \A a \in Aliases, p \in Principals : aliases'[Home][a] = p => since'[a][p] = 0
  BY <1>1 DEF IdentityTypeOK, Recent
<1>7. OnlyMints(n)
  BY <1>4 DEF OnlyMints
<1> QED
  BY <1>2, <1>3, <1>5, <1>6, <1>7, SyncKeeps

\* A sync begins, fails, or hands its tuples on.
LEMMA ListKeeps ==
    ASSUME IdentityInv, NEW s \in Syncs, FetchUsers(s) \/ ObserveFails(s) \/ Rewrite(s)
    PROVE  IdentityInv'
<1>1. IdentityTypeOK /\ OwnPrincipals
  BY DEF IdentityInv, Shaped
<1>2. minted \in Principals /\ minted \in Nat
  BY <1>1, IdentityAssumption DEF IdentityTypeOK, Principals
<1>3. \A o \in People, p \in Principals : o \in grants[p] => Used(o, p)
  BY DEF Used
<1>4. CASE FetchUsers(s)
  <2> DEFINE z == [pc |-> "observing", dir |-> holder, todo |-> People,
                   mapped |-> [o \in People |-> NoOne]]
  <2>1. z.pc = "observing" /\ z.dir = holder /\ z.todo = People /\ z.mapped = [o \in People |-> NoOne]
    OBVIOUS
  <2>2. /\ syncs' = [syncs EXCEPT ![s] = z]
        /\ UNCHANGED <<config, holder, aliases, cache, reqs, since, recycled>>
        /\ minted' = minted /\ grants' = grants
    BY <1>4 DEF FetchUsers
  <2> HIDE DEF z
  <2>3. FitSync(z)
    BY <1>1, <2>1 DEF FitSync, IdentityTypeOK, OwnPrincipals
  <2>4. \A o \in People, p \in Principals : z.mapped[o] # p
    BY <2>1, NoOneApart
  <2>5. minted' \in Principals /\ minted <= minted' /\ grants' \in [Principals -> SUBSET People]
    BY <1>1, <1>2, <2>2 DEF IdentityTypeOK
  <2>6. \A o \in People, p \in Principals : recycled = {} /\ o \in grants'[p] => Used(o, p)
    BY <1>3, <2>2
  <2>7. \A o \in People, p \in Principals : recycled = {} =>
            /\ z.pc = "upserting" /\ z.person = o /\ z.principal = p =>
                    Used(o, p) \/ (o = NoOne /\ p = minted + 1 /\ p = minted')
            /\ z.pc # "idle" /\ z.mapped[o] = p => Used(o, p)
    BY <2>1, <2>4
  <2> QED
    BY <2>2, <2>3, <2>5, <2>6, <2>7, ProgressKeeps
<1>5. ASSUME syncs' = [syncs EXCEPT ![s] = Idle],
             UNCHANGED <<config, holder, aliases, cache, reqs, since, recycled>>,
             minted' = minted, grants' \in [Principals -> SUBSET People],
             \A o \in People, p \in Principals : recycled = {} /\ o \in grants'[p] => Used(o, p)
      PROVE  IdentityInv'
  <2>1. FitSync(Idle) /\ Idle.pc = "idle"
    BY DEF FitSync, Idle
  <2>2. minted' \in Principals /\ minted <= minted'
    BY <1>2, <1>5
  <2>3. \A o \in People, p \in Principals : recycled = {} =>
            /\ Idle.pc = "upserting" /\ Idle.person = o /\ Idle.principal = p =>
                    Used(o, p) \/ (o = NoOne /\ p = minted + 1 /\ p = minted')
            /\ Idle.pc # "idle" /\ Idle.mapped[o] = p => Used(o, p)
    BY <2>1
  <2> HIDE DEF Idle
  <2> QED
    BY <1>5, <2>1, <2>2, <2>3, ProgressKeeps
<1>6. CASE ObserveFails(s)
  BY <1>1, <1>3, <1>5, <1>6 DEF ObserveFails, IdentityTypeOK
<1>7. CASE Rewrite(s)
  <2>1. /\ syncs[s].pc = "observing"
        /\ grants' = [p \in Principals |-> {o \in People : syncs[s].mapped[o] = p}]
    BY <1>7 DEF Rewrite
  <2>2. grants' \in [Principals -> SUBSET People]
    BY <2>1
  <2>3. ASSUME NEW o \in People, NEW p \in Principals, o \in grants'[p] PROVE Used(o, p)
    <3>1. syncs[s].mapped[o] = p /\ syncs[s].pc # "idle"
      BY <2>1, <2>3
    <3> QED
      BY <3>1 DEF Used
  <2> QED
    BY <1>5, <1>7, <2>2, <2>3 DEF Rewrite
<1> QED
  BY <1>4, <1>6, <1>7

\* A person's principal is found or minted.
LEMMA ObserveResolveKeeps ==
    ASSUME IdentityInv, NEW s \in Syncs, ObserveResolve(s)
    PROVE  IdentityInv'
<1> DEFINE at == syncs[s]
           n == Observed(s)
           found == PrincipalFor(s)
           z == [pc |-> "upserting", dir |-> at.dir, todo |-> at.todo, mapped |-> at.mapped,
                 person |-> n, principal |-> IF found = NoOne THEN NewPrincipalID ELSE found]
<1>1. IdentityTypeOK /\ OwnPrincipals /\ DOMAIN syncs = Syncs
  BY DEF IdentityInv, Shaped
<1>2. minted \in Principals /\ minted \in Nat /\ MaxPrincipals \in Nat /\ Principals = 0..MaxPrincipals
  BY <1>1, IdentityAssumption DEF IdentityTypeOK, Principals
<1>3. /\ at.pc = "observing" /\ at.todo # {}
      /\ found = NoOne => minted < MaxPrincipals
      /\ minted' = IF found = NoOne THEN minted + 1 ELSE minted
      /\ syncs' = [syncs EXCEPT ![s] = z]
      /\ UNCHANGED <<config, holder, aliases, cache, reqs, since, recycled>>
      /\ grants' = grants
  BY <1>1 DEF ObserveResolve
<1>4. FitSync(at)
  BY SyncsFit
<1>5. n \in at.todo
  BY <1>3 DEF Observed
<1>6. n \in People
  BY <1>3, <1>4, <1>5 DEF FitSync
<1>7. ASSUME found # NoOne PROVE found \in Principals /\ (recycled = {} => Used(n, found))
  <2>1. PICK a \in directoryAssertions(n, at.dir) : aliases[Home][a] = found
    BY <1>7, ResolveFinds DEF PrincipalFor
  <2>2. a \in Aliases /\ (recycled = {} => PersonOf(a) = n)
    BY <1>3, <1>4, <1>6, <2>1, DirectoryOfOne DEF FitSync
  <2> HIDE DEF found, n, at
  <2>3. found \in Principals
    BY <1>1, <1>7, <2>1, <2>2 DEF IdentityTypeOK, BothTenants
  <2>4. recycled = {} => Used(n, found)
    BY <2>1, <2>2 DEF Used
  <2> QED
    BY <2>3, <2>4
<1>8. z.pc = "upserting" /\ z.dir = at.dir /\ z.todo = at.todo /\ z.mapped = at.mapped
      /\ z.person = n /\ z.principal = IF found = NoOne THEN minted + 1 ELSE found
  BY DEF NewPrincipalID
<1> HIDE DEF z, found, n
<1>9. minted' \in Principals /\ minted <= minted' /\ z.principal \in Principals
  BY <1>2, <1>3, <1>7, <1>8
<1>10. FitSync(z)
  BY <1>3, <1>4, <1>6, <1>8, <1>9 DEF FitSync
<1>11. grants' \in [Principals -> SUBSET People]
       /\ \A o \in People, p \in Principals : recycled = {} /\ o \in grants'[p] => Used(o, p)
  BY <1>1, <1>3 DEF IdentityTypeOK, Used
<1>12. ASSUME NEW o \in People, NEW p \in Principals, recycled = {}, z.person = o, z.principal = p
       PROVE  Used(o, p) \/ (o = n /\ p = minted + 1 /\ p = minted')
  BY <1>3, <1>7, <1>8, <1>12
<1>13. ASSUME NEW o \in People, NEW p \in Principals, z.mapped[o] = p PROVE Used(o, p)
  BY <1>3, <1>8, <1>13 DEF Used
<1>14. \A o \in People, p \in Principals : recycled = {} =>
            /\ z.pc = "upserting" /\ z.person = o /\ z.principal = p =>
                    Used(o, p) \/ (o = n /\ p = minted + 1 /\ p = minted')
            /\ z.pc # "idle" /\ z.mapped[o] = p => Used(o, p)
  BY <1>12, <1>13
<1> QED
  BY <1>3, <1>9, <1>10, <1>11, <1>14, ProgressKeeps

\* The aliases of a person are written.
LEMMA ObserveUpsertKeeps ==
    ASSUME IdentityInv, NEW s \in Syncs, ObserveUpsert(s)
    PROVE  IdentityInv'
<1> DEFINE at == syncs[s]
           n == at.person
           q == at.principal
           written == directoryAssertions(n, at.dir)
           z == [pc |-> "observing", dir |-> at.dir, todo |-> at.todo \ {n},
                 mapped |-> [at.mapped EXCEPT ![n] = q]]
<1>1. IdentityTypeOK /\ OwnPrincipals /\ Recent /\ DOMAIN syncs = Syncs
  BY DEF IdentityInv, Shaped
<1>2. minted \in Principals /\ minted \in Nat
  BY <1>1, IdentityAssumption DEF IdentityTypeOK, Principals
<1>3. /\ at.pc = "upserting"
      /\ aliases' = [aliases EXCEPT ![Home] = [a \in Aliases |->
                IF a \in written THEN q ELSE aliases[Home][a]]]
      /\ since' = [a \in Aliases |-> IF a \in written THEN [since[a] EXCEPT ![q] = 0] ELSE since[a]]
      /\ syncs' = [syncs EXCEPT ![s] = z]
      /\ UNCHANGED <<config, holder, cache, reqs, recycled>>
      /\ minted' = minted /\ grants' = grants
  BY <1>1 DEF ObserveUpsert, IdentityTypeOK, BothTenants
<1>4. FitSync(at)
  BY SyncsFit
<1>5. n \in People /\ q \in Principals
  BY <1>3, <1>4 DEF FitSync
<1>6. Used(n, q)
  BY <1>3 DEF Used
<1>7. ASSUME NEW a \in written PROVE a \in Aliases /\ (recycled = {} => PersonOf(a) = n)
  BY <1>3, <1>4, <1>5, DirectoryOfOne DEF FitSync
<1>8. z.pc = "observing" /\ z.dir = at.dir /\ z.todo = at.todo \ {n}
      /\ z.mapped = [at.mapped EXCEPT ![n] = q]
  OBVIOUS
<1> HIDE DEF z, n, q, written
<1>9. FitSync(z) /\ at.mapped \in [People -> Principals \union {NoOne}]
  BY <1>3, <1>4, <1>5, <1>8 DEF FitSync
<1>10. \A o \in People : z.mapped[o] = IF o = n THEN q ELSE at.mapped[o]
  BY <1>5, <1>8, <1>9
<1> HIDE DEF at
<1>11. /\ aliases' \in [BothTenants -> [Aliases -> Principals \union {NoOne}]]
       /\ aliases'[Abroad] = aliases[Abroad]
       /\ \A a \in Aliases : aliases'[Home][a] = IF a \in written THEN q ELSE aliases[Home][a]
  BY <1>1, <1>3, <1>5, NoOneApart DEF IdentityTypeOK, BothTenants
<1>12. /\ since' \in [Aliases -> [Principals -> 0..Never]]
       /\ \A a \in Aliases, p \in Principals :
             since'[a][p] = IF a \in written /\ p = q THEN 0 ELSE since[a][p]
  <2>1. since \in [Aliases -> [Principals -> 0..Never]] /\ 0 \in 0..Never
    BY <1>1, NoOneApart DEF IdentityTypeOK
  <2> QED
    BY <1>3, <1>5, <2>1
<1>13. \A a \in Aliases, p \in Principals : aliases'[Home][a] = p => since'[a][p] = 0
  BY <1>1, <1>11, <1>12 DEF Recent
<1>14. \A a \in Aliases, p \in Principals : since'[a][p] <= since[a][p]
  <2>1. \A a \in Aliases, p \in Principals : since[a][p] \in Nat
    BY <1>1, NoOneApart DEF IdentityTypeOK
  <2> QED
    BY <1>12, <2>1
<1>15. DOMAIN syncs' = Syncs /\ \A x \in Syncs : syncs'[x] = IF x = s THEN z ELSE syncs[x]
  BY <1>1, <1>3
<1>16. \A x \in Syncs : FitSync(syncs'[x])
  BY <1>9, <1>15, SyncsFit
<1>17. ASSUME NEW o \in People, NEW p \in Principals, recycled = {}, Used(o, p)' PROVE Used(o, p)
  <2>1. CASE \E a \in Aliases : PersonOf(a) = o /\ aliases'[Home][a] = p
    <3>1. PICK a \in Aliases : PersonOf(a) = o /\ aliases'[Home][a] = p
      BY <2>1
    <3>2. CASE a \in written
      BY <1>6, <1>7, <1>11, <1>17, <3>1, <3>2
    <3>3. CASE a \notin written
      BY <1>11, <3>1, <3>3 DEF Used
    <3> QED
      BY <3>2, <3>3
  <2>2. CASE \E x \in Syncs : syncs'[x].pc = "upserting" /\ syncs'[x].person = o
                              /\ syncs'[x].principal = p
    BY <1>8, <1>15, <2>2 DEF Used
  <2>3. CASE \E x \in Syncs : syncs'[x].pc # "idle" /\ syncs'[x].mapped[o] = p
    <3>1. PICK x \in Syncs : syncs'[x].pc # "idle" /\ syncs'[x].mapped[o] = p
      BY <2>3
    <3>2. CASE x # s
      BY <1>15, <3>1, <3>2 DEF Used
    <3>3. CASE x = s
      <4>1. (o = n /\ p = q) \/ at.mapped[o] = p
        BY <1>10, <1>15, <3>1, <3>3
      <4> QED
        BY <1>3, <1>6, <4>1 DEF Used, at
    <3> QED
      BY <3>2, <3>3
  <2>4. CASE ~(\E a \in Aliases : PersonOf(a) = o /\ aliases'[Home][a] = p)
             /\ ~(\E x \in Syncs : syncs'[x].pc = "upserting" /\ syncs'[x].person = o
                                   /\ syncs'[x].principal = p)
             /\ ~(\E x \in Syncs : syncs'[x].pc # "idle" /\ syncs'[x].mapped[o] = p)
    BY <1>3, <1>17, <2>4 DEF Used, Executing
  <2> QED
    BY <2>1, <2>2, <2>3, <2>4
<1>18. OnlyMints(NoOne)
  BY <1>17 DEF OnlyMints
<1>19. minted' \in Principals /\ minted <= minted' /\ grants' \in [Principals -> SUBSET People]
  BY <1>1, <1>2, <1>3 DEF IdentityTypeOK
<1> QED
  BY <1>3, <1>11, <1>12, <1>13, <1>14, <1>15, <1>16, <1>18, <1>19, SyncKeeps

\* An address is withdrawn or given to somebody.
LEMMA AddressKeeps ==
    ASSUME IdentityInv, NEW m \in Mails, Withdraw(m) \/ \E o \in People : Assign(m, o)
    PROVE  IdentityInv'
<1>1. Shaped /\ IdentityTypeOK /\ Resolving /\ ApartAbroad /\ Recent /\ OwnPrincipals
  BY DEF IdentityInv, Shaped
<1>2. /\ config' = config /\ aliases' = aliases /\ minted' = minted /\ grants' = grants
      /\ cache' = cache /\ reqs' = reqs /\ syncs' = syncs /\ since' = since
  BY DEF Withdraw, Assign
<1>3. PICK o \in People \union {NoOne} :
          /\ holder' = [holder EXCEPT ![m] = o]
          /\ recycled' = IF o \in {Owner[m], NoOne} THEN recycled ELSE recycled \union {m}
  BY NoOneApart DEF Withdraw, Assign
<1>4. /\ holder' \in [Mails -> People \union {NoOne}] /\ recycled' \subseteq Mails
      /\ \A x \in Mails : holder'[x] = IF x = m THEN o ELSE holder[x]
  BY <1>1, <1>3 DEF IdentityTypeOK
<1>5. IdentityTypeOK'
  BY <1>1, <1>2, <1>4 DEF IdentityTypeOK
<1>6. Shaped' /\ Resolving' /\ ApartAbroad' /\ Recent'
  BY <1>1, <1>2, <1>5 DEF Shaped, Resolving, ApartAbroad, Recent, Executing
<1>7. \A x, p : Used(x, p)' <=> Used(x, p)
  BY <1>2 DEF Used, Executing
<1>8. recycled' = {} => recycled = {} /\ o \in {Owner[m], NoOne}
  BY <1>3
<1>9. OwnPrincipals'
  <2> SUFFICES ASSUME recycled' = {} PROVE OwnPrincipals'
    BY DEF OwnPrincipals
  <2>1. \A x \in Mails : holder'[x] \in {Owner[x], NoOne}
    BY <1>1, <1>4, <1>8 DEF OwnPrincipals
  <2>2. /\ \A x \in People, p \in Principals : Used(x, p)' => p \in 1..minted
        /\ \A x, n \in People, p \in Principals : Used(x, p)' /\ Used(n, p)' => x = n
    BY <1>1, <1>7, <1>8 DEF OwnPrincipals
  <2> QED
    BY <1>1, <1>2, <1>8, <2>1, <2>2 DEF OwnPrincipals
<1> QED
  BY <1>6, <1>9 DEF IdentityInv

\* Time passes.
LEMMA TickKeeps ==
    ASSUME IdentityInv, Tick
    PROVE  IdentityInv'
<1>1. Shaped /\ IdentityTypeOK /\ Resolving /\ ApartAbroad /\ Recent /\ OwnPrincipals
  BY DEF IdentityInv, Shaped
<1>2. /\ config' = config /\ holder' = holder /\ aliases' = aliases /\ minted' = minted
      /\ grants' = grants /\ syncs' = syncs /\ recycled' = recycled
  BY DEF Tick
<1>3. /\ TTL \in Nat /\ Lag \in Nat /\ Never \in Nat
  BY IdentityAssumption DEF Never
<1>4. ASSUME NEW k \in DOMAIN cache'
      PROVE  /\ k \in DOMAIN cache /\ cache[k].left \in 1..TTL
             /\ cache'[k].principal = cache[k].principal
             /\ cache'[k].left = cache[k].left - 1
             /\ cache'[k] \in [principal : Principals, left : 1..TTL]
  <2>1. k \in DOMAIN cache /\ cache[k].left > 1 /\ cache'[k] = [cache[k] EXCEPT !.left = @ - 1]
    BY <1>4 DEF Tick
  <2>2. cache[k] \in [principal : Principals, left : 1..TTL]
    BY <1>1, <2>1 DEF IdentityTypeOK
  <2>3. cache[k].left - 1 \in 1..TTL /\ cache[k].left \in 1..TTL
    BY <1>3, <2>1, <2>2
  <2> QED
    BY <2>1, <2>2, <2>3
<1>5. ASSUME NEW r \in Slots
      PROVE  /\ reqs'[r].pc = reqs[r].pc
             /\ reqs[r].pc # "storing" => reqs'[r] = reqs[r]
             /\ reqs[r].pc = "storing" =>
                    /\ reqs'[r].tenant = reqs[r].tenant /\ reqs'[r].token = reqs[r].token
                    /\ reqs'[r].principal = reqs[r].principal
                    /\ reqs'[r].age = reqs[r].age + 1
                    /\ reqs'[r].age \in 0..Lag /\ reqs[r].age \in 0..Lag
                    /\ DOMAIN reqs'[r] = {"pc", "tenant", "token", "principal", "age"}
  <2>1. /\ reqs'[r] = IF reqs[r].pc = "storing" THEN [reqs[r] EXCEPT !.age = @ + 1] ELSE reqs[r]
        /\ reqs[r].pc = "storing" => reqs[r].age < Lag
    BY DEF Tick
  <2>2. reqs[r].pc = "storing" => /\ DOMAIN reqs[r] = {"pc", "tenant", "token", "principal", "age"}
                                  /\ reqs[r].age \in 0..Lag
    BY <1>1 DEF Shaped
  <2>3. reqs[r].pc = "storing" => reqs[r].age + 1 \in 0..Lag
    BY <1>3, <2>1, <2>2
  <2> QED
    BY <2>1, <2>2, <2>3
<1>6. ASSUME NEW a \in Aliases, NEW p \in Principals
      PROVE  /\ since'[a][p] \in 0..Never /\ since[a][p] \in 0..Never
             /\ since'[a][p] <= since[a][p] + 1
             /\ aliases[Home][a] = p => since'[a][p] = 0
  <2>1. since[a][p] \in 0..Never
    BY <1>1 DEF IdentityTypeOK
  <2>2. since'[a][p] = IF aliases[Home][a] = p THEN 0
                       ELSE IF since[a][p] = Never THEN Never ELSE since[a][p] + 1
    BY DEF Tick
  <2> QED
    BY <1>3, <2>1, <2>2
<1>7. since' \in [Aliases -> [Principals -> 0..Never]] /\ DOMAIN reqs' = Slots
  <2>1. \A a \in Aliases : since'[a] = [p \in Principals |->
            IF aliases[Home][a] = p THEN 0
            ELSE IF since[a][p] = Never THEN Never ELSE since[a][p] + 1]
    BY DEF Tick
  <2>2. \A a \in Aliases : since'[a] \in [Principals -> 0..Never]
    BY <1>6, <2>1
  <2>3. DOMAIN since' = Aliases /\ since' = [a \in Aliases |-> since'[a]]
    BY DEF Tick
  <2> QED
    BY <2>2, <2>3 DEF Tick
<1>8. Shaped'
  <2>1. IdentityTypeOK'
    BY <1>1, <1>2, <1>4, <1>5, <1>7 DEF IdentityTypeOK
  <2>2. ASSUME NEW r \in Slots, reqs'[r].pc # "idle"
        PROVE  /\ reqs'[r].tenant \in BothTenants /\ reqs'[r].token \in Claimed
               /\ reqs'[r].pc = "storing" =>
                    /\ DOMAIN reqs'[r] = {"pc", "tenant", "token", "principal", "age"}
                    /\ reqs'[r].principal \in Principals /\ reqs'[r].age \in 0..Lag
               /\ reqs'[r].pc = "executing" /\ reqs'[r].user[1] = "principal" =>
                    reqs'[r].user[2] \in Principals
    <3>1. CASE reqs[r].pc = "storing"
      BY <1>1, <1>5, <2>2, <3>1 DEF Shaped
    <3>2. CASE reqs[r].pc # "storing"
      BY <1>1, <1>5, <2>2, <3>2 DEF Shaped, Executing
    <3> QED
      BY <3>1, <3>2
  <2> QED
    BY <1>1, <1>2, <1>7, <2>1, <2>2 DEF Shaped, Executing
<1>9. Resolving' /\ ApartAbroad'
  <2>1. \A r \in Slots : reqs'[r].pc \in {"resolving", "storing"} =>
            config.canonical /\ reqs'[r].token # Anonymous
    BY <1>1, <1>5 DEF Resolving
  <2>2. \A r \in Slots : reqs'[r].pc # "idle" /\ reqs'[r].tenant = Abroad =>
            /\ reqs'[r].pc = "storing" => reqs'[r].principal = Foreign
            /\ reqs'[r].pc = "executing" /\ reqs'[r].user[1] = "principal" =>
                    reqs'[r].user[2] = Foreign
    BY <1>1, <1>5 DEF ApartAbroad, Executing
  <2> QED
    BY <1>1, <1>2, <1>4, <2>1, <2>2 DEF Resolving, ApartAbroad, Executing
<1>10. Recent'
  <2>1. ASSUME NEW r \in Slots, reqs'[r].pc = "storing", reqs'[r].tenant = Home
        PROVE  \E a \in verifiedAssertions(reqs'[r].token) : since'[a][reqs'[r].principal] <= reqs'[r].age
    <3>1. /\ reqs[r].pc = "storing" /\ reqs[r].tenant = Home /\ reqs'[r].token = reqs[r].token
          /\ reqs'[r].principal = reqs[r].principal /\ reqs'[r].age = reqs[r].age + 1
      BY <1>5, <2>1
    <3>2. PICK a \in verifiedAssertions(reqs[r].token) : since[a][reqs[r].principal] <= reqs[r].age
      BY <1>1, <3>1 DEF Recent
    <3>3. reqs[r].principal \in Principals /\ reqs[r].age \in 0..Lag /\ reqs[r].token \in Claimed
      BY <1>1, <3>1 DEF Shaped
    <3>4. a \in Aliases
      BY <3>2, <3>3, AssertionsTyping
    <3>5. since'[a][reqs[r].principal] <= reqs[r].age + 1
      BY <1>3, <1>6, <3>2, <3>3, <3>4
    <3> QED
      BY <3>1, <3>2, <3>5
  <2>2. ASSUME NEW k \in DOMAIN cache', k[1] = Home
        PROVE  \E a \in k[2] : since'[a][cache'[k].principal] + cache'[k].left <= TTL + Lag
    <3>1. PICK a \in k[2] : since[a][cache[k].principal] + cache[k].left <= TTL + Lag
      BY <1>1, <1>4, <2>2 DEF Recent
    <3>2. k \in Keys /\ cache[k].principal \in Principals
      BY <1>1, <1>4 DEF IdentityTypeOK
    <3>3. a \in Aliases
      BY <3>1, <3>2 DEF Keys
    <3>4. since'[a][cache[k].principal] + (cache[k].left - 1) <= TTL + Lag
      BY <1>3, <1>4, <1>6, <3>1, <3>2, <3>3
    <3> QED
      BY <1>4, <3>4
  <2>3. \A a \in Aliases, p \in Principals : aliases'[Home][a] = p => since'[a][p] = 0
    BY <1>2, <1>6
  <2> QED
    BY <2>1, <2>2, <2>3 DEF Recent
<1>11. ASSUME NEW o, NEW p, Used(o, p)' PROVE Used(o, p)
  <2>1. CASE \E k \in DOMAIN cache' : /\ k[1] = Home /\ cache'[k].principal = p
                                      /\ \E a \in k[2] : PersonOf(a) = o
    BY <1>4, <2>1 DEF Used
  <2>2. ASSUME NEW r \in Slots, reqs'[r].pc # "idle", reqs'[r].tenant = Home, GoesBy(reqs'[r], p),
               \E a \in verifiedAssertions(reqs'[r].token) : PersonOf(a) = o
        PROVE  Used(o, p)
    <3>1. /\ reqs[r].pc # "idle" /\ reqs[r].tenant = Home /\ GoesBy(reqs[r], p)
          /\ reqs'[r].token = reqs[r].token
      BY <1>5, <2>2 DEF GoesBy
    <3> QED
      BY <2>2, <3>1 DEF Used, GoesBy, Executing
  <2>3. CASE ~(\E k \in DOMAIN cache' : /\ k[1] = Home /\ cache'[k].principal = p
                                        /\ \E a \in k[2] : PersonOf(a) = o)
             /\ ~(\E r \in Slots : /\ reqs'[r].pc # "idle" /\ reqs'[r].tenant = Home
                                   /\ GoesBy(reqs'[r], p)
                                   /\ \E a \in verifiedAssertions(reqs'[r].token) : PersonOf(a) = o)
    BY <1>2, <1>11, <2>3 DEF Used, GoesBy, Executing
  <2> QED
    BY <2>1, <2>2, <2>3
<1>12. OwnPrincipals'
  <2>1. recycled = {} => \A r \in Slots : reqs'[r].pc # "idle" =>
            \A a, b \in verifiedAssertions(reqs'[r].token) : PersonOf(a) = PersonOf(b)
    <3>1. \A r \in Slots : reqs'[r].pc # "idle" => reqs[r].pc # "idle" /\ reqs'[r].token = reqs[r].token
      BY <1>5
    <3> QED
      BY <1>1, <3>1 DEF OwnPrincipals
  <2>2. recycled = {} =>
            /\ \A o \in People, p \in Principals : Used(o, p)' => p \in 1..minted
            /\ \A o, n \in People, p \in Principals : Used(o, p)' /\ Used(n, p)' => o = n
    BY <1>1, <1>11 DEF OwnPrincipals
  <2> QED
    BY <1>1, <1>2, <2>1, <2>2 DEF OwnPrincipals
<1> QED
  BY <1>8, <1>9, <1>10, <1>12 DEF IdentityInv

\* The initial states.
LEMMA IdentityInitKeeps == IdentityInit => IdentityInv
<1> SUFFICES ASSUME IdentityInit PROVE IdentityInv
  OBVIOUS
<1>1. /\ holder = Owner /\ minted = 0 /\ recycled = {} /\ config \in Configs
      /\ grants = [p \in Principals |-> {}] /\ DOMAIN cache = {}
      /\ DOMAIN reqs = Slots /\ DOMAIN syncs = Syncs
      /\ \A r \in Slots : reqs[r].pc = "idle"
      /\ \A s \in Syncs : syncs[s].pc = "idle"
      /\ since = [a \in Aliases |-> [p \in Principals |-> Never]]
  BY DEF IdentityInit, Idle
<1>2. /\ aliases \in [BothTenants -> [Aliases -> Principals \union {NoOne}]]
      /\ \A a \in Aliases : aliases[Home][a] = NoOne /\ aliases[Abroad][a] \in {Foreign, NoOne}
  BY NoOneApart DEF IdentityInit, BothTenants
<1>3. minted \in Principals /\ Never \in 0..Never
  BY <1>1, NoOneApart, IdentityAssumption DEF Principals
<1>4. IdentityTypeOK
  BY <1>1, <1>2, <1>3, IdentityAssumption DEF IdentityTypeOK
<1>5. Shaped /\ Resolving /\ ApartAbroad
  BY <1>1, <1>2, <1>4 DEF Shaped, Resolving, ApartAbroad, Executing
<1>6. Recent
  BY <1>1, <1>2, NoOneApart DEF Recent
<1>7. ASSUME NEW o, NEW p \in Principals PROVE ~Used(o, p)
  BY <1>1, <1>2, NoOneApart DEF Used
<1>8. OwnPrincipals
  BY <1>1, <1>7 DEF OwnPrincipals
<1> QED
  BY <1>5, <1>6, <1>8 DEF IdentityInv

\* A step that changes nothing.
LEMMA IdentityStutters ==
    ASSUME IdentityInv, UNCHANGED identityVars
    PROVE  IdentityInv'
<1>1. /\ config' = config /\ holder' = holder /\ aliases' = aliases /\ minted' = minted
      /\ grants' = grants /\ cache' = cache /\ reqs' = reqs /\ syncs' = syncs
      /\ since' = since /\ recycled' = recycled
  BY DEF identityVars
<1>2. DOMAIN reqs' = Slots
  BY <1>1 DEF IdentityInv, Shaped
<1>3. \A r \in Slots : FitRequest(reqs'[r])
  BY <1>1, AllFit
<1>4. \A k \in DOMAIN cache' : FitEntry(k, cache'[k])
  BY <1>1, AllFit
<1> QED
  BY <1>1, <1>2, <1>3, <1>4, RuntimeKeeps

\* A request comes from a token, by either transport.
LEMMA ArrivalIdentifies ==
    ASSUME NEW r, query(r) \/ executeSearch(r)
    PROVE  /\ reqs[r] = Idle
           /\ \E tenant \in BothTenants, token \in Tokens, o \in People :
                 Identify(r, tenant, token, o)
BY DEF query, executeSearch

\* Every step keeps the invariant.
LEMMA IdentityStep == IdentityInv /\ [IdentityNext]_identityVars => IdentityInv'
<1> SUFFICES ASSUME IdentityInv, [IdentityNext]_identityVars PROVE IdentityInv'
  OBVIOUS
<1>1. ASSUME NEW r \in Slots, query(r) \/ executeSearch(r) PROVE IdentityInv'
  BY <1>1, ArrivalIdentifies, IdentifyKeeps
<1>2. ASSUME NEW r \in Slots, ResolveInner(r) PROVE IdentityInv'
  BY <1>2, ResolveInnerKeeps
<1>3. ASSUME NEW r \in Slots, ResolveFails(r) \/ Done(r) PROVE IdentityInv'
  BY <1>3, DoneKeeps
<1>4. ASSUME NEW r \in Slots, Store(r) PROVE IdentityInv'
  BY <1>4, StoreKeeps
<1>5. ASSUME NEW m \in Mails, Withdraw(m) \/ \E o \in People : Assign(m, o) PROVE IdentityInv'
  BY <1>5, AddressKeeps
<1>6. ASSUME NEW s \in Syncs, FetchUsers(s) \/ ObserveFails(s) \/ Rewrite(s) PROVE IdentityInv'
  BY <1>6, ListKeeps
<1>7. ASSUME NEW s \in Syncs, ObserveResolve(s) PROVE IdentityInv'
  BY <1>7, ObserveResolveKeeps
<1>8. ASSUME NEW s \in Syncs, ObserveUpsert(s) PROVE IdentityInv'
  BY <1>8, ObserveUpsertKeeps
<1>9. CASE Tick
  BY <1>9, TickKeeps
<1>10. CASE Restart
  BY <1>10, RestartKeeps
<1>11. CASE UNCHANGED identityVars
  BY <1>11, IdentityStutters
<1> QED
  BY <1>1, <1>2, <1>3, <1>4, <1>5, <1>6, <1>7, <1>8, <1>9, <1>10, <1>11 DEF IdentityNext

\* The inductive invariant holds.
THEOREM IdentityInvariant == IdentitySpec => []IdentityInv
BY IdentityInitKeeps, IdentityStep, PTL DEF IdentitySpec

\* A principal has the permissions of one person, and a query with an object id in
\* its token runs with nobody else's.
THEOREM OnePersonHolds == IdentitySpec => []OnePerson
<1>1. ASSUME IdentityInv, recycled = {}, NEW p \in Principals PROVE Cardinality(grants[p]) <= 1
  <2>1. \A o, n \in grants[p] : o = n
    <3>1. grants[p] \subseteq People /\ \A o \in grants[p] : Used(o, p)
      BY <1>1 DEF IdentityInv, Shaped, IdentityTypeOK, Used
    <3> QED
      BY <1>1, <3>1 DEF IdentityInv, OwnPrincipals
  <2>2. CASE grants[p] = {}
    <3>1. Cardinality(grants[p]) = 0
      BY <2>2, FS_EmptySet
    <3> QED
      BY <3>1
  <2>3. CASE grants[p] # {}
    <3>1. PICK o : grants[p] = {o}
      BY <2>1, <2>3
    <3>2. Cardinality(grants[p]) = 1
      BY <3>1, FS_Singleton
    <3> QED
      BY <3>2
  <2> QED
    BY <2>2, <2>3
<1>2. ASSUME IdentityInv, recycled = {}, NEW r \in Slots, Executing(r),
             reqs[r].user[1] = "principal", reqs[r].token.oid # NoOne
      PROVE  grants[reqs[r].user[2]] \subseteq {reqs[r].token.oid}
  <2> DEFINE q == reqs[r]
             p == reqs[r].user[2]
             n == reqs[r].token.oid
  <2>1. IdentityTypeOK /\ OwnPrincipals
    BY <1>2 DEF IdentityInv, Shaped
  <2>2. FitRequest(q) /\ q.pc = "executing" /\ GoesBy(q, p)
    BY <1>2, AllFit DEF Executing, GoesBy
  <2>3. /\ q.tenant \in BothTenants /\ q.token \in Claimed /\ p \in Principals
        /\ q.tenant = Abroad => p = Foreign
        /\ q.tenant = Home => \A a \in verifiedAssertions(q.token) : Used(PersonOf(a), p)
    BY <1>2, <2>2 DEF FitRequest
  <2>4. ASSUME NEW o \in grants[p] PROVE o = n
    <3>1. o \in People /\ Used(o, p)
      BY <2>1, <2>3, <2>4 DEF IdentityTypeOK, Used
    <3>2. p \in 1..minted
      BY <1>2, <2>1, <2>3, <3>1 DEF OwnPrincipals
    <3>3. q.tenant = Home
      BY <2>3, <3>2 DEF Foreign, BothTenants
    <3>4. <<"entra:id", n>> \in verifiedAssertions(q.token) /\ n \in People
      BY <1>2, <2>3, AssertionsTyping DEF Claimed
    <3>5. Used(n, p)
      <4>1. PersonOf(<<"entra:id", n>>) = n
        BY DEF PersonOf, Spaces
      <4> QED
        BY <2>3, <3>3, <3>4, <4>1
    <3> QED
      BY <1>2, <2>1, <2>3, <3>1, <3>4, <3>5 DEF OwnPrincipals
  <2> QED
    BY <2>4
<1>3. IdentityInv => OnePerson
  <2>1. IdentityInv => IdentityTypeOK
    BY DEF IdentityInv, Shaped
  <2> QED
    BY <1>1, <1>2, <2>1 DEF OnePerson
<1> QED
  BY <1>3, IdentityInvariant, PTL

\* A query starts when a request arrives or when an answer is stored.
LEMMA WhatStarts ==
    ASSUME IdentityInv, [IdentityNext]_identityVars, NEW r \in Slots,
           reqs'[r].pc = "executing", reqs[r].pc # "executing"
    PROVE  \/ \E tenant \in BothTenants, token \in Tokens, o \in People :
                 Identify(r, tenant, token, o)
           \/ Store(r)
<1>1. DOMAIN reqs = Slots
  BY DEF IdentityInv, Shaped
<1>2. ASSUME NEW x \in Slots, NEW q, reqs' = [reqs EXCEPT ![x] = q] PROVE x = r /\ q.pc = "executing"
  BY <1>1, <1>2
<1>3. ASSUME reqs' = reqs PROVE FALSE
  BY <1>3
<1>4. ASSUME NEW x \in Slots, query(x) \/ executeSearch(x)
      PROVE  \E tenant \in BothTenants, token \in Tokens, o \in People : Identify(r, tenant, token, o)
  <2>1. PICK tenant \in BothTenants, token \in Tokens, o \in People : Identify(x, tenant, token, o)
    BY <1>4, ArrivalIdentifies
  <2>2. \E q : reqs' = [reqs EXCEPT ![x] = q]
    BY <2>1 DEF Identify, CanonicalizeIdentity, Run
  <2>3. x = r
    BY <1>2, <2>2
  <2> QED
    BY <2>1, <2>3
<1>5. ASSUME NEW x \in Slots, ResolveInner(x) PROVE FALSE
  <2>1. PICK q : reqs' = [reqs EXCEPT ![x] = q] /\ q.pc \in {"idle", "storing"}
    <3> DEFINE p == Resolve(reqs[x].tenant, verifiedAssertions(reqs[x].token))
               q == IF p = NoOne THEN Idle
                    ELSE [pc |-> "storing", tenant |-> reqs[x].tenant, token |-> reqs[x].token,
                          principal |-> p, age |-> 0]
    <3>1. reqs' = [reqs EXCEPT ![x] = q]
      BY <1>1, <1>5 DEF ResolveInner
    <3>2. q.pc \in {"idle", "storing"}
      BY DEF Idle
    <3> QED
      BY <3>1, <3>2
  <2> QED
    BY <1>2, <2>1
<1>6. ASSUME NEW x \in Slots, ResolveFails(x) \/ Done(x) PROVE FALSE
  BY <1>2, <1>6 DEF ResolveFails, Done, Idle
<1>7. ASSUME NEW x \in Slots, Store(x) PROVE Store(r)
  BY <1>2, <1>7 DEF Store, Run
<1>8. CASE Tick
  <2>1. reqs'[r].pc = reqs[r].pc
    <3>1. reqs'[r] = IF reqs[r].pc = "storing" THEN [reqs[r] EXCEPT !.age = @ + 1] ELSE reqs[r]
      BY <1>8 DEF Tick
    <3>2. reqs[r].pc = "storing" => DOMAIN reqs[r] = {"pc", "tenant", "token", "principal", "age"}
      BY DEF IdentityInv, Shaped
    <3> QED
      BY <3>1, <3>2
  <2> QED
    BY <2>1
<1>9. CASE Restart
  BY <1>9 DEF Restart, Idle
<1>10. ASSUME NEW s \in Syncs, FetchUsers(s) \/ ObserveResolve(s) \/ ObserveUpsert(s)
                               \/ ObserveFails(s) \/ Rewrite(s)
       PROVE  FALSE
  BY <1>3, <1>10 DEF FetchUsers, ObserveResolve, ObserveUpsert, ObserveFails, Rewrite
<1>11. ASSUME NEW m \in Mails, Withdraw(m) \/ \E o \in People : Assign(m, o) PROVE FALSE
  BY <1>3, <1>11 DEF Withdraw, Assign
<1>12. CASE UNCHANGED identityVars
  BY <1>3, <1>12 DEF identityVars
<1> QED
  BY <1>4, <1>5, <1>6, <1>7, <1>8, <1>9, <1>10, <1>11, <1>12 DEF IdentityNext

\* What a request that starts runs as.
RunsRight(req) ==
    IF req.token = Anonymous THEN config.allowDemo
    ELSE IF ~config.canonical THEN req.user = Raw(effectiveUserID(req.token))
    ELSE /\ req.user[1] = "principal"
         /\ IF req.tenant = Abroad THEN req.user[2] = Foreign
            ELSE \E a \in Trusted(req.token) \intersect Aliases :
                    since[a][req.user[2]] < TTL + Lag

\* Staleness is bounded by TTL + Lag.
THEOREM RunsAsResolvedHolds == IdentitySpec => RunsAsResolved
<1>1. ASSUME IdentityInv, NEW req, NEW p \in Principals, req.token \in Claimed, config.canonical,
             req.tenant \in BothTenants, req.user[1] = "principal", req.user[2] = p,
             req.token # Anonymous,
             req.tenant = Abroad => p = Foreign,
             req.tenant = Home =>
                \E a \in verifiedAssertions(req.token) : since[a][p] < TTL + Lag
      PROVE  RunsRight(req)
  <2>1. verifiedAssertions(req.token) \subseteq Trusted(req.token) \intersect Aliases
    BY <1>1, AssertionsTyping
  <2> QED
    BY <1>1, <2>1 DEF RunsRight, BothTenants
<1>2. ASSUME IdentityInv, NEW r \in Slots, NEW tenant \in BothTenants, NEW token \in Tokens, NEW o,
             Identify(r, tenant, token, o), reqs'[r].pc = "executing"
      PROVE  RunsRight(reqs'[r])
  <2> DEFINE key == resolveCacheKey(tenant, verifiedAssertions(token))
             n(user) == [pc |-> "executing", tenant |-> tenant, token |-> token, user |-> user]
  <2>1. DOMAIN reqs = Slots /\ token \in Claimed
    BY <1>2, TokensTyping DEF IdentityInv, Shaped
  <2>2. CASE token = Anonymous
    <3>1. config.allowDemo /\ reqs'[r] = n(Raw(o))
      BY <1>2, <2>1, <2>2 DEF Identify, Run
    <3> QED
      BY <2>2, <3>1 DEF RunsRight
  <2>3. CASE token # Anonymous /\ ~config.canonical
    <3>1. reqs'[r] = n(Raw(effectiveUserID(token)))
      BY <1>2, <2>1, <2>3 DEF Identify, CanonicalizeIdentity, Run
    <3> QED
      BY <2>3, <3>1 DEF RunsRight
  <2>4. CASE token # Anonymous /\ config.canonical
    <3>1. key \in DOMAIN cache /\ reqs'[r] = n(Canonical(cache[key].principal))
      BY <1>2, <2>1, <2>4 DEF Identify, CanonicalizeIdentity, Run
    <3> DEFINE p == cache[key].principal
               req == n(Canonical(p))
    <3>2. FitEntry(key, cache[key]) /\ key[1] = tenant /\ key[2] = verifiedAssertions(token)
      BY <1>2, <3>1, AllFit DEF resolveCacheKey
    <3>3. /\ p \in Principals /\ cache[key].left \in 1..TTL /\ (tenant = Abroad => p = Foreign)
          /\ tenant = Home => \E a \in verifiedAssertions(token) :
                                  since[a][p] + cache[key].left <= TTL + Lag
      BY <3>2 DEF FitEntry
    <3>4. req.token = token /\ req.tenant = tenant /\ req.user[1] = "principal" /\ req.user[2] = p
      BY DEF Canonical
    <3> HIDE DEF key
    <3>5. tenant = Home => \E a \in verifiedAssertions(token) : since[a][p] < TTL + Lag
      <4>1. ASSUME NEW a \in verifiedAssertions(token), since[a][p] + cache[key].left <= TTL + Lag
            PROVE  since[a][p] < TTL + Lag
        <5>1. a \in Aliases
          BY <2>1, AssertionsTyping
        <5>2. since[a][p] \in 0..Never /\ Never \in Nat
          BY <1>2, <3>3, <5>1, NoOneApart DEF IdentityInv, Shaped, IdentityTypeOK
        <5>3. TTL \in Nat /\ Lag \in Nat
          BY IdentityAssumption
        <5> QED
          BY <3>3, <4>1, <5>2, <5>3
      <4> QED
        BY <3>3, <4>1
    <3> HIDE DEF p, req
    <3>6. RunsRight(req)
      BY <1>1, <1>2, <2>1, <2>4, <3>3, <3>4, <3>5
    <3> QED
      BY <3>1, <3>6 DEF req, p
  <2> QED
    BY <2>2, <2>3, <2>4
<1>3. ASSUME IdentityInv, NEW r \in Slots, Store(r) PROVE RunsRight(reqs'[r])
  <2> DEFINE q == reqs[r]
             req == [pc |-> "executing", tenant |-> q.tenant, token |-> q.token,
                     user |-> Canonical(q.principal)]
  <2>1. q.pc = "storing" /\ reqs'[r] = req
    BY <1>3 DEF Store, Run, IdentityInv, Shaped
  <2>2. FitRequest(q) /\ GoesBy(q, q.principal)
    BY <1>3, <2>1, AllFit DEF GoesBy
  <2>3. /\ q.tenant \in BothTenants /\ q.token \in Claimed /\ q.principal \in Principals
        /\ q.age \in 0..Lag /\ config.canonical /\ q.token # Anonymous
        /\ q.tenant = Abroad => q.principal = Foreign
        /\ q.tenant = Home => \E a \in verifiedAssertions(q.token) : since[a][q.principal] <= q.age
    BY <2>1, <2>2 DEF FitRequest
  <2>4. req.token = q.token /\ req.tenant = q.tenant /\ req.user[1] = "principal"
        /\ req.user[2] = q.principal
    BY DEF Canonical
  <2> HIDE DEF q
  <2>5. q.tenant = Home => \E a \in verifiedAssertions(q.token) : since[a][q.principal] < TTL + Lag
    <3>1. ASSUME NEW a \in verifiedAssertions(q.token), since[a][q.principal] <= q.age
          PROVE  since[a][q.principal] < TTL + Lag
      <4>1. a \in Aliases
        BY <2>3, AssertionsTyping
      <4>2. since[a][q.principal] \in 0..Never /\ Never \in Nat
        BY <1>3, <2>3, <4>1, NoOneApart DEF IdentityInv, Shaped, IdentityTypeOK
      <4>3. TTL \in Nat \ {0} /\ Lag \in Nat
        BY IdentityAssumption
      <4> QED
        BY <2>3, <3>1, <4>2, <4>3
    <3> QED
      BY <2>3, <3>1
  <2> HIDE DEF req
  <2>6. RunsRight(req)
    BY <1>1, <1>3, <2>3, <2>4, <2>5
  <2> QED
    BY <2>1, <2>6
<1>4. IdentityInv /\ [IdentityNext]_identityVars =>
        [\A r \in Slots : Executing(r)' /\ ~Executing(r) => RunsRight(reqs'[r])]_identityVars
  BY <1>2, <1>3, WhatStarts DEF Executing
<1>5. [\A r \in Slots : Executing(r)' /\ ~Executing(r) => RunsRight(reqs'[r])]_identityVars =>
      [\A r \in Slots : Executing(r)' /\ ~Executing(r) =>
        LET req == reqs'[r]
        IN  IF req.token = Anonymous THEN config.allowDemo
            ELSE IF ~config.canonical THEN req.user = Raw(effectiveUserID(req.token))
            ELSE /\ req.user[1] = "principal"
                 /\ IF req.tenant = Abroad THEN req.user[2] = Foreign
                    ELSE \E a \in Trusted(req.token) \intersect Aliases :
                            since[a][req.user[2]] < TTL + Lag]_identityVars
  BY DEF RunsRight
<1> QED
  BY <1>4, <1>5, IdentityInvariant, PTL DEF IdentitySpec, RunsAsResolved

=============================================================================
