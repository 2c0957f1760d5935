------------------------------ MODULE AclSync -------------------------------
(***************************************************************************)
(* The ACL sync service (internal/aclsync): Service.Run, reconcile,        *)
(* applyChange and withRetry (service.go), Syncer.SyncToOpenFGA (sync.go), *)
(* the change channel of the connector (mock.go) and the two sinks         *)
(* (fga.go), one service per tenant.  MemoryFGA keeps the tuples of each   *)
(* tenant apart; OpenFGASink works on the whole of the one store it is     *)
(* configured with, so services of several tenants may share it.           *)
(*                                                                         *)
(* The permissions of a tenant are the tuples PermissionSetToTuples makes  *)
(* of its snapshot.  A source change updates the source under the          *)
(* connector's mutex and emits its event after unlocking it, so events may *)
(* be emitted in another order; the channel is bounded and emit drops what *)
(* does not fit.  The service is sequential: it takes one event or one     *)
(* tick at a time and retries the operation it is in until it succeeds.    *)
(*                                                                         *)
(* pc[t] names what the service of tenant t does next:                     *)
(*   snapshot -> list -> write -> delete -> select, and apply -> select.   *)
(* A failed operation starts again (withRetry): a sync from its snapshot.  *)
(***************************************************************************)
EXTENDS Naturals, Sequences, FiniteSets

CONSTANTS
    Tenants,
    Grants,         \* Grants[t]: the tuples tenant t may ever hold
    Evented,        \* tuples whose changes the connector announces
    Granted,        \* Granted[t]: the source of t at start-up
    StoreOf,        \* StoreOf[t]: the tuple store the sink of t works on
    Deployments,    \* how the services are started, on which kind of store,
                    \* and a bound on the changes at each tenant's source
    Capacity        \* of the change channel (64)

Stores == {StoreOf[t] : t \in Tenants}
Tuples == UNION {Grants[t] : t \in Tenants}

\* A service syncs once, watches, or is not started.
ServiceModes == {"once", "watch", "off"}

ChangeTypes == {"add", "revoke"}

\* A PermissionChange; nth tells equal changes apart.
Change == [type : ChangeTypes, tuple : Tuples, nth : Nat]

ASSUME SyncAssumption ==
    /\ Granted \in [Tenants -> SUBSET Tuples]
    /\ \A t \in Tenants : Granted[t] \subseteq Grants[t]
    /\ Deployments \subseteq [mode : [Tenants -> ServiceModes], strict : BOOLEAN,
                              changes : [Tenants -> Nat]]
    /\ Capacity \in Nat

VARIABLES
    mode,           \* mode[t]: one of ServiceModes
    strict,         \* the stores reject existing writes and missing deletes
    source,         \* what the source of truth of t grants
    emitting,       \* changes made at the source whose event is not yet sent
    changes,        \* the channel
    store,          \* tuples of each store
    pc,
    initial,        \* the initial sync has not completed
    desired, have,  \* the snapshot and the listing of the sync in progress
    change,         \* the event being applied
    left,           \* source changes still to come
    absent,         \* history: tuples of t that its source once lacked
    disturbed       \* history: another service changed t's store since t listed it

deployVars == <<mode, strict>>
srcVars == <<source, emitting, left, absent>>
storeVars == <<store, disturbed>>
vars == <<deployVars, srcVars, changes, storeVars, pc, initial, desired, have, change>>

NoChange == [type |-> "none"]
Steps == {"snapshot", "list", "write", "delete", "select", "apply", "stopped"}

Init ==
    /\ \E d \in Deployments : mode = d.mode /\ strict = d.strict /\ left = d.changes
    /\ source = Granted
    /\ emitting = [t \in Tenants |-> {}]
    /\ changes = [t \in Tenants |-> << >>]
    /\ store = [s \in Stores |-> {}]
    /\ pc = [t \in Tenants |-> IF mode[t] = "off" THEN "stopped" ELSE "snapshot"]
    /\ initial = [t \in Tenants |-> TRUE]
    /\ desired = [t \in Tenants |-> {}]
    /\ have = [t \in Tenants |-> {}]
    /\ change = [t \in Tenants |-> NoChange]
    /\ absent = [t \in Tenants |-> Grants[t] \ Granted[t]]
    /\ disturbed = [t \in Tenants |-> FALSE]

Goto(t, step) == pc' = [pc EXCEPT ![t] = step]

-----------------------------------------------------------------------------
(* The source of truth and its change channel *)

\* A grant is added or removed at the source, possibly one that is there
\* already or is not there.  Only membership changes have an event, which says
\* what was asked for; RemoveDocument has none.
SourceChanges(t, g, type) ==
    /\ left[t] > 0
    /\ left' = [left EXCEPT ![t] = @ - 1]
    /\ source' = [source EXCEPT ![t] = IF type = "add" THEN @ \union {g} ELSE @ \ {g}]
    /\ absent' = [absent EXCEPT ![t] = IF type = "add" THEN @ ELSE @ \union {g}]
    /\ emitting' = [emitting EXCEPT ![t] =
            IF g \in Evented
            THEN @ \union {[type |-> type, tuple |-> g, nth |-> left[t]]}
            ELSE @]
    /\ UNCHANGED <<deployVars, changes, storeVars, pc, initial, desired, have, change>>

\* emit: never block, drop when the channel is full.
Emit(t, c) ==
    /\ emitting' = [emitting EXCEPT ![t] = @ \ {c}]
    /\ changes' = [changes EXCEPT ![t] = IF Len(@) < Capacity THEN Append(@, c) ELSE @]
    /\ UNCHANGED <<deployVars, source, left, absent, storeVars, pc, initial, desired, have, change>>

-----------------------------------------------------------------------------
(* The sink *)

\* The request is accepted: OpenFGA refuses to write a tuple it has or to
\* delete one it has not; MemoryFGA accepts everything.
Accepts(t, writes, deletes) ==
    strict => writes \intersect store[StoreOf[t]] = {} /\ deletes \subseteq store[StoreOf[t]]

\* The store of t after an accepted request.
Applied(t, writes, deletes) ==
    [store EXCEPT ![StoreOf[t]] = (@ \union writes) \ deletes]

\* The request fails: nothing happened, or the answer was lost.
Lost(t, writes, deletes) ==
    \/ store' = store
    \/ Accepts(t, writes, deletes) /\ store' = Applied(t, writes, deletes)

\* The services that share the store of t find it changed under them.
Disturb(t) ==
    disturbed' = [u \in Tenants |->
        disturbed[u] \/ (u # t /\ StoreOf[u] = StoreOf[t] /\ store' # store)]

-----------------------------------------------------------------------------
(* SyncToOpenFGA *)

\* Snapshot returns the source of this moment, or nothing at all while the
\* connector is out of order.
TakeSnapshot(t) ==
    /\ pc[t] = "snapshot"
    /\ desired' = [desired EXCEPT ![t] = source[t]]
    /\ Goto(t, "list")
    /\ UNCHANGED <<deployVars, srcVars, changes, storeVars, initial, have, change>>

TakeEmptySnapshot(t) ==
    /\ pc[t] = "snapshot"
    /\ desired' = [desired EXCEPT ![t] = {}]
    /\ Goto(t, "list")
    /\ UNCHANGED <<deployVars, srcVars, changes, storeVars, initial, have, change>>

ListTuples(t) ==
    /\ pc[t] = "list"
    /\ have' = [have EXCEPT ![t] = store[StoreOf[t]]]
    /\ disturbed' = [disturbed EXCEPT ![t] = FALSE]
    /\ Goto(t, "write")
    /\ UNCHANGED <<deployVars, srcVars, changes, store, initial, desired, change>>

ToWrite(t) == desired[t] \ have[t]

\* Mutant: an empty snapshot is taken at its word.
ToDeleteUnguarded(t) == have[t] \ desired[t]

\* Nothing is deleted on an empty snapshot (AllowEmptyDestructive is off).
ToDelete(t) == IF desired[t] = {} THEN {} ELSE have[t] \ desired[t]

WriteMissing(t) ==
    /\ pc[t] = "write"
    /\ Accepts(t, ToWrite(t), {})
    /\ store' = Applied(t, ToWrite(t), {})
    /\ Disturb(t)
    /\ Goto(t, "delete")
    /\ UNCHANGED <<deployVars, srcVars, changes, initial, desired, have, change>>

\* Mutant: a sync only ever adds.
DeleteExtraNever(t) ==
    /\ pc[t] = "delete"
    /\ Goto(t, IF initial[t] /\ mode[t] = "once" THEN "stopped" ELSE "select")
    /\ initial' = [initial EXCEPT ![t] = FALSE]
    /\ UNCHANGED <<deployVars, srcVars, changes, storeVars, desired, have, change>>

\* The sync is over; in once mode the service is, too.
DeleteExtra(t) ==
    /\ pc[t] = "delete"
    /\ Accepts(t, {}, ToDelete(t))
    /\ store' = Applied(t, {}, ToDelete(t))
    /\ Disturb(t)
    /\ Goto(t, IF initial[t] /\ mode[t] = "once" THEN "stopped" ELSE "select")
    /\ initial' = [initial EXCEPT ![t] = FALSE]
    /\ UNCHANGED <<deployVars, srcVars, changes, desired, have, change>>

\* A call of the sync fails and withRetry starts the sync again.  (A failed
\* Snapshot changes nothing.)
SyncFails(t) ==
    /\ pc[t] \in {"list", "write", "delete"}
    /\ \/ pc[t] = "list" /\ UNCHANGED store
       \/ pc[t] = "write" /\ ToWrite(t) # {} /\ Lost(t, ToWrite(t), {})
       \/ pc[t] = "delete" /\ ToDelete(t) # {} /\ Lost(t, {}, ToDelete(t))
    /\ Disturb(t)
    /\ Goto(t, "snapshot")
    /\ UNCHANGED <<deployVars, srcVars, changes, initial, desired, have, change>>

\* The next request of the sync no longer fits the store.
Refused(t) ==
    \/ pc[t] = "write" /\ ~Accepts(t, ToWrite(t), {})
    \/ pc[t] = "delete" /\ ~Accepts(t, {}, ToDelete(t))

\* The store refuses the request and withRetry starts the sync again.
SyncRefused(t) ==
    /\ Refused(t)
    /\ Goto(t, "snapshot")
    /\ UNCHANGED <<deployVars, srcVars, changes, storeVars, initial, desired, have, change>>

-----------------------------------------------------------------------------
(* The watch loop *)

\* case change := <-changes
ReceiveChange(t) ==
    /\ pc[t] = "select"
    /\ changes[t] # << >>
    /\ change' = [change EXCEPT ![t] = Head(changes[t])]
    /\ changes' = [changes EXCEPT ![t] = Tail(@)]
    /\ Goto(t, "apply")
    /\ UNCHANGED <<deployVars, srcVars, storeVars, initial, desired, have>>

\* Mutant: the sync ticker is missing from the select.
SyncTickNever(t) == FALSE

\* case <-syncTicker.C
SyncTick(t) ==
    /\ pc[t] = "select"
    /\ Goto(t, "snapshot")
    /\ UNCHANGED <<deployVars, srcVars, changes, storeVars, initial, desired, have, change>>

\* changeToTuples
Writes(c) == IF c.type = "add" THEN {c.tuple} ELSE {}
Deletes(c) == IF c.type = "revoke" THEN {c.tuple} ELSE {}

ApplyChange(t) ==
    /\ pc[t] = "apply"
    /\ Accepts(t, Writes(change[t]), Deletes(change[t]))
    /\ store' = Applied(t, Writes(change[t]), Deletes(change[t]))
    /\ Disturb(t)
    /\ change' = [change EXCEPT ![t] = NoChange]
    /\ Goto(t, "select")
    /\ UNCHANGED <<deployVars, srcVars, changes, initial, desired, have>>

\* The request fails and withRetry repeats it, for as long as it takes.
ApplyFails(t) ==
    /\ pc[t] = "apply"
    /\ Lost(t, Writes(change[t]), Deletes(change[t]))
    /\ Disturb(t)
    /\ UNCHANGED <<deployVars, srcVars, changes, pc, initial, desired, have, change>>

\* The context is cancelled.
Shutdown(t) ==
    /\ pc[t] # "stopped"
    /\ Goto(t, "stopped")
    /\ UNCHANGED <<deployVars, srcVars, changes, storeVars, initial, desired, have, change>>

Next ==
    \E t \in Tenants :
        \/ \E g \in Grants[t], type \in ChangeTypes : SourceChanges(t, g, type)
        \/ \E c \in emitting[t] : Emit(t, c)
        \/ TakeSnapshot(t) \/ TakeEmptySnapshot(t) \/ ListTuples(t)
        \/ WriteMissing(t) \/ DeleteExtra(t)
        \/ SyncFails(t) \/ SyncRefused(t)
        \/ ReceiveChange(t) \/ SyncTick(t)
        \/ ApplyChange(t) \/ ApplyFails(t)
        \/ Shutdown(t)

Spec == Init /\ [][Next]_vars

\* A step in which a connector or a store is out of order.
Fault == \E t \in Tenants : TakeEmptySnapshot(t) \/ SyncFails(t) \/ ApplyFails(t)

\* The service runs; outages of the connector and of the store end; and
\* select, which picks at random among its ready cases, starves neither the
\* channel nor the ticker.
LiveSpec ==
    /\ Spec
    /\ <>[][~Fault]_vars
    /\ \A t \in Tenants :
        /\ WF_vars(TakeSnapshot(t)) /\ WF_vars(ListTuples(t))
        /\ WF_vars(WriteMissing(t)) /\ WF_vars(DeleteExtra(t))
        /\ WF_vars(SyncRefused(t)) /\ WF_vars(ApplyChange(t))
        /\ SF_vars(ReceiveChange(t)) /\ SF_vars(SyncTick(t))

-----------------------------------------------------------------------------
(* Properties *)

TypeOK ==
    /\ mode \in [Tenants -> ServiceModes] /\ strict \in BOOLEAN
    /\ source \in [Tenants -> SUBSET Tuples]
    /\ absent \in [Tenants -> SUBSET Tuples]
    /\ \A t \in Tenants : source[t] \subseteq Grants[t] /\ absent[t] \subseteq Grants[t]
    /\ emitting \in [Tenants -> SUBSET Change]
    /\ changes \in [Tenants -> Seq(Change)]
    /\ \A t \in Tenants : Len(changes[t]) <= Capacity
    /\ store \in [Stores -> SUBSET Tuples]
    /\ pc \in [Tenants -> Steps]
    /\ initial \in [Tenants -> BOOLEAN]
    /\ desired \in [Tenants -> SUBSET Tuples]
    /\ have \in [Tenants -> SUBSET Tuples]
    /\ change \in [Tenants -> Change \union {NoChange}]
    /\ left \in [Tenants -> Nat]
    /\ disturbed \in [Tenants -> BOOLEAN]

\* A tuple leaves a store only by the hand of a service whose own source has
\* not granted it all along: no outage, stale listing or late event of a
\* service revokes what its source grants (SyncToOpenFGA and its
\* empty-snapshot guard, applyChange).  Of the tuples of the other tenants of
\* a shared store it says what the code does: they are not in the snapshot.
GrantsKept ==
    [][\A s \in Stores : \A g \in store[s] \ store'[s] :
          \E t \in Tenants : /\ StoreOf[t] = s /\ pc[t] \in {"delete", "apply"}
                             /\ g \notin Grants[t] \ absent[t]]_vars

\* A sync that completes leaves exactly its snapshot in the store, whatever
\* failed and was retried before, unless another service changed the store
\* between its listing and its end (SyncToOpenFGA; the guard keeps more).
SyncEstablishesSnapshot ==
    [][\A t \in Tenants :
          pc[t] = "delete" /\ (pc'[t] = "select" \/ initial'[t] # initial[t])
              => desired[t] = {} \/ disturbed[t] \/ store'[StoreOf[t]] = desired[t]]_vars

Running(t) == pc[t] # "stopped"

\* Once the source stops changing, the store comes to match it for good,
\* unless the source is empty, which the guard treats as an outage (Run).
Converges ==
    \A t \in Tenants :
        <>[](source[t] = {} \/ ~Running(t) \/ store[StoreOf[t]] = source[t])

-----------------------------------------------------------------------------
(* The inductive invariant behind GrantsKept and SyncEstablishesSnapshot.  *)

\* The history variable is complete.
AbsentComplete == \A t \in Tenants : Grants[t] \ absent[t] \subseteq source[t]

\* A snapshot that is not empty has everything granted all along.
SnapshotSound ==
    \A t \in Tenants : pc[t] \in {"list", "write", "delete"} =>
        desired[t] = {} \/ Grants[t] \ absent[t] \subseteq desired[t]

\* A revocation on its way was one.
RevokedOnce(t, c) == c.type = "revoke" => c.tuple \in absent[t]
EventsSound ==
    \A t \in Tenants :
        /\ \A c \in emitting[t] : RevokedOnce(t, c)
        /\ \A k \in 1..Len(changes[t]) : RevokedOnce(t, changes[t][k])
        /\ RevokedOnce(t, change[t])

\* Between listing and deleting only the service itself changes the store,
\* unless it was disturbed.
ListingCurrent ==
    \A t \in Tenants : ~disturbed[t] =>
        /\ pc[t] = "write" => store[StoreOf[t]] = have[t]
        /\ pc[t] = "delete" => store[StoreOf[t]] = have[t] \union desired[t]

SyncInv == TypeOK /\ AbsentComplete /\ SnapshotSound /\ EventsSound /\ ListingCurrent
=============================================================================
