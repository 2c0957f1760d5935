------------------------------ MODULE Ingestion -----------------------------
(***************************************************************************)
(* The ingestion service (services/ingestion, Python) and the OpenFGA      *)
(* store it shares with the query runtime.                                 *)
(*                                                                         *)
(* An upload is chunked, written chunk by chunk to Qdrant and then to      *)
(* Elasticsearch (AtomicDualIndexWriter), retried as a whole, and finally  *)
(* granted to the groups of its tags in OpenFGA; a failure rolls back what *)
(* the writer remembers as written.  The handler blocks the event loop, so *)
(* a process ingests one document at a time.                               *)
(*                                                                         *)
(* Elasticsearch shows what was written to a search only after its next    *)
(* refresh.  The rollback deletes by query, so it finds what a search      *)
(* finds, and is refused (409, which the client raises) for a chunk that   *)
(* was written or deleted since.                                           *)
(*                                                                         *)
(* Both services create the OpenFGA store when they do not find it; only   *)
(* the query runtime (OpenFGAChecker.ensure) writes the authorization      *)
(* model.  Every request to a service may fail, with or without effect,    *)
(* and the ingestion process may die at any point.                         *)
(***************************************************************************)
EXTENDS Integers, Sequences, FiniteSets, SequencesExt

CONSTANTS
    Docs,
    ChunksOf,       \* ChunksOf[d]: the chunks of d in order
    Tags,           \* owner_acl_tags
    Pods,           \* instances of the query runtime
    Attempts,       \* attempts of retry_with_backoff (4)
    MaxStores,      \* bound on the stores created
    Budgets         \* bounds on the uploads and on the restarts of a behaviour

Chunks(d) == Range(ChunksOf[d])
Memberships == <<"default", "memberships">>    \* the default tuples, as one

ASSUME IngestionAssumption ==
    /\ \A d \in Docs : /\ ChunksOf[d] \in Seq(Chunks(d))
                       /\ Len(ChunksOf[d]) > 0    \* a document with some text
    \* chunk ids are digests of the document id and the text (stable_chunk)
    /\ \A c, d \in Docs : c # d => Chunks(c) \intersect Chunks(d) = {}
    \* a membership is no grant of a document
    /\ Memberships \notin Docs \X Tags
    /\ Attempts \in Nat \ {0}
    /\ MaxStores \in Nat \ {0}
    /\ Budgets \subseteq [uploads : Nat, restarts : Nat]

VARIABLES
    vector,     \* chunks in Qdrant
    lexical,    \* chunks in Elasticsearch
    searchable, \* chunks a search finds there: those of the last refresh
    outdated,   \* of these, the ones written or deleted since
    job,        \* the upload in progress
    outcome,    \* of the last upload of each document
    stores,     \* OpenFGA stores of the configured name, oldest first
    auth,       \* OpenFGAAuthorizer: has it a store, and which
    pods,       \* OpenFGAChecker of each runtime, and what its ensure did
    torn,       \* stores that got a model without the default memberships,
                \* because ensure failed in between
    budget      \* uploads and restarts still to come

vars == <<vector, lexical, searchable, outdated, job, outcome, stores, auth, pods, torn,
          budget>>
elastic == <<lexical, searchable, outdated>>
indexes == <<vector, elastic>>
fga == <<stores, auth, pods, torn, budget>>

NoJob == [pc |-> "idle"]
NewStore == [model |-> "none", tuples |-> {}]

\* What is remembered of an upload: its result and tags, whether the document had
\* been uploaded before, the chunks at which an attempt failed and those its
\* rollback did not find in Elasticsearch, whether a rollback was cut short, and
\* the answer and the store of its grant.
Fresh == [result |-> "none", tags |-> {}, replaced |-> FALSE, failing |-> {},
          missed |-> {}, broken |-> FALSE, answer |-> "none", store |-> 0]

-----------------------------------------------------------------------------
(* AtomicDualIndexWriter and retry_with_backoff *)

Chunk == ChunksOf[job.doc][job.k]

\* The attempt is over without success: the next one starts from the first
\* chunk with the same writer, or the upload fails.
Retried(written) ==
    IF job.attempt < Attempts
    THEN /\ job' = [job EXCEPT !.pc = "vector", !.k = 1, !.attempt = @ + 1,
                               !.written = written]
         /\ UNCHANGED outcome
    ELSE /\ job' = NoJob
         /\ outcome' = [outcome EXCEPT ![job.doc].result = "failed"]

\* An upsert of the current chunk raised: rollback.
RollBackWrite ==
    /\ job' = [job EXCEPT !.pc = "delete_vector", !.todo = job.written]
    /\ outcome' = [outcome EXCEPT ![job.doc].failing = @ \union {Chunk}]

VectorUpsert ==
    /\ job.pc = "vector"
    /\ vector' = vector \union {Chunk}
    /\ job' = [job EXCEPT !.pc = "lexical"]
    /\ UNCHANGED <<elastic, outcome, fga>>

VectorUpsertFails ==
    /\ job.pc = "vector"
    /\ vector' \in {vector, vector \union {Chunk}}
    /\ RollBackWrite
    /\ UNCHANGED <<elastic, fga>>

\* Mutant: the chunk is never remembered.
WrittenForgetful == << >>

\* self.written.append(chunk)
Written == Append(job.written, Chunk)

\* index, without a refresh
Index ==
    /\ lexical' = lexical \union {Chunk}
    /\ outdated' = outdated \union (searchable \intersect {Chunk})
    /\ UNCHANGED searchable

LexicalUpsert ==
    /\ job.pc = "lexical"
    /\ Index
    /\ job' = IF job.k < Len(ChunksOf[job.doc])
              THEN [job EXCEPT !.pc = "vector", !.k = @ + 1, !.written = Written]
              ELSE [job EXCEPT !.pc = "grant", !.attempt = 1, !.written = Written]
    /\ UNCHANGED <<vector, outcome, fga>>

LexicalUpsertFails ==
    /\ job.pc = "lexical"
    /\ Index \/ UNCHANGED elastic
    /\ RollBackWrite
    /\ UNCHANGED <<vector, fga>>

\* rollback: the chunks written, from the last one on, first out of Qdrant ...
DeleteVector ==
    /\ job.pc = "delete_vector"
    /\ job.todo # << >>
    /\ vector' = vector \ {Last(job.todo)}
    /\ job' = [job EXCEPT !.pc = "delete_lexical"]
    /\ UNCHANGED <<elastic, outcome, fga>>

\* ... then out of Elasticsearch: delete_by_query, without a refresh, deletes
\* the chunk if a search finds it and its version is still the current one.
DeleteByQuery ==
    /\ Last(job.todo) \in searchable \ outdated
    /\ lexical' = lexical \ {Last(job.todo)}
    /\ outdated' = outdated \union {Last(job.todo)}
    /\ UNCHANGED searchable

Deleted == job' = [job EXCEPT !.pc = "delete_vector", !.todo = Front(@)]

DeleteLexical ==
    /\ job.pc = "delete_lexical"
    /\ DeleteByQuery
    /\ Deleted
    /\ UNCHANGED <<vector, outcome, fga>>

\* The search does not find the chunk: nothing is deleted, and that is no error.
DeleteLexicalMisses ==
    /\ job.pc = "delete_lexical"
    /\ Last(job.todo) \notin searchable
    /\ outcome' = [outcome EXCEPT ![job.doc].missed = @ \union {Last(job.todo)}]
    /\ Deleted
    /\ UNCHANGED <<indexes, fga>>

\* A delete raises, after it took effect or not (a chunk found in an outdated
\* version always raises): the rollback ends here, `written` is not cleared.
DeleteFails ==
    /\ job.pc \in {"delete_vector", "delete_lexical"}
    /\ job.todo # << >>
    /\ \/ UNCHANGED indexes
       \/ job.pc = "delete_vector" /\ vector' = vector \ {Last(job.todo)} /\ UNCHANGED elastic
       \/ job.pc = "delete_lexical" /\ DeleteByQuery /\ UNCHANGED vector
    /\ IF job.granting \/ job.attempt = Attempts
       THEN /\ job' = NoJob
            /\ outcome' = [outcome EXCEPT ![job.doc].result = "failed",
                                          ![job.doc].broken = TRUE]
       ELSE /\ job' = [job EXCEPT !.pc = "vector", !.k = 1, !.attempt = @ + 1]
            /\ outcome' = [outcome EXCEPT ![job.doc].broken = TRUE]
    /\ UNCHANGED fga

\* Elasticsearch refreshes the index.
Refresh ==
    /\ searchable # lexical \/ outdated # {}
    /\ searchable' = lexical
    /\ outdated' = {}
    /\ UNCHANGED <<vector, lexical, job, outcome, fga>>

\* Everything is deleted: written.clear().
RolledBack ==
    /\ job.pc = "delete_vector"
    /\ job.todo = << >>
    /\ IF job.granting
       THEN /\ job' = NoJob
            /\ outcome' = [outcome EXCEPT ![job.doc].result = "failed"]
       ELSE Retried(<< >>)
    /\ UNCHANGED <<indexes, fga>>

-----------------------------------------------------------------------------
(* Uploads *)

\* ingest_file and the head of ingest: the region is known, the body has been
\* chunked and embedded (before that nothing is stored anywhere).
IngestFile ==
    /\ job = NoJob
    /\ auth.ready
    /\ budget.uploads > 0
    /\ budget' = [budget EXCEPT !.uploads = @ - 1]
    /\ \E d \in Docs, tags \in SUBSET Tags :
        /\ job' = [pc |-> "vector", doc |-> d, k |-> 1, attempt |-> 1,
                   written |-> << >>, todo |-> << >>, granting |-> FALSE]
        /\ outcome' = [outcome EXCEPT ![d] =
                [Fresh EXCEPT !.result = "running", !.tags = tags,
                              !.replaced = outcome[d].result # "none"]]
    /\ UNCHANGED <<indexes, stores, auth, pods, torn>>

Tuples(d, tags) == {<<d, tag>> : tag \in tags}

\* The answer of OpenFGA to a write: the whole batch or nothing.
WriteAnswer(store, tuples) ==
    IF stores[store].model = "none" THEN "no authorization model"
    ELSE IF tuples \intersect stores[store].tuples # {} THEN "already"
    ELSE "written"

\* _write_tuples treats these refusals as success.
Tolerated == {"no authorization model", "already"}

\* grant_document ends well: the tuples are written, or were refused for a
\* reason that is tolerated.
Grant ==
    LET tuples == Tuples(job.doc, outcome[job.doc].tags)
        answer == IF tuples = {} THEN "written" ELSE WriteAnswer(auth.store, tuples)
    IN  /\ job.pc = "grant"
        /\ answer = "written" \/ answer \in Tolerated
        /\ stores' = IF answer = "written"
                     THEN [stores EXCEPT ![auth.store].tuples = @ \union tuples]
                     ELSE stores
        /\ outcome' = [outcome EXCEPT ![job.doc].result = "ok",
                                      ![job.doc].answer = answer,
                                      ![job.doc].store = auth.store]
        /\ job' = NoJob
        /\ UNCHANGED <<indexes, auth, pods, torn, budget>>

\* The stores after a write that failed in transit, perhaps after it took effect.
AfterLostWrite(tuples) ==
    {stores} \union
    IF WriteAnswer(auth.store, tuples) # "written" THEN {}
    ELSE {[stores EXCEPT ![auth.store].tuples = @ \union tuples]}

\* Mutant: the last failure of the grant is only logged.
GrantSwallowed ==
    LET tuples == Tuples(job.doc, outcome[job.doc].tags)
    IN  /\ job.pc = "grant"
        /\ tuples # {}
        /\ stores' \in AfterLostWrite(tuples)
        /\ job' = IF job.attempt < Attempts THEN [job EXCEPT !.attempt = @ + 1] ELSE NoJob
        /\ outcome' = IF job.attempt < Attempts THEN outcome
                      ELSE [outcome EXCEPT ![job.doc].result = "ok",
                                           ![job.doc].store = auth.store]
        /\ UNCHANGED <<indexes, auth, pods, torn, budget>>

\* The grant fails: again, or roll back the indexes.
GrantFails ==
    LET tuples == Tuples(job.doc, outcome[job.doc].tags)
    IN  /\ job.pc = "grant"
        /\ tuples # {}
        /\ stores' \in AfterLostWrite(tuples)
        /\ job' = IF job.attempt < Attempts THEN [job EXCEPT !.attempt = @ + 1]
                  ELSE [job EXCEPT !.pc = "delete_vector", !.granting = TRUE,
                                   !.todo = job.written]
        /\ UNCHANGED <<indexes, outcome, auth, pods, torn, budget>>

\* The process dies, while starting or later, and comes back: nothing is
\* rolled back.
Crash ==
    /\ auth.pc # "list"
    /\ budget.restarts > 0
    /\ budget' = [budget EXCEPT !.restarts = @ - 1]
    /\ auth' = [ready |-> FALSE, pc |-> "list", store |-> 0]
    /\ job' = NoJob
    /\ outcome' = [d \in Docs |-> IF outcome[d].result = "running"
                    THEN [outcome[d] EXCEPT !.result = "crashed"] ELSE outcome[d]]
    /\ UNCHANGED <<indexes, stores, pods, torn>>

-----------------------------------------------------------------------------
(* The OpenFGA store: ingestion's side (ensure at startup) *)

\* The store that a listing shows: the first of that name, or 0.
Listed == IF stores = << >> THEN 0 ELSE 1

AuthList ==
    /\ ~auth.ready /\ auth.pc = "list"
    /\ auth' = [auth EXCEPT !.store = Listed,
                            !.pc = IF Listed = 0 THEN "create" ELSE "seed"]
    /\ UNCHANGED <<indexes, job, outcome, stores, pods, torn, budget>>

AuthCreate ==
    /\ auth.pc = "create"
    /\ Len(stores) < MaxStores
    /\ stores' = Append(stores, NewStore)
    /\ auth' = [auth EXCEPT !.store = Len(stores'), !.pc = "seed"]
    /\ UNCHANGED <<indexes, job, outcome, pods, torn, budget>>

\* The default memberships, tolerated when there is no model yet.
AuthSeed ==
    /\ auth.pc = "seed"
    /\ stores' = IF WriteAnswer(auth.store, {Memberships}) = "written"
                 THEN [stores EXCEPT ![auth.store].tuples = @ \union {Memberships}]
                 ELSE stores
    /\ auth' = [auth EXCEPT !.ready = TRUE, !.pc = "done"]
    /\ UNCHANGED <<indexes, job, outcome, pods, torn, budget>>

-----------------------------------------------------------------------------
(* The OpenFGA store: the query runtime's side (OpenFGAChecker.ensure) *)

PodAt(p, pc) == ~pods[p].ready /\ pods[p].pc = pc

\* A runtime before its first ensure, or after a failed one.
NotReady == [ready |-> FALSE, pc |-> "list", store |-> 0, did |-> "nothing"]

\* ensureStore: GET /stores
ListStores(p) ==
    /\ PodAt(p, "list")
    /\ pods' = [pods EXCEPT ![p].store = Listed,
                            ![p].pc = IF Listed = 0 THEN "create" ELSE "inspect"]
    /\ UNCHANGED <<indexes, job, outcome, stores, auth, torn, budget>>

\* ensureStore: POST /stores
CreateStore(p) ==
    /\ PodAt(p, "create")
    /\ Len(stores) < MaxStores
    /\ stores' = Append(stores, NewStore)
    /\ pods' = [pods EXCEPT ![p].store = Len(stores'), ![p].pc = "model",
                            ![p].did = "created"]
    /\ UNCHANGED <<indexes, job, outcome, auth, torn, budget>>

\* latestModelHasType(ctx, "folder")
HasFolder(store) == stores[store].model = "current"

\* A store that was there: is its model the current one?
InspectModel(p) ==
    /\ PodAt(p, "inspect")
    /\ pods' = IF HasFolder(pods[p].store)
               THEN [pods EXCEPT ![p].ready = TRUE, ![p].pc = "done"]
               ELSE [pods EXCEPT ![p].pc = "model"]
    /\ UNCHANGED <<indexes, job, outcome, stores, auth, torn, budget>>

writeAuthorizationModel(p) ==
    /\ PodAt(p, "model")
    /\ stores' = [stores EXCEPT ![pods[p].store].model = "current"]
    /\ pods' = [pods EXCEPT ![p].pc = "seed",
                            ![p].did = IF @ = "created" THEN @ ELSE "upgraded"]
    /\ UNCHANGED <<indexes, job, outcome, auth, torn, budget>>

\* Mutant: ready, and the memberships are somebody else's business.
seedSkipped(p) ==
    /\ PodAt(p, "seed")
    /\ pods' = [pods EXCEPT ![p].ready = TRUE, ![p].pc = "done"]
    /\ UNCHANGED <<indexes, job, outcome, stores, auth, torn, budget>>

\* The default memberships; "already" is tolerated.
seedDefaultMemberships(p) ==
    /\ PodAt(p, "seed")
    /\ stores' = [stores EXCEPT ![pods[p].store].tuples = @ \union {Memberships}]
    /\ pods' = [pods EXCEPT ![p].ready = TRUE, ![p].pc = "done"]
    /\ UNCHANGED <<indexes, job, outcome, auth, torn, budget>>

\* A request of ensure fails (or the pod restarts): the next query starts over.
EnsureFails(p) ==
    /\ pods[p].pc # "list"
    /\ budget.restarts > 0
    /\ budget' = [budget EXCEPT !.restarts = @ - 1]
    /\ pods' = [pods EXCEPT ![p] = NotReady]
    /\ torn' = IF PodAt(p, "seed") THEN torn \union {pods[p].store} ELSE torn
    /\ UNCHANGED <<indexes, job, outcome, stores, auth>>

-----------------------------------------------------------------------------
Init ==
    /\ vector = {} /\ lexical = {} /\ searchable = {} /\ outdated = {}
    /\ job = NoJob
    /\ outcome = [d \in Docs |-> Fresh]
    /\ stores \in {<< >>, <<[model |-> "old", tuples |-> {Memberships}]>>}
    /\ auth = [ready |-> FALSE, pc |-> "list", store |-> 0]
    /\ pods = [p \in Pods |-> NotReady]
    /\ torn = {}
    /\ budget \in Budgets

Next ==
    \/ IngestFile
    \/ VectorUpsert \/ VectorUpsertFails
    \/ LexicalUpsert \/ LexicalUpsertFails
    \/ DeleteVector \/ DeleteLexical \/ DeleteLexicalMisses \/ DeleteFails
    \/ RolledBack \/ Refresh
    \/ Grant \/ GrantFails
    \/ Crash
    \/ AuthList \/ AuthCreate \/ AuthSeed
    \/ \E p \in Pods : \/ ListStores(p)
                       \/ CreateStore(p)
                       \/ InspectModel(p)
                       \/ writeAuthorizationModel(p)
                       \/ seedDefaultMemberships(p)
                       \/ EnsureFails(p)

Spec == Init /\ [][Next]_vars

-----------------------------------------------------------------------------
(* Properties *)

Steps == {"list", "create", "inspect", "model", "seed", "done"}

TypeOK ==
    /\ vector \subseteq UNION {Chunks(d) : d \in Docs}
    /\ lexical \subseteq UNION {Chunks(d) : d \in Docs}
    /\ outdated \subseteq searchable /\ searchable \ outdated \subseteq lexical
    /\ job = NoJob \/ /\ job.doc \in Docs
                      /\ job.k \in 1..Len(ChunksOf[job.doc])
                      /\ job.attempt \in 1..Attempts
                      /\ Range(job.written) \subseteq Chunks(job.doc)
                      /\ IsPrefix(job.todo, job.written)
    /\ \A k \in DOMAIN stores : stores[k].model \in {"none", "old", "current"}
    /\ auth.pc \in Steps /\ auth.store \in 0..Len(stores)
    /\ \A p \in Pods : pods[p].pc \in Steps /\ pods[p].store \in 0..Len(stores)

\* The dual write: after a successful upload every chunk of the document is in
\* both indexes.  It is not atomic: a failed first upload whose rollback was not
\* itself cut short leaves in Qdrant at most the chunks at which an attempt failed
\* (the writer never remembered those), and in Elasticsearch these and the chunks
\* that no search found yet when the rollback came to delete them; nothing else.
\* The state is well typed throughout.
DualWrite ==
    /\ TypeOK
    /\ \A d \in Docs :
        LET o == outcome[d]
        IN  /\ o.result = "ok" => Chunks(d) \subseteq (vector \intersect lexical)
            /\ o.result = "failed" /\ ~o.replaced /\ ~o.broken =>
                  /\ vector \intersect Chunks(d) \subseteq o.failing
                  /\ lexical \intersect Chunks(d) \subseteq o.failing \union o.missed

\* Documents are granted: every tag of a first upload that succeeded is granted
\* in the store it was written to, whatever replies were lost on the way ("already"
\* can then only be the answer to its own retry), unless the store had no
\* authorization model yet, the one refusal that drops the grants for good.
GrantsLand ==
    \A d \in Docs :
        LET o == outcome[d]
        IN  o.result = "ok" /\ ~o.replaced /\ o.answer # "no authorization model" =>
                Tuples(d, o.tags) \subseteq stores[o.store].tuples

\* A runtime that answers queries has the current model in its store, whoever
\* created the store and however often ensure failed.  Its store is the one that
\* every listing shows first, or one it created itself, having seen none.  If it
\* wrote the model it has the default memberships; if it found the model, it has
\* them unless the runtime that wrote it failed, or still is, between the model and
\* the memberships (ensure seeds only after writing the model).
ReadyStore ==
    \A p \in Pods : pods[p].ready =>
        /\ HasFolder(pods[p].store)
        /\ pods[p].store = 1 \/ pods[p].did = "created"
        /\ \/ Memberships \in stores[pods[p].store].tuples
           \/ /\ pods[p].did = "nothing"
              /\ \/ pods[p].store \in torn
                 \/ \E q \in Pods : PodAt(q, "seed") /\ pods[q].store = pods[p].store
-----------------------------------------------------------------------------
(* The inductive invariant behind the three properties *)

AllChunks == UNION {Chunks(d) : d \in Docs}
Answers == {"none", "written"} \union Tolerated
Ensure == [ready : BOOLEAN, pc : Steps, store : Nat]
PodEnsure == [ready : BOOLEAN, pc : Steps, store : Nat,
              did : {"nothing", "upgraded", "created"}]
Store == [model : {"none", "old", "current"},
          tuples : SUBSET ({Memberships} \union Docs \X Tags)]
Job == [pc : {"vector", "lexical", "grant", "delete_vector", "delete_lexical"},
        doc : Docs, k : Nat, attempt : 1..Attempts, written : Seq(AllChunks),
        todo : Seq(AllChunks), granting : BOOLEAN]
Outcome == [result : {"none", "running", "ok", "failed", "crashed"},
            tags : SUBSET Tags, replaced : BOOLEAN, failing : SUBSET AllChunks,
            missed : SUBSET AllChunks, broken : BOOLEAN, answer : Answers, store : Nat]

Shape ==
    /\ vector \subseteq AllChunks /\ lexical \subseteq AllChunks
    /\ outdated \subseteq searchable /\ searchable \ outdated \subseteq lexical
    /\ job \in Job \union {NoJob}
    /\ outcome \in [Docs -> Outcome]
    /\ stores \in Seq(Store)
    /\ auth \in Ensure
    /\ pods \in [Pods -> PodEnsure]

\* Who runs ensure and who has finished it hold stores that exist: the one that
\* listings show first, or one of their own.
StoresHeld ==
    /\ auth.store <= Len(stores)
    /\ auth.pc \in {"seed", "done"} => auth.store > 0
    /\ auth.ready <=> auth.pc = "done"
    /\ job # NoJob => auth.ready
    /\ \A p \in Pods :
        /\ pods[p].store <= Len(stores)
        /\ pods[p].pc \in {"inspect", "model", "seed", "done"} => pods[p].store > 0
        /\ pods[p].ready <=> pods[p].pc = "done"
        /\ pods[p].pc \in {"seed", "done"} => HasFolder(pods[p].store)
        /\ pods[p].store \in {0, 1} \/ pods[p].did = "created"
        /\ pods[p].pc \in {"list", "inspect"} => pods[p].did = "nothing"
        /\ pods[p].pc = "done" /\ pods[p].did # "nothing" =>
               Memberships \in stores[pods[p].store].tuples

\* A store with the current model has the memberships, or will get them from
\* the runtime that wrote the model, or lost them when that ensure failed.
Seeded ==
    \A s \in 1..Len(stores) : HasFolder(s) =>
        \/ Memberships \in stores[s].tuples
        \/ s \in torn
        \/ \E q \in Pods : PodAt(q, "seed") /\ pods[q].store = s

Deleting == job.pc \in {"delete_vector", "delete_lexical"}

\* What the upload in progress has done so far.
JobInv ==
    job # NoJob =>
        /\ outcome[job.doc].result = "running"
        /\ job.k \in 1..Len(ChunksOf[job.doc])
        /\ Range(job.written) \subseteq Chunks(job.doc)
        /\ IsPrefix(job.todo, job.written)
        /\ job.pc \in {"vector", "lexical"} =>
               \A j \in 1..(job.k - 1) : ChunksOf[job.doc][j] \in vector \intersect lexical
        /\ job.pc = "lexical" => Chunk \in vector
        /\ job.pc = "grant" => Chunks(job.doc) \subseteq vector \intersect lexical
        /\ job.pc = "delete_lexical" => job.todo # << >> /\ Last(job.todo) \notin vector

\* Of d, the indexes hold nothing but these chunks, those at which an attempt
\* failed and, in Elasticsearch, those a rollback missed.
LeftOnly(d, chunks) ==
    LET o == outcome[d]
    IN  /\ vector \intersect Chunks(d) \subseteq o.failing \union chunks
        /\ lexical \intersect Chunks(d) \subseteq o.failing \union o.missed \union chunks

\* The chunks that a rollback of the upload in progress still knows of, or will.
Known ==
    IF Deleting THEN Range(job.todo)
    ELSE Range(job.written) \union (IF job.pc = "lexical" THEN {Chunk} ELSE {})

\* A document never uploaded has left nothing; of a first upload in progress,
\* nothing is left but chunks the rollback knows of, that failed or were missed.
Accounted(d) ==
    /\ outcome[d].result = "none" => (vector \union lexical) \intersect Chunks(d) = {}
    /\ job # NoJob /\ job.doc = d /\ ~outcome[d].replaced /\ ~outcome[d].broken =>
            LeftOnly(d, Known)

\* The grants of d in store s are all or nothing of those of its first upload.
Granted(d, s) ==
    LET o == outcome[d]
        have == {tag \in Tags : <<d, tag>> \in stores[s].tuples}
    IN  /\ o.result = "none" => have = {}
        /\ job # NoJob /\ job.doc = d /\ ~o.replaced /\ have # {} => o.tags \subseteq have

IngestionInv ==
    /\ Shape /\ StoresHeld /\ Seeded /\ JobInv
    /\ \A d \in Docs : /\ Accounted(d)
                       /\ \A s \in 1..Len(stores) : Granted(d, s)
                       /\ outcome[d].result = "ok" => outcome[d].store \in 1..Len(stores)
    /\ DualWrite /\ GrantsLand
=============================================================================
