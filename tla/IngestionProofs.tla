-------------------------- MODULE IngestionProofs ---------------------------
(***************************************************************************)
(* Proofs about Ingestion: its inductive invariant IngestionInv, and with  *)
(* it that the two indexes agree, that grants land and that a ready        *)
(* runtime has a usable store, for every set of documents, chunks, tags    *)
(* and runtimes and every number of attempts and stores.                   *)
(***************************************************************************)
EXTENDS Ingestion, SequenceTheorems, TLAPS

-----------------------------------------------------------------------------
(* Sequences *)

\* A prefix, element by element.
LEMMA PrefixIs ==
    ASSUME NEW S, NEW s \in Seq(S), NEW t \in Seq(S)
    PROVE  IsPrefix(s, t) <=> Len(s) <= Len(t) /\ \A i \in 1..Len(s) : s[i] = t[i]
<1>1. Len(s) \in Nat /\ Len(t) \in Nat
  OBVIOUS
<1>2. SubSeq(s, 1, Len(s)) = s
  BY SubSeqFull
<1>3. ASSUME Len(s) <= Len(t)
      PROVE  /\ SubSeq(t, 1, Len(s)) \in Seq(S) /\ Len(SubSeq(t, 1, Len(s))) = Len(s)
             /\ \A i \in 1..Len(s) : SubSeq(t, 1, Len(s))[i] = t[i]
  BY <1>1, <1>3
<1>4. ASSUME Len(s) <= Len(t), \A i \in 1..Len(s) : s[i] = t[i]
      PROVE  SubSeq(t, 1, Len(s)) = s
  BY <1>1, <1>3, <1>4, SeqEqual
<1>. QED  BY <1>2, <1>3, <1>4 DEF IsPrefix

\* Taking the last element off.
LEMMA FrontLast ==
    ASSUME NEW S, NEW s \in Seq(S), s # << >>
    PROVE  /\ Front(s) \in Seq(S) /\ Last(s) \in S
           /\ Range(s) = Range(Front(s)) \union {Last(s)}
           /\ \A t \in Seq(S) : IsPrefix(s, t) => IsPrefix(Front(s), t)
<1> DEFINE n == Len(s)
           f == Front(s)
<1>1. n \in Nat /\ n # 0 /\ n - 1 \in Nat /\ n - 1 <= n
  BY EmptySeq
<1>2. /\ f \in Seq(S) /\ Len(f) = n - 1 /\ \A i \in 1..(n - 1) : f[i] = s[i]
  <2>1. ASSUME NEW k \in Nat, k <= n
        PROVE  /\ SubSeq(s, 1, k) \in Seq(S) /\ Len(SubSeq(s, 1, k)) = k
               /\ \A i \in 1..k : SubSeq(s, 1, k)[i] = s[i]
    BY <1>1, <2>1
  <2>. QED  BY <1>1, <2>1 DEF Front
<1>3. Last(s) \in S
  BY <1>1, ElementOfSeq DEF Last
<1>4. DOMAIN s = 1..n /\ DOMAIN f = 1..(n - 1)
  BY <1>2, LenProperties
<1>5. \A i \in 1..n : i \in 1..(n - 1) \/ i = n
  BY <1>1
<1>6. \A i \in 1..(n - 1) : i \in 1..n
  BY <1>1
<1>7. n \in 1..n
  BY <1>1
<1>8. Range(s) = Range(f) \union {Last(s)}
  BY <1>2, <1>4, <1>5, <1>6, <1>7 DEF Range, Last
<1>9. ASSUME NEW t \in Seq(S), IsPrefix(s, t) PROVE IsPrefix(f, t)
  <2>1. n <= Len(t) /\ \A i \in 1..n : s[i] = t[i]
    BY <1>9, PrefixIs
  <2>2. n - 1 <= Len(t) /\ \A i \in 1..(n - 1) : f[i] = t[i]
    BY <1>1, <1>2, <1>6, <2>1, LenProperties
  <2>. QED  BY <1>2, <2>2, PrefixIs
<1>. QED  BY <1>2, <1>3, <1>8, <1>9

\* Appending an element.
LEMMA AppendRange ==
    ASSUME NEW S, NEW s \in Seq(S), NEW x \in S
    PROVE  /\ Append(s, x) \in Seq(S)
           /\ Range(Append(s, x)) = Range(s) \union {x}
           /\ \A t \in Seq(S) : IsPrefix(t, s) => IsPrefix(t, Append(s, x))
<1> DEFINE n == Len(s)
           a == Append(s, x)
<1>1. /\ a \in Seq(S) /\ n \in Nat /\ Len(a) = n + 1
      /\ \A i \in 1..n : a[i] = s[i]
      /\ a[n + 1] = x
  BY AppendProperties
<1>2. DOMAIN s = 1..n /\ DOMAIN a = 1..(n + 1)
  BY <1>1, LenProperties
<1>3. \A i \in 1..(n + 1) : i \in 1..n \/ i = n + 1
  BY <1>1
<1>4. (\A i \in 1..n : i \in 1..(n + 1)) /\ n + 1 \in 1..(n + 1)
  BY <1>1
<1>5. Range(a) = Range(s) \union {x}
  BY <1>1, <1>2, <1>3, <1>4 DEF Range
<1>6. ASSUME NEW t \in Seq(S), IsPrefix(t, s) PROVE IsPrefix(t, a)
  <2>1. Len(t) <= n /\ \A i \in 1..Len(t) : t[i] = s[i]
    BY <1>6, PrefixIs
  <2>2. Len(t) \in Nat /\ \A i \in 1..Len(t) : i \in 1..n
    BY <1>1, <2>1, LenProperties
  <2>3. Len(t) <= Len(a) /\ \A i \in 1..Len(t) : t[i] = a[i]
    BY <1>1, <2>1, <2>2
  <2>. QED  BY <1>1, <2>3, PrefixIs
<1>. QED  BY <1>1, <1>5, <1>6

\* The empty sequence.
LEMMA EmptyRange ==
    /\ Range(<< >>) = {}
    /\ \A S : << >> \in Seq(S)
    /\ \A S : \A t \in Seq(S) : IsPrefix(<< >>, t) /\ IsPrefix(t, t)
<1>1. Range(<< >>) = {}
  BY DEF Range
<1>2. \A S : << >> \in Seq(S)
  OBVIOUS
<1>3. ASSUME NEW S, NEW t \in Seq(S) PROVE IsPrefix(<< >>, t) /\ IsPrefix(t, t)
  <2>1. Len(t) \in Nat /\ Len(<< >>) = 0 /\ << >> \in Seq(S)
    OBVIOUS
  <2>2. Len(<< >>) <= Len(t) /\ \A i \in 1..Len(<< >>) : << >>[i] = t[i]
    BY <2>1
  <2>3. Len(t) <= Len(t) /\ \A i \in 1..Len(t) : t[i] = t[i]
    BY <2>1
  <2>4. IsPrefix(<< >>, t)
    BY <2>1, <2>2, PrefixIs
  <2>5. IsPrefix(t, t)
    BY <2>3, PrefixIs
  <2>. QED  BY <2>4, <2>5
<1>. QED  BY <1>1, <1>2, <1>3

-----------------------------------------------------------------------------
(* Stores *)

Tuple == {Memberships} \union Docs \X Tags

Writes(w, z, s, T) == w = [z EXCEPT ![s].tuples = @ \union T]
SetsModel(w, z, s) == w = [z EXCEPT ![s].model = "current"]
Creates(w, z) == w = Append(z, NewStore)

\* Writing tuples to a store.
LEMMA StoreWrite ==
    ASSUME NEW z \in Seq(Store), NEW s \in 1..Len(z), NEW T \in SUBSET Tuple,
           NEW w, Writes(w, z, s, T)
    PROVE  /\ w \in Seq(Store) /\ Len(w) = Len(z)
           /\ \A r \in 1..Len(z) : /\ w[r].model = z[r].model
                                   /\ z[r].tuples \subseteq w[r].tuples
                                   /\ w[r].tuples \subseteq z[r].tuples \union T
                                   /\ r # s => w[r].tuples = z[r].tuples
           /\ w[s].tuples = z[s].tuples \union T
<1> DEFINE e == [z[s] EXCEPT !.tuples = @ \union T]
<1>1. z[s] \in Store
  BY ElementOfSeq
<1>2. e \in Store /\ e.model = z[s].model /\ e.tuples = z[s].tuples \union T
  BY <1>1 DEF Store, Tuple
<1>3. w = [z EXCEPT ![s] = e]
  BY DEF Writes
<1>4. w \in Seq(Store) /\ Len(w) = Len(z)
  BY <1>2, <1>3, ExceptSeq
<1>5. \A r \in 1..Len(z) : w[r] = IF r = s THEN e ELSE z[r]
  BY <1>3, LenProperties
<1> HIDE DEF e
<1>6. \A r \in 1..Len(z) : /\ w[r].model = z[r].model
                           /\ z[r].tuples \subseteq w[r].tuples
                           /\ w[r].tuples \subseteq z[r].tuples \union T
                           /\ r # s => w[r].tuples = z[r].tuples
  BY <1>2, <1>5
<1>7. w[s].tuples = z[s].tuples \union T
  BY <1>2, <1>5
<1>. QED  BY <1>4, <1>6, <1>7

\* Giving a store the current model.
LEMMA ModelWrite ==
    ASSUME NEW z \in Seq(Store), NEW s \in 1..Len(z),
           NEW w, SetsModel(w, z, s)
    PROVE  /\ w \in Seq(Store) /\ Len(w) = Len(z)
           /\ \A r \in 1..Len(z) : /\ w[r].tuples = z[r].tuples
                                   /\ r # s => w[r].model = z[r].model
           /\ w[s].model = "current"
<1> DEFINE e == [z[s] EXCEPT !.model = "current"]
<1>1. z[s] \in Store
  BY ElementOfSeq
<1>2. e \in Store /\ e.model = "current" /\ e.tuples = z[s].tuples
  BY <1>1 DEF Store
<1>3. w = [z EXCEPT ![s] = e]
  BY DEF SetsModel
<1>4. w \in Seq(Store) /\ Len(w) = Len(z)
  BY <1>2, <1>3, ExceptSeq
<1>5. \A r \in 1..Len(z) : w[r] = IF r = s THEN e ELSE z[r]
  BY <1>3, LenProperties
<1> HIDE DEF e
<1>6. \A r \in 1..Len(z) : /\ w[r].tuples = z[r].tuples
                           /\ r # s => w[r].model = z[r].model
  BY <1>2, <1>5
<1>7. w[s].model = "current"
  BY <1>2, <1>5
<1>. QED  BY <1>4, <1>6, <1>7

\* Creating a store.
LEMMA StoreAppend ==
    ASSUME NEW z \in Seq(Store), NEW w, Creates(w, z)
    PROVE  /\ w \in Seq(Store) /\ Len(w) = Len(z) + 1 /\ Len(z) \in Nat
           /\ \A r \in 1..Len(z) : w[r] = z[r]
           /\ w[Len(z) + 1].model = "none" /\ w[Len(z) + 1].tuples = {}
           /\ \A r \in 1..(Len(z) + 1) : r \in 1..Len(z) \/ r = Len(z) + 1
<1>1. NewStore \in Store /\ NewStore.model = "none" /\ NewStore.tuples = {}
  BY DEF NewStore, Store
<1>2. Len(z) \in Nat
  OBVIOUS
<1>. QED  BY <1>1, <1>2, AppendProperties DEF Creates

\* The upload in progress, and its current chunk.
LEMMA JobIs ==
    ASSUME Shape, JobInv, job # NoJob
    PROVE  /\ job \in Job
           /\ Chunk \in Chunks(job.doc) /\ Chunk \in AllChunks
           /\ Chunk = ChunksOf[job.doc][job.k]
<1>1. job \in Job /\ job.doc \in Docs
  BY DEF Shape, Job
<1>2. DOMAIN ChunksOf[job.doc] = 1..Len(ChunksOf[job.doc])
  BY <1>1, IngestionAssumption, LenProperties
<1>3. Chunk \in Chunks(job.doc)
  BY <1>2 DEF JobInv, Chunk, Chunks, Range
<1>. QED  BY <1>1, <1>3 DEF Chunk, AllChunks

\* Who waits for a step of the upload has one in progress.
LEMMA JobThere ==
    ASSUME job.pc \in {"vector", "lexical", "grant", "delete_vector", "delete_lexical"}
    PROVE  job # NoJob
BY DEF NoJob

\* A store that was reached exists.
LEMMA StoreThere ==
    ASSUME Shape, StoresHeld
    PROVE  /\ auth.pc \in {"seed", "done"} \/ job # NoJob => auth.store \in 1..Len(stores)
           /\ \A p \in Pods : pods[p].pc \in {"inspect", "model", "seed", "done"} =>
                  pods[p].store \in 1..Len(stores)
<1>1. Len(stores) \in Nat
  BY DEF Shape
<1>. QED  BY <1>1 DEF Shape, StoresHeld, Ensure, PodEnsure

\* The tuples of a grant.
LEMMA GrantTuples ==
    ASSUME Shape, JobInv, job # NoJob
    PROVE  Tuples(job.doc, outcome[job.doc].tags) \in SUBSET Tuple
<1>1. job.doc \in Docs
  BY JobIs DEF Job
<1>2. outcome[job.doc].tags \subseteq Tags
  BY <1>1 DEF Shape, Outcome
<1>. QED  BY <1>1, <1>2 DEF Tuples, Tuple

-----------------------------------------------------------------------------
(* What the steps of an upload do, field by field *)

JobSteps == {"vector", "lexical", "grant", "delete_vector", "delete_lexical"}

\* The upload goes on, at step pc.
JobNow(pc, k, written, todo) ==
    /\ job' \in Job /\ job'.doc = job.doc /\ job'.pc = pc
    /\ job'.k = k /\ job'.written = written /\ job'.todo = todo

\* The outcome of d, and of nothing else, is now o.
OutcomeNow(d, o) ==
    /\ outcome' \in [Docs -> Outcome]
    /\ outcome'[d] = o
    /\ \A c \in Docs : c # d => outcome'[c] = outcome[c]

\* Changing fields of the outcome of one document.
LEMMA OutcomeChange ==
    ASSUME outcome \in [Docs -> Outcome], NEW d \in Docs, NEW x \in AllChunks,
           NEW a \in Answers, NEW s \in Nat
    PROVE  LET o == outcome[d]
           IN  /\ outcome' = [outcome EXCEPT ![d].failing = @ \union {x}] =>
                      OutcomeNow(d, [o EXCEPT !.failing = @ \union {x}])
               /\ outcome' = [outcome EXCEPT ![d].missed = @ \union {x}] =>
                      OutcomeNow(d, [o EXCEPT !.missed = @ \union {x}])
               /\ outcome' = [outcome EXCEPT ![d].result = "failed"] =>
                      OutcomeNow(d, [o EXCEPT !.result = "failed"])
               /\ outcome' = [outcome EXCEPT ![d].broken = TRUE] =>
                      OutcomeNow(d, [o EXCEPT !.broken = TRUE])
               /\ outcome' = [outcome EXCEPT ![d].result = "failed", ![d].broken = TRUE] =>
                      OutcomeNow(d, [o EXCEPT !.result = "failed", !.broken = TRUE])
               /\ outcome' = [outcome EXCEPT ![d].result = "ok", ![d].answer = a,
                                             ![d].store = s] =>
                      OutcomeNow(d, [o EXCEPT !.result = "ok", !.answer = a, !.store = s])
<1> DEFINE o == outcome[d]
<1>1. o \in Outcome
  OBVIOUS
<1>2. /\ [o EXCEPT !.failing = @ \union {x}] \in Outcome
      /\ [o EXCEPT !.missed = @ \union {x}] \in Outcome
      /\ [o EXCEPT !.result = "failed"] \in Outcome
      /\ [o EXCEPT !.broken = TRUE] \in Outcome
      /\ [o EXCEPT !.result = "failed", !.broken = TRUE] \in Outcome
      /\ [o EXCEPT !.result = "ok", !.answer = a, !.store = s] \in Outcome
  BY <1>1 DEF Outcome
<1>3. ASSUME NEW n \in Outcome, outcome' = [outcome EXCEPT ![d] = n]
      PROVE  OutcomeNow(d, n)
  BY <1>3 DEF OutcomeNow
<1>4. [outcome EXCEPT ![d].result = "failed", ![d].broken = TRUE] =
      [outcome EXCEPT ![d] = [o EXCEPT !.result = "failed", !.broken = TRUE]]
  OBVIOUS
<1>5. [outcome EXCEPT ![d].result = "ok", ![d].answer = a, ![d].store = s] =
      [outcome EXCEPT ![d] = [o EXCEPT !.result = "ok", !.answer = a, !.store = s]]
  OBVIOUS
<1>. QED  BY <1>2, <1>3, <1>4, <1>5

\* The upload in progress, typed.
LEMMA Uploading ==
    ASSUME Shape, StoresHeld, JobInv, job.pc \in JobSteps
    PROVE  /\ job # NoJob /\ job \in Job /\ job.doc \in Docs
           /\ job.attempt \in 1..Attempts
           /\ job.k \in Nat /\ job.written \in Seq(AllChunks) /\ job.todo \in Seq(AllChunks)
           /\ Chunk \in AllChunks /\ Chunk \in Chunks(job.doc)
           /\ outcome \in [Docs -> Outcome] /\ outcome[job.doc] \in Outcome
           /\ outcome[job.doc].result = "running"
           /\ auth.store \in 1..Len(stores)
<1>1. job # NoJob
  BY JobThere DEF JobSteps
<1>2. job \in Job /\ Chunk \in AllChunks /\ Chunk \in Chunks(job.doc)
  BY <1>1, JobIs
<1>3. /\ job.doc \in Docs /\ job.attempt \in 1..Attempts
      /\ job.k \in Nat /\ job.written \in Seq(AllChunks) /\ job.todo \in Seq(AllChunks)
  BY <1>2 DEF Job
<1>4. outcome \in [Docs -> Outcome] /\ outcome[job.doc] \in Outcome
  BY <1>3 DEF Shape
<1>5. outcome[job.doc].result = "running" /\ auth.store \in 1..Len(stores)
  BY <1>1, StoreThere DEF JobInv
<1>. QED  BY <1>1, <1>2, <1>3, <1>4, <1>5

\* ingest_file starts an upload.
LEMMA IngestFileDoes ==
    ASSUME Shape, IngestFile
    PROVE  \E d \in Docs, tags \in SUBSET Tags :
               /\ job = NoJob /\ job' \in Job /\ job'.doc = d /\ job'.pc = "vector"
               /\ job'.k = 1 /\ job'.written = << >> /\ job'.todo = << >>
               /\ OutcomeNow(d, [Fresh EXCEPT !.result = "running", !.tags = tags,
                                    !.replaced = outcome[d].result # "none"])
               /\ outcome'[d].result = "running"
               /\ outcome'[d].replaced = (outcome[d].result # "none")
               /\ auth.ready
<1>1. PICK d \in Docs, tags \in SUBSET Tags :
          /\ job' = [pc |-> "vector", doc |-> d, k |-> 1, attempt |-> 1,
                     written |-> << >>, todo |-> << >>, granting |-> FALSE]
          /\ outcome' = [outcome EXCEPT ![d] =
                [Fresh EXCEPT !.result = "running", !.tags = tags,
                              !.replaced = outcome[d].result # "none"]]
  BY DEF IngestFile
<1>2. 1 \in 1..Attempts /\ << >> \in Seq(AllChunks)
  BY IngestionAssumption
<1>3. /\ job' \in Job /\ job'.doc = d /\ job'.pc = "vector"
      /\ job'.k = 1 /\ job'.written = << >> /\ job'.todo = << >>
  BY <1>1, <1>2 DEF Job
<1>4. [Fresh EXCEPT !.result = "running", !.tags = tags,
                    !.replaced = outcome[d].result # "none"] \in Outcome
  BY DEF Fresh, Outcome, Answers
<1>5. OutcomeNow(d, [Fresh EXCEPT !.result = "running", !.tags = tags,
                                  !.replaced = outcome[d].result # "none"])
  BY <1>1, <1>4 DEF OutcomeNow, Shape
<1>6. ASSUME NEW b \in BOOLEAN
      PROVE  LET n == [Fresh EXCEPT !.result = "running", !.tags = tags, !.replaced = b]
             IN  n.result = "running" /\ n.replaced = b
  BY DEF Fresh
<1>7. outcome'[d].result = "running" /\ outcome'[d].replaced = (outcome[d].result # "none")
  BY <1>5, <1>6 DEF OutcomeNow
<1>. QED  BY <1>3, <1>5, <1>7 DEF IngestFile

\* An upsert succeeds: on to Elasticsearch, the next chunk or the grant.
LEMMA UpsertDoes ==
    ASSUME Shape, StoresHeld, JobInv, VectorUpsert \/ LexicalUpsert
    PROVE  /\ VectorUpsert => JobNow("lexical", job.k, job.written, job.todo)
           /\ LexicalUpsert =>
                  IF job.k < Len(ChunksOf[job.doc])
                  THEN JobNow("vector", job.k + 1, Append(job.written, Chunk), job.todo)
                  ELSE JobNow("grant", job.k, Append(job.written, Chunk), job.todo)
<1>1. /\ job \in Job /\ job.k \in Nat /\ job.written \in Seq(AllChunks) /\ Chunk \in AllChunks
  BY Uploading DEF VectorUpsert, LexicalUpsert, JobSteps
<1>2. 1 \in 1..Attempts /\ job.k + 1 \in Nat /\ Written \in Seq(AllChunks)
  BY <1>1, IngestionAssumption, AppendProperties DEF Written
<1>3. ASSUME VectorUpsert PROVE JobNow("lexical", job.k, job.written, job.todo)
  BY <1>1, <1>3 DEF VectorUpsert, JobNow, Job
<1>4. ASSUME LexicalUpsert, job.k < Len(ChunksOf[job.doc])
      PROVE  JobNow("vector", job.k + 1, Written, job.todo)
  <2>1. job' = [job EXCEPT !.pc = "vector", !.k = job.k + 1, !.written = Written]
    BY <1>1, <1>4 DEF LexicalUpsert
  <2>. QED  BY <1>1, <1>2, <2>1 DEF JobNow, Job
<1>5. ASSUME LexicalUpsert, ~(job.k < Len(ChunksOf[job.doc]))
      PROVE  JobNow("grant", job.k, Written, job.todo)
  <2>1. job' = [job EXCEPT !.pc = "grant", !.attempt = 1, !.written = Written]
    BY <1>5 DEF LexicalUpsert
  <2>. QED  BY <1>1, <1>2, <2>1 DEF JobNow, Job
<1>. QED  BY <1>3, <1>4, <1>5 DEF Written

\* An upsert fails: the chunk is noted, and the rollback starts.
LEMMA UpsertFailsDoes ==
    ASSUME Shape, StoresHeld, JobInv, job.pc \in JobSteps, RollBackWrite
    PROVE  /\ JobNow("delete_vector", job.k, job.written, job.written)
           /\ OutcomeNow(job.doc, [outcome[job.doc] EXCEPT !.failing = @ \union {Chunk}])
<1>1. /\ job \in Job /\ job.doc \in Docs /\ job.written \in Seq(AllChunks)
      /\ Chunk \in AllChunks /\ outcome \in [Docs -> Outcome]
  BY Uploading
<1>2. JobNow("delete_vector", job.k, job.written, job.written)
  BY <1>1 DEF RollBackWrite, JobNow, Job
<1>3. outcome' = [outcome EXCEPT ![job.doc].failing = @ \union {Chunk}]
  BY DEF RollBackWrite
<1>4. "none" \in Answers /\ 0 \in Nat
  BY DEF Answers
<1>. QED  BY <1>1, <1>2, <1>3, <1>4, OutcomeChange

\* The steps of a rollback.
LEMMA DeleteDoes ==
    ASSUME Shape, StoresHeld, JobInv, DeleteVector \/ DeleteLexical \/ DeleteLexicalMisses
    PROVE  /\ job.todo # << >>
           /\ DeleteVector => JobNow("delete_lexical", job.k, job.written, job.todo)
           /\ DeleteLexical \/ DeleteLexicalMisses =>
                  JobNow("delete_vector", job.k, job.written, Front(job.todo))
           /\ DeleteLexicalMisses =>
                  OutcomeNow(job.doc,
                             [outcome[job.doc] EXCEPT !.missed = @ \union {Last(job.todo)}])
<1>1. /\ job # NoJob /\ job \in Job /\ job.doc \in Docs /\ job.todo \in Seq(AllChunks)
      /\ outcome \in [Docs -> Outcome]
  BY Uploading DEF DeleteVector, DeleteLexical, DeleteLexicalMisses, JobSteps
<1>2. job.todo # << >>
  BY <1>1 DEF DeleteVector, DeleteLexical, DeleteLexicalMisses, JobInv
<1>3. Front(job.todo) \in Seq(AllChunks) /\ Last(job.todo) \in AllChunks
  BY <1>1, <1>2, FrontLast
<1>4. ASSUME DeleteVector PROVE JobNow("delete_lexical", job.k, job.written, job.todo)
  BY <1>1, <1>4 DEF DeleteVector, JobNow, Job
<1>5. ASSUME Deleted PROVE JobNow("delete_vector", job.k, job.written, Front(job.todo))
  BY <1>1, <1>3, <1>5 DEF Deleted, JobNow, Job
<1>6. ASSUME DeleteLexicalMisses
      PROVE  OutcomeNow(job.doc,
                        [outcome[job.doc] EXCEPT !.missed = @ \union {Last(job.todo)}])
  <2>1. outcome' = [outcome EXCEPT ![job.doc].missed = @ \union {Last(job.todo)}]
    BY <1>6 DEF DeleteLexicalMisses
  <2>2. "none" \in Answers /\ 0 \in Nat
    BY DEF Answers
  <2>. QED  BY <1>1, <1>3, <2>1, <2>2, OutcomeChange
<1>. QED  BY <1>2, <1>4, <1>5, <1>6 DEF DeleteLexical, DeleteLexicalMisses

\* A rollback that fails ends the attempt or the upload, and leaves it broken.
LEMMA DeleteFailsDoes ==
    ASSUME Shape, StoresHeld, JobInv, DeleteFails
    PROVE  \/ /\ job' = NoJob
              /\ OutcomeNow(job.doc, [outcome[job.doc] EXCEPT !.result = "failed",
                                                              !.broken = TRUE])
           \/ /\ JobNow("vector", 1, job.written, job.todo)
              /\ OutcomeNow(job.doc, [outcome[job.doc] EXCEPT !.broken = TRUE])
<1>1. /\ job \in Job /\ job.doc \in Docs /\ job.attempt \in 1..Attempts
      /\ Chunk \in AllChunks /\ outcome \in [Docs -> Outcome]
  BY Uploading DEF DeleteFails, JobSteps
<1>2. "none" \in Answers /\ 0 \in Nat
  BY DEF Answers
<1>3. CASE job.granting \/ job.attempt = Attempts
  <2>1. outcome' = [outcome EXCEPT ![job.doc].result = "failed", ![job.doc].broken = TRUE]
    BY <1>3 DEF DeleteFails
  <2>2. job' = NoJob
    BY <1>3 DEF DeleteFails
  <2>. QED  BY <1>1, <1>2, <2>1, <2>2, OutcomeChange
<1>4. CASE ~(job.granting \/ job.attempt = Attempts)
  <2>1. outcome' = [outcome EXCEPT ![job.doc].broken = TRUE]
    BY <1>4 DEF DeleteFails
  <2>2. job' = [job EXCEPT !.pc = "vector", !.k = 1, !.attempt = job.attempt + 1]
    BY <1>4 DEF DeleteFails
  <2>3. job.attempt + 1 \in 1..Attempts
    BY <1>1, <1>4, IngestionAssumption
  <2>4. JobNow("vector", 1, job.written, job.todo)
    BY <1>1, <2>2, <2>3 DEF JobNow, Job
  <2>. QED  BY <1>1, <1>2, <2>1, <2>4, OutcomeChange
<1>. QED  BY <1>3, <1>4

\* The end of a rollback ends the attempt or the upload.
LEMMA RolledBackDoes ==
    ASSUME Shape, StoresHeld, JobInv, RolledBack
    PROVE  \/ /\ job' = NoJob
              /\ OutcomeNow(job.doc, [outcome[job.doc] EXCEPT !.result = "failed"])
           \/ JobNow("vector", 1, << >>, << >>) /\ outcome' = outcome
<1>1. /\ job \in Job /\ job.doc \in Docs /\ job.attempt \in 1..Attempts
      /\ Chunk \in AllChunks /\ outcome \in [Docs -> Outcome] /\ job.todo = << >>
  BY Uploading DEF RolledBack, JobSteps
<1>2. "none" \in Answers /\ 0 \in Nat
  BY DEF Answers
<1>3. CASE job.granting \/ ~(job.attempt < Attempts)
  <2>1. outcome' = [outcome EXCEPT ![job.doc].result = "failed"]
    BY <1>3 DEF RolledBack, Retried
  <2>2. job' = NoJob
    BY <1>3 DEF RolledBack, Retried
  <2>. QED  BY <1>1, <1>2, <2>1, <2>2, OutcomeChange
<1>4. CASE ~job.granting /\ job.attempt < Attempts
  <2>1. job' = [job EXCEPT !.pc = "vector", !.k = 1, !.attempt = job.attempt + 1,
                           !.written = << >>]
    BY <1>4 DEF RolledBack, Retried
  <2>2. job.attempt + 1 \in 1..Attempts /\ << >> \in Seq(AllChunks)
    BY <1>1, <1>4, IngestionAssumption
  <2>3. JobNow("vector", 1, << >>, << >>)
    BY <1>1, <2>1, <2>2 DEF JobNow, Job
  <2>. QED  BY <1>4, <2>3 DEF RolledBack, Retried
<1>. QED  BY <1>3, <1>4

\* The stores after a write of T by the authorizer: all of T went in, or nothing.
Wrote(T) ==
    /\ stores' \in Seq(Store) /\ Len(stores') = Len(stores)
    /\ \A r \in 1..Len(stores) : /\ stores'[r].model = stores[r].model
                                 /\ stores[r].tuples \subseteq stores'[r].tuples
                                 /\ stores'[r].tuples \subseteq stores[r].tuples \union T
                                 /\ r # auth.store => stores'[r].tuples = stores[r].tuples
    /\ \/ stores'[auth.store].tuples = stores[auth.store].tuples
       \/ T \subseteq stores'[auth.store].tuples

\* A write that is answered, or lost with or without effect.
LEMMA WriteDoes ==
    ASSUME stores \in Seq(Store), auth.store \in 1..Len(stores), NEW T \in SUBSET Tuple,
           stores' = stores \/ Writes(stores', stores, auth.store, T)
    PROVE  Wrote(T)
<1>1. CASE stores' = stores
  BY <1>1 DEF Wrote
<1>2. CASE Writes(stores', stores, auth.store, T)
  <2>1. /\ stores' \in Seq(Store) /\ Len(stores') = Len(stores)
        /\ \A r \in 1..Len(stores) :
               /\ stores'[r].model = stores[r].model
               /\ stores[r].tuples \subseteq stores'[r].tuples
               /\ stores'[r].tuples \subseteq stores[r].tuples \union T
               /\ r # auth.store => stores'[r].tuples = stores[r].tuples
        /\ stores'[auth.store].tuples = stores[auth.store].tuples \union T
    BY <1>2, StoreWrite
  <2>2. T \subseteq stores'[auth.store].tuples
    BY <2>1
  <2>. QED  BY <2>1, <2>2 DEF Wrote
<1>. QED  BY <1>1, <1>2

\* grant_document ends well.
LEMMA GrantDoes ==
    ASSUME Shape, StoresHeld, JobInv, Grant
    PROVE  LET T == Tuples(job.doc, outcome[job.doc].tags)
           IN  /\ job' = NoJob /\ Wrote(T)
               /\ \E a \in Answers :
                      /\ OutcomeNow(job.doc, [outcome[job.doc] EXCEPT !.result = "ok",
                                                 !.answer = a, !.store = auth.store])
                      /\ a = "written" => T \subseteq stores'[auth.store].tuples
                      /\ a = "already" => T \intersect stores[auth.store].tuples # {}
                      /\ a # "none"
<1> DEFINE T == Tuples(job.doc, outcome[job.doc].tags)
           a == IF T = {} THEN "written" ELSE WriteAnswer(auth.store, T)
<1>1. /\ job # NoJob /\ job.doc \in Docs /\ outcome \in [Docs -> Outcome] /\ Chunk \in AllChunks
      /\ auth.store \in 1..Len(stores)
  BY Uploading DEF Grant, JobSteps
<1>2. T \in SUBSET Tuple
  BY <1>1, GrantTuples
<1>3. stores \in Seq(Store) /\ auth.store \in Nat
  BY DEF Shape, Ensure
<1>4. /\ a = "written" \/ a \in Tolerated
      /\ stores' = IF a = "written"
                   THEN [stores EXCEPT ![auth.store].tuples = @ \union T] ELSE stores
      /\ outcome' = [outcome EXCEPT ![job.doc].result = "ok", ![job.doc].answer = a,
                                    ![job.doc].store = auth.store]
      /\ job' = NoJob
  BY DEF Grant
<1>5. a \in Answers /\ a # "none"
  BY <1>4 DEF Answers, Tolerated
<1>6. Wrote(T)
  <2>1. stores' = stores \/ Writes(stores', stores, auth.store, T)
    BY <1>4 DEF Writes
  <2> HIDE DEF a, T
  <2>. QED  BY <1>1, <1>2, <1>3, <2>1, WriteDoes
<1>7. a = "already" => T \intersect stores[auth.store].tuples # {}
  BY DEF WriteAnswer
<1>8. a = "written" => T \subseteq stores'[auth.store].tuples
  <2>1. a = "written" => Writes(stores', stores, auth.store, T)
    BY <1>4 DEF Writes
  <2> HIDE DEF a, T
  <2>2. a = "written" => stores'[auth.store].tuples = stores[auth.store].tuples \union T
    BY <1>1, <1>2, <1>3, <2>1, StoreWrite
  <2>. QED  BY <2>2
<1> HIDE DEF a, T
<1>9. OutcomeNow(job.doc, [outcome[job.doc] EXCEPT !.result = "ok",
                              !.answer = a, !.store = auth.store])
  BY <1>1, <1>3, <1>4, <1>5, OutcomeChange
<1>10. \E b \in Answers :
           /\ OutcomeNow(job.doc, [outcome[job.doc] EXCEPT !.result = "ok",
                                      !.answer = b, !.store = auth.store])
           /\ b = "written" => T \subseteq stores'[auth.store].tuples
           /\ b = "already" => T \intersect stores[auth.store].tuples # {}
           /\ b # "none"
  BY <1>5, <1>7, <1>8, <1>9
<1>. QED  BY <1>4, <1>6, <1>10 DEF T

\* grant_document fails: again, or the rollback starts.
LEMMA GrantFailsDoes ==
    ASSUME Shape, StoresHeld, JobInv, GrantFails
    PROVE  /\ Wrote(Tuples(job.doc, outcome[job.doc].tags))
           /\ \/ JobNow("grant", job.k, job.written, job.todo)
              \/ JobNow("delete_vector", job.k, job.written, job.written)
<1> DEFINE T == Tuples(job.doc, outcome[job.doc].tags)
<1>1. /\ job # NoJob /\ job \in Job /\ job.attempt \in 1..Attempts
      /\ job.written \in Seq(AllChunks) /\ auth.store \in 1..Len(stores) /\ job.pc = "grant"
  BY Uploading DEF GrantFails, JobSteps
<1>2. T \in SUBSET Tuple /\ stores \in Seq(Store)
  BY <1>1, GrantTuples DEF Shape
<1>3. stores' = stores \/ Writes(stores', stores, auth.store, T)
  BY DEF GrantFails, AfterLostWrite, Writes
<1>4. Wrote(T)
  <2> HIDE DEF T
  <2>. QED  BY <1>1, <1>2, <1>3, WriteDoes
<1>5. CASE job.attempt < Attempts
  <2>1. job' = [job EXCEPT !.attempt = job.attempt + 1]
    BY <1>5 DEF GrantFails
  <2>2. job.attempt + 1 \in 1..Attempts
    BY <1>1, <1>5, IngestionAssumption
  <2>3. JobNow("grant", job.k, job.written, job.todo)
    BY <1>1, <2>1, <2>2 DEF JobNow, Job
  <2>. QED  BY <1>4, <2>3
<1>6. CASE ~(job.attempt < Attempts)
  <2>1. job' = [job EXCEPT !.pc = "delete_vector", !.granting = TRUE, !.todo = job.written]
    BY <1>6 DEF GrantFails
  <2>2. JobNow("delete_vector", job.k, job.written, job.written)
    BY <1>1, <2>1 DEF JobNow, Job
  <2>. QED  BY <1>4, <2>2
<1>. QED  BY <1>5, <1>6

-----------------------------------------------------------------------------
(* What the steps of ensure do *)

\* The authorizer, or runtime p and no other, is now at this point of ensure.
AuthNow(ready, pc, store) ==
    auth' \in Ensure /\ auth'.ready = ready /\ auth'.pc = pc /\ auth'.store = store

PodNow(p, ready, pc, store, did) ==
    /\ pods' \in [Pods -> PodEnsure]
    /\ pods'[p].ready = ready /\ pods'[p].pc = pc /\ pods'[p].store = store
    /\ pods'[p].did = did
    /\ \A q \in Pods : q # p => pods'[q] = pods[q]

\* The stores grew, by default memberships, models and empty stores only.
Grew ==
    /\ stores' \in Seq(Store) /\ Len(stores) <= Len(stores')
    /\ \A r \in 1..Len(stores) :
           /\ r \in 1..Len(stores')
           /\ stores[r].tuples \subseteq stores'[r].tuples
           /\ stores'[r].tuples \subseteq stores[r].tuples \union {Memberships}
           /\ stores[r].model = "current" => stores'[r].model = "current"
    /\ \A r \in 1..Len(stores') :
           r \in 1..Len(stores) \/ (stores'[r].tuples = {} /\ stores'[r].model = "none")

\* Nothing happened to the stores.
LEMMA GrewNothing ==
    ASSUME Shape, stores' = stores
    PROVE  Grew
<1>1. stores \in Seq(Store) /\ Len(stores) \in Nat
  BY DEF Shape
<1>. QED  BY <1>1 DEF Grew

\* The memberships were written.
LEMMA GrewSeed ==
    ASSUME Shape, NEW s \in 1..Len(stores), Writes(stores', stores, s, {Memberships})
    PROVE  Grew /\ Memberships \in stores'[s].tuples /\ Len(stores') = Len(stores)
           /\ \A r \in 1..Len(stores) : stores'[r].model = stores[r].model
<1>1. stores \in Seq(Store) /\ Len(stores) \in Nat
  BY DEF Shape
<1>2. {Memberships} \in SUBSET Tuple
  BY DEF Tuple
<1>3. /\ stores' \in Seq(Store) /\ Len(stores') = Len(stores)
      /\ \A r \in 1..Len(stores) :
             /\ stores'[r].model = stores[r].model
             /\ stores[r].tuples \subseteq stores'[r].tuples
             /\ stores'[r].tuples \subseteq stores[r].tuples \union {Memberships}
      /\ stores'[s].tuples = stores[s].tuples \union {Memberships}
  <2> DEFINE M == {Memberships}
  <2>1. M \in SUBSET Tuple /\ Writes(stores', stores, s, M)
    BY <1>2
  <2> HIDE DEF M
  <2>2. /\ stores' \in Seq(Store) /\ Len(stores') = Len(stores)
        /\ \A r \in 1..Len(stores) : /\ stores'[r].model = stores[r].model
                                     /\ stores[r].tuples \subseteq stores'[r].tuples
                                     /\ stores'[r].tuples \subseteq stores[r].tuples \union M
                                     /\ r # s => stores'[r].tuples = stores[r].tuples
        /\ stores'[s].tuples = stores[s].tuples \union M
    BY <1>1, <2>1, StoreWrite
  <2>. QED  BY <2>2 DEF M
<1>4. Memberships \in stores'[s].tuples
  BY <1>3
<1>. QED  BY <1>1, <1>3, <1>4 DEF Grew

\* A model was written.
LEMMA GrewModel ==
    ASSUME Shape, NEW s \in 1..Len(stores), SetsModel(stores', stores, s)
    PROVE  Grew /\ Len(stores') = Len(stores) /\ stores'[s].model = "current"
           /\ \A r \in 1..Len(stores) : /\ stores'[r].tuples = stores[r].tuples
                                        /\ r # s => stores'[r].model = stores[r].model
<1>1. stores \in Seq(Store) /\ Len(stores) \in Nat
  BY DEF Shape
<1>2. /\ stores' \in Seq(Store) /\ Len(stores') = Len(stores)
      /\ \A r \in 1..Len(stores) : /\ stores'[r].tuples = stores[r].tuples
                                   /\ r # s => stores'[r].model = stores[r].model
      /\ stores'[s].model = "current"
  BY <1>1, ModelWrite
<1>3. \A r \in 1..Len(stores) : stores[r].model = "current" => stores'[r].model = "current"
  BY <1>2
<1>. QED  BY <1>1, <1>2, <1>3 DEF Grew

\* A store was created.
LEMMA GrewStore ==
    ASSUME Shape, Creates(stores', stores)
    PROVE  /\ Grew /\ Len(stores) \in Nat /\ Len(stores') = Len(stores) + 1
           /\ \A r \in 1..Len(stores) : stores'[r] = stores[r]
           /\ \A r \in 1..Len(stores') : r \in 1..Len(stores) \/ r = Len(stores) + 1
           /\ stores'[Len(stores) + 1].model = "none"
<1>1. stores \in Seq(Store)
  BY DEF Shape
<1>2. /\ stores' \in Seq(Store) /\ Len(stores') = Len(stores) + 1 /\ Len(stores) \in Nat
      /\ \A r \in 1..Len(stores) : stores'[r] = stores[r]
      /\ stores'[Len(stores) + 1].model = "none" /\ stores'[Len(stores) + 1].tuples = {}
      /\ \A r \in 1..(Len(stores) + 1) : r \in 1..Len(stores) \/ r = Len(stores) + 1
  BY <1>1, StoreAppend
<1>3. \A r \in 1..Len(stores') : r \in 1..Len(stores) \/ r = Len(stores) + 1
  BY <1>2
<1>4. Len(stores) <= Len(stores') /\ \A r \in 1..Len(stores) : r \in 1..Len(stores')
  BY <1>2
<1>. QED  BY <1>2, <1>3, <1>4 DEF Grew

\* The authorizer's steps.
LEMMA AuthDoes ==
    ASSUME Shape, StoresHeld
    PROVE  /\ AuthList => /\ AuthNow(FALSE, IF Listed = 0 THEN "create" ELSE "seed", Listed)
                          /\ Listed \in Nat /\ Listed <= Len(stores)
           /\ AuthCreate => /\ AuthNow(FALSE, "seed", Len(stores) + 1)
                            /\ Creates(stores', stores)
           /\ AuthSeed => /\ AuthNow(TRUE, "done", auth.store)
                          /\ auth.store \in 1..Len(stores)
                          /\ \/ stores' = stores
                             \/ Writes(stores', stores, auth.store, {Memberships})
<1>1. auth \in Ensure /\ stores \in Seq(Store) /\ Len(stores) \in Nat
  BY DEF Shape
<1>2. Listed \in Nat /\ Listed <= Len(stores)
  BY <1>1, EmptySeq DEF Listed
<1>3. ASSUME AuthList
      PROVE  AuthNow(FALSE, IF Listed = 0 THEN "create" ELSE "seed", Listed)
  BY <1>1, <1>2, <1>3 DEF AuthList, AuthNow, Ensure, Steps
<1>4. ASSUME AuthCreate
      PROVE  AuthNow(FALSE, "seed", Len(stores) + 1) /\ Creates(stores', stores)
  <2>1. Creates(stores', stores)
    BY <1>4 DEF AuthCreate, Creates
  <2>2. Len(stores') = Len(stores) + 1
    BY <2>1, GrewStore
  <2>3. auth.ready = FALSE
    BY <1>1, <1>4 DEF AuthCreate, StoresHeld, Ensure
  <2>4. auth' = [auth EXCEPT !.store = Len(stores) + 1, !.pc = "seed"]
    BY <1>4, <2>2 DEF AuthCreate
  <2>5. Len(stores) + 1 \in Nat
    BY <1>1
  <2>6. ASSUME NEW n \in Nat, auth' = [auth EXCEPT !.store = n, !.pc = "seed"]
        PROVE  AuthNow(FALSE, "seed", n)
    BY <1>1, <2>3, <2>6 DEF AuthNow, Ensure, Steps
  <2>. QED  BY <2>1, <2>4, <2>5, <2>6
<1>5. ASSUME AuthSeed
      PROVE  /\ AuthNow(TRUE, "done", auth.store) /\ auth.store \in 1..Len(stores)
             /\ stores' = stores \/ Writes(stores', stores, auth.store, {Memberships})
  <2>1. AuthNow(TRUE, "done", auth.store)
    BY <1>1, <1>5 DEF AuthSeed, AuthNow, Ensure, Steps
  <2>2. auth.store \in 1..Len(stores)
    BY <1>5, StoreThere DEF AuthSeed
  <2>. QED  BY <1>5, <2>1, <2>2 DEF AuthSeed, Writes
<1>. QED  BY <1>2, <1>3, <1>4, <1>5

\* A runtime's steps.
LEMMA PodDoes ==
    ASSUME Shape, StoresHeld, NEW p \in Pods
    PROVE  /\ ListStores(p) =>
                  /\ PodNow(p, FALSE, IF Listed = 0 THEN "create" ELSE "inspect", Listed,
                            pods[p].did)
                  /\ Listed \in {0, 1} /\ Listed <= Len(stores)
           /\ CreateStore(p) => /\ PodNow(p, FALSE, "model", Len(stores) + 1, "created")
                                /\ Creates(stores', stores)
           /\ InspectModel(p) =>
                  IF HasFolder(pods[p].store)
                  THEN PodNow(p, TRUE, "done", pods[p].store, pods[p].did)
                  ELSE PodNow(p, FALSE, "model", pods[p].store, pods[p].did)
           /\ writeAuthorizationModel(p) =>
                  /\ PodNow(p, FALSE, "seed", pods[p].store,
                            IF pods[p].did = "created" THEN "created" ELSE "upgraded")
                  /\ SetsModel(stores', stores, pods[p].store)
           /\ seedDefaultMemberships(p) =>
                  /\ PodNow(p, TRUE, "done", pods[p].store, pods[p].did)
                  /\ Writes(stores', stores, pods[p].store, {Memberships})
           /\ EnsureFails(p) => PodNow(p, FALSE, "list", 0, "nothing")
<1>1. /\ pods \in [Pods -> PodEnsure] /\ pods[p] \in PodEnsure
      /\ stores \in Seq(Store) /\ Len(stores) \in Nat
  BY DEF Shape
<1>2. Listed \in {0, 1} /\ Listed \in Nat /\ Listed <= Len(stores)
  BY <1>1, EmptySeq DEF Listed
<1>3. /\ pods[p].ready \in BOOLEAN /\ pods[p].pc \in Steps /\ pods[p].store \in Nat
      /\ pods[p].did \in {"nothing", "upgraded", "created"}
  BY <1>1 DEF PodEnsure
<1>5. ASSUME NEW c \in Steps, NEW s \in Nat, NEW e \in {"nothing", "upgraded", "created"},
             PodAt(p, pods[p].pc)
      PROVE  /\ pods' = [pods EXCEPT ![p].store = s, ![p].pc = c] =>
                    PodNow(p, FALSE, c, s, pods[p].did)
             /\ pods' = [pods EXCEPT ![p].store = s, ![p].pc = c, ![p].did = e] =>
                    PodNow(p, FALSE, c, s, e)
             /\ pods' = [pods EXCEPT ![p].pc = c] =>
                    PodNow(p, FALSE, c, pods[p].store, pods[p].did)
             /\ pods' = [pods EXCEPT ![p].pc = c, ![p].did = e] =>
                    PodNow(p, FALSE, c, pods[p].store, e)
             /\ pods' = [pods EXCEPT ![p].ready = TRUE, ![p].pc = c] =>
                    PodNow(p, TRUE, c, pods[p].store, pods[p].did)
  <2>1. pods[p].ready = FALSE
    BY <1>3, <1>5 DEF PodAt
  <2>2. ASSUME pods' = [pods EXCEPT ![p].store = s, ![p].pc = c]
        PROVE  PodNow(p, FALSE, c, s, pods[p].did)
    <3>1. pods' = [pods EXCEPT ![p] = [pods[p] EXCEPT !.store = s, !.pc = c]]
      BY <1>1, <2>2
    <3>. QED  BY <1>1, <2>1, <3>1 DEF PodNow, PodEnsure
  <2>3. ASSUME pods' = [pods EXCEPT ![p].store = s, ![p].pc = c, ![p].did = e]
        PROVE  PodNow(p, FALSE, c, s, e)
    <3>1. pods' = [pods EXCEPT ![p] = [pods[p] EXCEPT !.store = s, !.pc = c, !.did = e]]
      BY <1>1, <2>3
    <3>. QED  BY <1>1, <2>1, <3>1 DEF PodNow, PodEnsure
  <2>4. ASSUME pods' = [pods EXCEPT ![p].pc = c]
        PROVE  PodNow(p, FALSE, c, pods[p].store, pods[p].did)
    BY <1>1, <2>1, <2>4 DEF PodNow, PodEnsure
  <2>5. ASSUME pods' = [pods EXCEPT ![p].pc = c, ![p].did = e]
        PROVE  PodNow(p, FALSE, c, pods[p].store, e)
    <3>1. pods' = [pods EXCEPT ![p] = [pods[p] EXCEPT !.pc = c, !.did = e]]
      BY <1>1, <2>5
    <3>. QED  BY <1>1, <2>1, <3>1 DEF PodNow, PodEnsure
  <2>6. ASSUME pods' = [pods EXCEPT ![p].ready = TRUE, ![p].pc = c]
        PROVE  PodNow(p, TRUE, c, pods[p].store, pods[p].did)
    <3>1. pods' = [pods EXCEPT ![p] = [pods[p] EXCEPT !.ready = TRUE, !.pc = c]]
      BY <1>1, <2>6
    <3>. QED  BY <1>1, <3>1 DEF PodNow, PodEnsure
  <2>. QED  BY <2>2, <2>3, <2>4, <2>5, <2>6
<1>6. ASSUME ListStores(p)
      PROVE  PodNow(p, FALSE, IF Listed = 0 THEN "create" ELSE "inspect", Listed, pods[p].did)
  BY <1>2, <1>5, <1>6 DEF ListStores, PodAt, Steps
<1>7. ASSUME CreateStore(p)
      PROVE  PodNow(p, FALSE, "model", Len(stores) + 1, "created") /\ Creates(stores', stores)
  <2>1. Creates(stores', stores) /\ PodAt(p, pods[p].pc)
    BY <1>7 DEF CreateStore, Creates, PodAt
  <2>2. Len(stores') = Len(stores) + 1 /\ Len(stores) + 1 \in Nat
    BY <1>1, <2>1, GrewStore
  <2>3. pods' = [pods EXCEPT ![p].store = Len(stores) + 1, ![p].pc = "model",
                             ![p].did = "created"]
    BY <1>7, <2>2 DEF CreateStore
  <2>. QED  BY <1>5, <2>1, <2>2, <2>3 DEF Steps
<1>8. ASSUME InspectModel(p)
      PROVE  IF HasFolder(pods[p].store)
             THEN PodNow(p, TRUE, "done", pods[p].store, pods[p].did)
             ELSE PodNow(p, FALSE, "model", pods[p].store, pods[p].did)
  <2>1. PodAt(p, pods[p].pc)
    BY <1>8 DEF InspectModel, PodAt
  <2>. QED  BY <1>3, <1>5, <1>8, <2>1 DEF InspectModel, Steps
<1>9. ASSUME writeAuthorizationModel(p)
      PROVE  /\ PodNow(p, FALSE, "seed", pods[p].store,
                       IF pods[p].did = "created" THEN "created" ELSE "upgraded")
             /\ SetsModel(stores', stores, pods[p].store)
  <2> DEFINE e == IF pods[p].did = "created" THEN "created" ELSE "upgraded"
  <2>1. PodAt(p, pods[p].pc) /\ SetsModel(stores', stores, pods[p].store)
    BY <1>9 DEF writeAuthorizationModel, PodAt, SetsModel
  <2>2. pods' = [pods EXCEPT ![p].pc = "seed", ![p].did = e]
    BY <1>1, <1>9 DEF writeAuthorizationModel, PodEnsure
  <2>3. e \in {"nothing", "upgraded", "created"} /\ "seed" \in Steps
    BY DEF Steps
  <2> HIDE DEF e
  <2>4. PodNow(p, FALSE, "seed", pods[p].store, e)
    BY <1>3, <1>5, <2>1, <2>2, <2>3
  <2>. QED  BY <2>1, <2>4 DEF e
<1>10. ASSUME seedDefaultMemberships(p)
       PROVE  /\ PodNow(p, TRUE, "done", pods[p].store, pods[p].did)
              /\ Writes(stores', stores, pods[p].store, {Memberships})
  <2>1. PodAt(p, pods[p].pc) /\ Writes(stores', stores, pods[p].store, {Memberships})
    BY <1>10 DEF seedDefaultMemberships, PodAt, Writes
  <2>2. pods' = [pods EXCEPT ![p].ready = TRUE, ![p].pc = "done"]
    BY <1>10 DEF seedDefaultMemberships
  <2>. QED  BY <1>3, <1>5, <2>1, <2>2 DEF Steps
<1>11. ASSUME EnsureFails(p) PROVE PodNow(p, FALSE, "list", 0, "nothing")
  <2>1. /\ NotReady \in PodEnsure /\ NotReady.ready = FALSE /\ NotReady.pc = "list"
        /\ NotReady.store = 0 /\ NotReady.did = "nothing"
    BY DEF NotReady, PodEnsure, Steps
  <2>2. pods' = [pods EXCEPT ![p] = NotReady]
    BY <1>11 DEF EnsureFails
  <2>. QED  BY <1>1, <2>1, <2>2 DEF PodNow
<1>. QED  BY <1>2, <1>6, <1>7, <1>8, <1>9, <1>10, <1>11

-----------------------------------------------------------------------------
(* Types, and the stores that are held *)

\* The steps that touch the indexes.
IndexStep ==
    \/ IngestFile
    \/ VectorUpsert \/ VectorUpsertFails
    \/ LexicalUpsert \/ LexicalUpsertFails
    \/ DeleteVector \/ DeleteLexical \/ DeleteLexicalMisses \/ DeleteFails \/ RolledBack

\* The steps of ensure, the authorizer's and a runtime's.
PodStep(p) ==
    \/ ListStores(p) \/ CreateStore(p) \/ InspectModel(p)
    \/ writeAuthorizationModel(p) \/ seedDefaultMemberships(p) \/ EnsureFails(p)

EnsureStep == AuthList \/ AuthCreate \/ AuthSeed \/ \E p \in Pods : PodStep(p)

\* The kinds of steps.
LEMMA StepKinds ==
    ASSUME Next
    PROVE  IndexStep \/ Refresh \/ Grant \/ GrantFails \/ Crash \/ EnsureStep
BY DEF Next, IndexStep, EnsureStep, PodStep

\* A step on the indexes leaves everything of OpenFGA alone.
LEMMA IndexFrame ==
    ASSUME IndexStep
    PROVE  UNCHANGED <<stores, auth, pods, torn>>
BY DEF IndexStep, IngestFile, VectorUpsert, VectorUpsertFails, LexicalUpsert,
       LexicalUpsertFails, DeleteVector, DeleteLexical, DeleteLexicalMisses, DeleteFails,
       RolledBack, fga

\* A refresh changes only what a search finds.
LEMMA RefreshFrame ==
    ASSUME Refresh
    PROVE  /\ UNCHANGED <<vector, lexical, job, outcome, stores, auth, pods, torn>>
           /\ searchable' = lexical' /\ outdated' = {}
BY DEF Refresh, fga

\* A step of ensure leaves the uploads alone.
LEMMA EnsureFrame ==
    ASSUME EnsureStep
    PROVE  UNCHANGED <<vector, lexical, searchable, outdated, job, outcome>>
BY DEF EnsureStep, PodStep, AuthList, AuthCreate, AuthSeed, ListStores, CreateStore,
       InspectModel, writeAuthorizationModel, seedDefaultMemberships, EnsureFails, indexes,
       elastic

\* What Shape says of Elasticsearch.
ElasticShape ==
    /\ lexical \subseteq AllChunks
    /\ outdated \subseteq searchable /\ searchable \ outdated \subseteq lexical

\* Writes and deletions that Elasticsearch answers keep it.
LEMMA ElasticSteps ==
    ASSUME ElasticShape
    PROVE  /\ Index /\ Chunk \in AllChunks => ElasticShape'
           /\ DeleteByQuery => ElasticShape'
           /\ UNCHANGED elastic => ElasticShape'
<1>1. ASSUME Index, Chunk \in AllChunks PROVE ElasticShape'
  BY <1>1 DEF Index, ElasticShape
<1>2. ASSUME DeleteByQuery PROVE ElasticShape'
  BY <1>2 DEF DeleteByQuery, ElasticShape
<1>3. ASSUME UNCHANGED elastic PROVE ElasticShape'
  BY <1>3 DEF elastic, ElasticShape
<1>. QED  BY <1>1, <1>2, <1>3

\* A step of an upload in progress.
LEMMA UploadStep ==
    ASSUME IndexStep, ~IngestFile
    PROVE  job.pc \in JobSteps
BY DEF IndexStep, VectorUpsert, VectorUpsertFails, LexicalUpsert, LexicalUpsertFails,
       DeleteVector, DeleteLexical, DeleteLexicalMisses, DeleteFails, RolledBack, JobSteps

\* A step on the indexes keeps the shape of uploads, outcomes and indexes.
LEMMA IndexTyping ==
    ASSUME Shape, StoresHeld, JobInv, IndexStep
    PROVE  /\ vector' \subseteq AllChunks /\ ElasticShape'
           /\ job' \in Job \union {NoJob} /\ outcome' \in [Docs -> Outcome]
           /\ job' # NoJob => auth.ready
<1>0. /\ vector \subseteq AllChunks /\ ElasticShape
      /\ job \in Job \union {NoJob} /\ outcome \in [Docs -> Outcome]
  BY DEF Shape, ElasticShape
<1>1. CASE IngestFile
  <2>1. vector' = vector /\ ElasticShape'
    BY <1>0, <1>1, ElasticSteps DEF IngestFile, indexes
  <2>. QED  BY <1>0, <1>1, <2>1, IngestFileDoes DEF OutcomeNow
<1>2. CASE ~IngestFile
  <2>1. job.pc \in JobSteps
    BY <1>2, UploadStep
  <2>2. Chunk \in AllChunks /\ auth.ready
    BY <2>1, Uploading DEF StoresHeld
  <2>3. CASE VectorUpsert \/ LexicalUpsert
    <3>1. job' \in Job /\ outcome' = outcome
      BY <2>3, UpsertDoes DEF JobNow, VectorUpsert, LexicalUpsert
    <3>2. vector' \subseteq AllChunks /\ ElasticShape'
      BY <1>0, <2>2, <2>3, ElasticSteps DEF VectorUpsert, LexicalUpsert
    <3>. QED  BY <1>0, <2>2, <3>1, <3>2
  <2>4. CASE VectorUpsertFails \/ LexicalUpsertFails
    <3>1. job' \in Job /\ outcome' \in [Docs -> Outcome]
      BY <2>1, <2>4, UpsertFailsDoes DEF VectorUpsertFails, LexicalUpsertFails, JobNow, OutcomeNow
    <3>2. vector' \subseteq AllChunks /\ ElasticShape'
      BY <1>0, <2>2, <2>4, ElasticSteps DEF VectorUpsertFails, LexicalUpsertFails
    <3>. QED  BY <2>2, <3>1, <3>2
  <2>5. CASE DeleteVector \/ DeleteLexical \/ DeleteLexicalMisses
    <3>1. job' \in Job
      BY <2>5, DeleteDoes DEF JobNow
    <3>2. outcome' \in [Docs -> Outcome]
      BY <1>0, <2>5, DeleteDoes DEF DeleteVector, DeleteLexical, OutcomeNow
    <3>3. vector' \subseteq AllChunks /\ ElasticShape'
      BY <1>0, <2>5, ElasticSteps DEF DeleteVector, DeleteLexical, DeleteLexicalMisses, indexes
    <3>. QED  BY <2>2, <3>1, <3>2, <3>3
  <2>6. CASE DeleteFails
    <3>1. job' \in Job \union {NoJob} /\ outcome' \in [Docs -> Outcome]
      BY <2>6, DeleteFailsDoes DEF JobNow, OutcomeNow
    <3>2. vector' \subseteq AllChunks /\ ElasticShape'
      BY <1>0, <2>6, ElasticSteps DEF DeleteFails, indexes
    <3>. QED  BY <2>2, <3>1, <3>2
  <2>7. CASE RolledBack
    <3>1. job' \in Job \union {NoJob} /\ outcome' \in [Docs -> Outcome]
      BY <1>0, <2>7, RolledBackDoes DEF JobNow, OutcomeNow
    <3>2. vector' \subseteq AllChunks /\ ElasticShape'
      BY <1>0, <2>7, ElasticSteps DEF RolledBack, indexes
    <3>. QED  BY <2>2, <3>1, <3>2
  <2>. QED  BY <1>2, <2>3, <2>4, <2>5, <2>6, <2>7 DEF IndexStep
<1>. QED  BY <1>1, <1>2

\* StoresHeld, part by part.
AuthHeld == /\ auth.store <= Len(stores)
            /\ auth.pc \in {"seed", "done"} => auth.store > 0
            /\ auth.ready <=> auth.pc = "done"
PodHeld(p) == /\ pods[p].store <= Len(stores)
              /\ pods[p].pc \in {"inspect", "model", "seed", "done"} => pods[p].store > 0
              /\ pods[p].ready <=> pods[p].pc = "done"
              /\ pods[p].pc \in {"seed", "done"} => HasFolder(pods[p].store)
              /\ pods[p].store \in {0, 1} \/ pods[p].did = "created"
              /\ pods[p].pc \in {"list", "inspect"} => pods[p].did = "nothing"
              /\ pods[p].pc = "done" /\ pods[p].did # "nothing" =>
                     Memberships \in stores[pods[p].store].tuples

\* Stores, their tuples and the current model stay.
Kept ==
    /\ stores' \in Seq(Store) /\ Len(stores) <= Len(stores')
    /\ \A r \in 1..Len(stores) : /\ r \in 1..Len(stores')
                                 /\ stores[r].tuples \subseteq stores'[r].tuples
                                 /\ HasFolder(r) => HasFolder(r)'

\* They do when the stores grow, when a grant is written and when nothing happens.
LEMMA KeptWhen ==
    ASSUME Shape
    PROVE  /\ Grew => Kept
           /\ \A T : Wrote(T) => Kept
           /\ stores' = stores => Kept
<1>1. Len(stores) \in Nat /\ stores \in Seq(Store)
  BY DEF Shape
<1>2. Grew => Kept
  BY DEF Grew, Kept, HasFolder
<1>3. ASSUME NEW T, Wrote(T) PROVE Kept
  BY <1>1, <1>3 DEF Wrote, Kept, HasFolder
<1>4. stores' = stores => Kept
  BY <1>1 DEF Kept, HasFolder
<1>. QED  BY <1>2, <1>3, <1>4

\* Who does not move keeps the store.
LEMMA HeldKept ==
    ASSUME Shape, StoresHeld, Kept
    PROVE  /\ auth' = auth => AuthHeld'
           /\ \A p \in Pods : pods'[p] = pods[p] => PodHeld(p)'
<1>1. /\ Len(stores) \in Nat /\ Len(stores') \in Nat /\ Len(stores) <= Len(stores')
      /\ auth.store \in Nat /\ \A p \in Pods : pods[p].store \in Nat
  BY DEF Shape, Kept, Ensure, PodEnsure
<1>2. auth' = auth => AuthHeld'
  BY <1>1 DEF StoresHeld, AuthHeld
<1>3. ASSUME NEW p \in Pods, pods'[p] = pods[p] PROVE PodHeld(p)'
  <2> DEFINE s == pods[p].store
  <2>1. pods[p].pc \in {"seed", "done"} => s \in 1..Len(stores) /\ HasFolder(s)
    BY StoreThere DEF StoresHeld
  <2>2. /\ pods[p].pc \in {"seed", "done"} => stores'[s].model = "current"
        /\ pods[p].pc \in {"seed", "done"} => stores[s].tuples \subseteq stores'[s].tuples
    BY <2>1 DEF Kept, HasFolder
  <2>3. s <= Len(stores) /\ s \in Nat
    BY <1>1 DEF StoresHeld
  <2>4. s <= Len(stores')
    BY <1>1, <2>3
  <2>. QED  BY <1>3, <2>2, <2>4 DEF StoresHeld, PodHeld, HasFolder
<1>. QED  BY <1>2, <1>3

\* A step of ensure only grows the stores, and keeps the stores that are held.
LEMMA EnsureTyping ==
    ASSUME Shape, StoresHeld, EnsureStep
    PROVE  Grew /\ Shape' /\ StoresHeld'
<1>0. /\ auth \in Ensure /\ pods \in [Pods -> PodEnsure] /\ stores \in Seq(Store)
      /\ Len(stores) \in Nat
  BY DEF Shape
<1>1. SUFFICES Grew /\ auth' \in Ensure /\ pods' \in [Pods -> PodEnsure]
               /\ (auth.ready => auth'.ready) /\ AuthHeld' /\ \A p \in Pods : PodHeld(p)'
  <2>1. /\ UNCHANGED <<vector, lexical, searchable, outdated, job, outcome>>
        /\ job # NoJob => auth.ready
    BY EnsureFrame DEF StoresHeld
  <2>2. stores' \in Seq(Store)
    BY <1>1 DEF Grew
  <2>3. Shape'
    BY <1>1, <2>1, <2>2 DEF Shape
  <2>4. StoresHeld'
    BY <1>1, <2>1 DEF StoresHeld, AuthHeld, PodHeld
  <2>. QED  BY <1>1, <2>3, <2>4
<1>2. CASE AuthList \/ AuthCreate \/ AuthSeed
  <2>1. pods' = pods
    BY <1>2 DEF AuthList, AuthCreate, AuthSeed
  <2>2. CASE AuthList
    <3>1. /\ AuthNow(FALSE, IF Listed = 0 THEN "create" ELSE "seed", Listed)
          /\ Listed \in Nat /\ Listed <= Len(stores) /\ stores' = stores /\ ~auth.ready
      BY <2>2, AuthDoes DEF AuthList
    <3>2. Grew
      BY <3>1, GrewNothing
    <3>3. AuthHeld'
      BY <3>1 DEF AuthNow, AuthHeld
    <3>. QED  BY <1>0, <2>1, <3>1, <3>2, <3>3, KeptWhen, HeldKept DEF AuthNow
  <2>3. CASE AuthCreate
    <3>1. AuthNow(FALSE, "seed", Len(stores) + 1) /\ Creates(stores', stores)
      BY <2>3, AuthDoes
    <3>2. Grew /\ Len(stores') = Len(stores) + 1
      BY <3>1, GrewStore
    <3>3. AuthHeld'
      BY <1>0, <3>1, <3>2 DEF AuthNow, AuthHeld
    <3>4. ~auth.ready
      BY <2>3 DEF AuthCreate, StoresHeld
    <3>. QED  BY <1>0, <2>1, <3>1, <3>2, <3>3, <3>4, KeptWhen, HeldKept DEF AuthNow
  <2>4. CASE AuthSeed
    <3>1. /\ AuthNow(TRUE, "done", auth.store) /\ auth.store \in 1..Len(stores)
          /\ stores' = stores \/ Writes(stores', stores, auth.store, {Memberships})
      BY <2>4, AuthDoes
    <3>2. Grew /\ Len(stores') = Len(stores)
      BY <3>1, GrewNothing, GrewSeed
    <3>3. AuthHeld'
      BY <1>0, <3>1, <3>2 DEF AuthNow, AuthHeld
    <3>. QED  BY <1>0, <2>1, <3>1, <3>2, <3>3, KeptWhen, HeldKept DEF AuthNow
  <2>. QED  BY <1>2, <2>2, <2>3, <2>4
<1>3. ASSUME NEW p \in Pods, PodStep(p)
      PROVE  Grew /\ auth' = auth /\ pods' \in [Pods -> PodEnsure] /\ PodHeld(p)'
             /\ \A q \in Pods : q # p => pods'[q] = pods[q]
  <2>0. auth' = auth
    BY <1>3 DEF PodStep, ListStores, CreateStore, InspectModel, writeAuthorizationModel,
          seedDefaultMemberships, EnsureFails
  <2>1. CASE ListStores(p)
    <3>1. /\ PodNow(p, FALSE, IF Listed = 0 THEN "create" ELSE "inspect", Listed,
                    pods[p].did)
          /\ Listed \in {0, 1} /\ Listed <= Len(stores) /\ stores' = stores
      BY <2>1, PodDoes DEF ListStores
    <3>2. pods[p].did = "nothing"
      BY <2>1 DEF ListStores, PodAt, StoresHeld
    <3>3. PodHeld(p)'
      BY <3>1, <3>2 DEF PodNow, PodHeld
    <3>. QED  BY <2>0, <3>1, <3>3, GrewNothing DEF PodNow
  <2>2. CASE CreateStore(p)
    <3>1. PodNow(p, FALSE, "model", Len(stores) + 1, "created") /\ Creates(stores', stores)
      BY <2>2, PodDoes
    <3>2. Grew /\ Len(stores') = Len(stores) + 1
      BY <3>1, GrewStore
    <3>3. PodHeld(p)'
      BY <1>0, <3>1, <3>2 DEF PodNow, PodHeld
    <3>. QED  BY <2>0, <3>1, <3>2, <3>3 DEF PodNow
  <2>3. CASE InspectModel(p)
    <3>1. /\ IF HasFolder(pods[p].store)
             THEN PodNow(p, TRUE, "done", pods[p].store, pods[p].did)
             ELSE PodNow(p, FALSE, "model", pods[p].store, pods[p].did)
          /\ stores' = stores
      BY <2>3, PodDoes DEF InspectModel
    <3>2. /\ pods[p].store \in 1..Len(stores) /\ pods[p].did = "nothing"
          /\ pods[p].store \in {0, 1} \/ pods[p].did = "created"
      BY <2>3, StoreThere DEF InspectModel, PodAt, StoresHeld
    <3>3. PodHeld(p)'
      BY <1>0, <3>1, <3>2 DEF PodNow, PodHeld, HasFolder
    <3>. QED  BY <2>0, <3>1, <3>3, GrewNothing DEF PodNow
  <2>4. CASE writeAuthorizationModel(p)
    <3>1. /\ PodNow(p, FALSE, "seed", pods[p].store,
                    IF pods[p].did = "created" THEN "created" ELSE "upgraded")
          /\ SetsModel(stores', stores, pods[p].store)
      BY <2>4, PodDoes
    <3>2. /\ pods[p].store \in 1..Len(stores)
          /\ pods[p].store \in {0, 1} \/ pods[p].did = "created"
      BY <2>4, StoreThere DEF writeAuthorizationModel, PodAt, StoresHeld
    <3>3. Grew /\ Len(stores') = Len(stores) /\ stores'[pods[p].store].model = "current"
      BY <3>1, <3>2, GrewModel
    <3>4. PodHeld(p)'
      BY <1>0, <3>1, <3>2, <3>3 DEF PodNow, PodHeld, HasFolder
    <3>. QED  BY <2>0, <3>1, <3>3, <3>4 DEF PodNow
  <2>5. CASE seedDefaultMemberships(p)
    <3>1. /\ PodNow(p, TRUE, "done", pods[p].store, pods[p].did)
          /\ Writes(stores', stores, pods[p].store, {Memberships})
      BY <2>5, PodDoes
    <3>2. /\ pods[p].store \in 1..Len(stores) /\ stores[pods[p].store].model = "current"
          /\ pods[p].store \in {0, 1} \/ pods[p].did = "created"
      BY <2>5, StoreThere DEF seedDefaultMemberships, PodAt, StoresHeld, HasFolder
    <3>3. /\ Grew /\ Len(stores') = Len(stores) /\ stores'[pods[p].store].model = "current"
          /\ Memberships \in stores'[pods[p].store].tuples
      BY <3>1, <3>2, GrewSeed
    <3>4. PodHeld(p)'
      BY <1>0, <3>1, <3>2, <3>3 DEF PodNow, PodHeld, HasFolder
    <3>. QED  BY <2>0, <3>1, <3>3, <3>4 DEF PodNow
  <2>6. CASE EnsureFails(p)
    <3>1. PodNow(p, FALSE, "list", 0, "nothing") /\ stores' = stores
      BY <2>6, PodDoes DEF EnsureFails
    <3>2. PodHeld(p)'
      BY <1>0, <3>1 DEF PodNow, PodHeld
    <3>. QED  BY <2>0, <3>1, <3>2, GrewNothing DEF PodNow
  <2>. QED  BY <1>3, <2>1, <2>2, <2>3, <2>4, <2>5, <2>6 DEF PodStep
<1>4. CASE \E p \in Pods : PodStep(p)
  <2>1. PICK p \in Pods : PodStep(p)
    BY <1>4
  <2>2. /\ Grew /\ auth' = auth /\ pods' \in [Pods -> PodEnsure] /\ PodHeld(p)'
        /\ \A q \in Pods : q # p => pods'[q] = pods[q]
    BY <1>3, <2>1
  <2>. QED  BY <1>0, <2>2, KeptWhen, HeldKept
<1>. QED  BY <1>2, <1>4 DEF EnsureStep

\* Every step keeps the shape of the state and the stores that are held.
LEMMA BaseStep ==
    ASSUME Shape, StoresHeld, JobInv, [Next]_vars
    PROVE  Shape' /\ StoresHeld' /\ Kept
<1>0. /\ auth \in Ensure /\ pods \in [Pods -> PodEnsure] /\ stores \in Seq(Store)
      /\ vector \subseteq AllChunks /\ ElasticShape /\ outcome \in [Docs -> Outcome]
  BY DEF Shape, ElasticShape
<1>1. ASSUME Kept, pods' = pods, auth' = auth, job' # NoJob => auth.ready
      PROVE  StoresHeld'
  <2>1. AuthHeld' /\ \A p \in Pods : PodHeld(p)'
    BY <1>1, HeldKept
  <2>. QED  BY <1>1, <2>1 DEF StoresHeld, AuthHeld, PodHeld
<1>2. CASE IndexStep
  <2>1. UNCHANGED <<stores, auth, pods, torn>>
    BY <1>2, IndexFrame
  <2>2. /\ vector' \subseteq AllChunks /\ ElasticShape'
        /\ job' \in Job \union {NoJob} /\ outcome' \in [Docs -> Outcome]
        /\ job' # NoJob => auth.ready
    BY <1>2, IndexTyping
  <2>3. Kept
    BY <2>1, KeptWhen
  <2>. QED  BY <1>0, <1>1, <2>1, <2>2, <2>3 DEF Shape, ElasticShape
<1>3. CASE Grant
  <2>1. job' = NoJob /\ outcome' \in [Docs -> Outcome] /\ Kept /\ stores' \in Seq(Store)
    BY <1>3, GrantDoes, KeptWhen DEF OutcomeNow, Wrote
  <2>2. UNCHANGED <<vector, lexical, searchable, outdated, auth, pods>>
    BY <1>3 DEF Grant, indexes, elastic
  <2>. QED  BY <1>0, <1>1, <2>1, <2>2 DEF Shape
<1>4. CASE GrantFails
  <2>1. job' \in Job /\ Kept /\ stores' \in Seq(Store)
    BY <1>4, GrantFailsDoes, KeptWhen DEF JobNow, Wrote
  <2>2. UNCHANGED <<vector, lexical, searchable, outdated, auth, pods, outcome>> /\ auth.ready
    BY <1>4, JobThere DEF GrantFails, indexes, elastic, StoresHeld
  <2>. QED  BY <1>0, <1>1, <2>1, <2>2 DEF Shape
<1>5. CASE Crash
  <2>1. UNCHANGED <<vector, lexical, searchable, outdated, stores, pods>> /\ job' = NoJob
        /\ auth' = [ready |-> FALSE, pc |-> "list", store |-> 0]
    BY <1>5 DEF Crash, indexes, elastic
  <2>2. Kept
    BY <2>1, KeptWhen
  <2>3. auth' \in Ensure /\ AuthHeld'
    BY <1>0, <2>1 DEF Ensure, Steps, AuthHeld
  <2>4. \A d \in Docs : [outcome[d] EXCEPT !.result = "crashed"] \in Outcome
    BY <1>0 DEF Outcome
  <2>5. outcome' \in [Docs -> Outcome]
    BY <1>0, <1>5, <2>4 DEF Crash
  <2>6. \A p \in Pods : PodHeld(p)'
    BY <2>1, <2>2, HeldKept
  <2>7. StoresHeld'
    BY <2>1, <2>3, <2>6 DEF StoresHeld, AuthHeld, PodHeld
  <2>. QED  BY <1>0, <2>1, <2>2, <2>3, <2>5, <2>7 DEF Shape
<1>6. CASE EnsureStep
  BY <1>6, EnsureTyping, KeptWhen
<1>7. CASE UNCHANGED vars
  <2>1. UNCHANGED <<vector, lexical, searchable, outdated, job, outcome, stores, auth, pods>>
    BY <1>7 DEF vars
  <2>2. Kept
    BY <2>1, KeptWhen
  <2>3. job' # NoJob => auth.ready
    BY <2>1 DEF StoresHeld
  <2>. QED  BY <1>1, <2>1, <2>2, <2>3 DEF Shape
<1>8. CASE Refresh
  <2>1. /\ UNCHANGED <<vector, lexical, job, outcome, stores, auth, pods>>
        /\ searchable' = lexical' /\ outdated' = {}
    BY <1>8, RefreshFrame
  <2>2. Kept
    BY <2>1, KeptWhen
  <2>3. job' # NoJob => auth.ready
    BY <2>1 DEF StoresHeld
  <2>. QED  BY <1>1, <2>1, <2>2, <2>3 DEF Shape
<1>. QED  BY <1>2, <1>3, <1>4, <1>5, <1>6, <1>7, <1>8, StepKinds

-----------------------------------------------------------------------------
(* Memberships: ReadyStore *)

\* Every step keeps the stores with a current model seeded, being seeded or torn.
LEMMA SeededStep ==
    ASSUME Shape, StoresHeld, JobInv, Seeded, [Next]_vars
    PROVE  Seeded'
<1>0. Len(stores) \in Nat
  BY DEF Shape
<1>1. ASSUME UNCHANGED <<pods, torn>>, Len(stores') = Len(stores),
             \A r \in 1..Len(stores) : /\ stores'[r].model = stores[r].model
                                       /\ stores[r].tuples \subseteq stores'[r].tuples
      PROVE  Seeded'
  BY <1>1 DEF Seeded, HasFolder, PodAt
<1>2. CASE IndexStep
  BY <1>1, <1>2, IndexFrame
<1>3. CASE Grant \/ GrantFails
  <2>1. Len(stores') = Len(stores)
        /\ \A r \in 1..Len(stores) : /\ stores'[r].model = stores[r].model
                                     /\ stores[r].tuples \subseteq stores'[r].tuples
    BY <1>3, GrantDoes, GrantFailsDoes DEF Wrote
  <2>. QED  BY <1>1, <1>3, <2>1 DEF Grant, GrantFails
<1>4. CASE Crash \/ Refresh \/ UNCHANGED vars
  BY <1>1, <1>4, RefreshFrame DEF Crash, vars
<1>5. CASE AuthList \/ AuthCreate \/ AuthSeed
  <2>1. UNCHANGED <<pods, torn>> /\ Grew
    BY <1>5, EnsureTyping DEF AuthList, AuthCreate, AuthSeed, EnsureStep
  <2>2. \A r \in 1..Len(stores) : stores'[r].model = stores[r].model
    BY <1>5, AuthDoes, GrewSeed, GrewStore DEF AuthList
  <2>3. ASSUME NEW s \in 1..Len(stores'), HasFolder(s)'
        PROVE  \/ Memberships \in stores'[s].tuples \/ s \in torn'
               \/ \E q \in Pods : PodAt(q, "seed")' /\ pods'[q].store = s
    <3>1. s \in 1..Len(stores) /\ HasFolder(s)
      BY <2>1, <2>2, <2>3 DEF Grew, HasFolder
    <3>. QED  BY <2>1, <3>1 DEF Grew, Seeded, PodAt
  <2>. QED  BY <2>3 DEF Seeded
<1>6. ASSUME NEW p \in Pods, PodStep(p) PROVE Seeded'
  <2>1. Grew /\ torn \subseteq torn'
    BY <1>6, EnsureTyping DEF EnsureStep, PodStep, ListStores, CreateStore, InspectModel,
          writeAuthorizationModel, seedDefaultMemberships, EnsureFails
  <2>2. \A q \in Pods : q # p => pods'[q] = pods[q]
    BY <1>6, PodDoes DEF PodStep, PodNow
  <2>3. ASSUME NEW s \in 1..Len(stores'), HasFolder(s)', ~HasFolder(s), s \in 1..Len(stores)
        PROVE  PodAt(p, "seed")' /\ pods'[p].store = s
    <3>1. writeAuthorizationModel(p)
      BY <1>6, <2>3, PodDoes, GrewSeed, GrewStore, StoreThere
         DEF PodStep, HasFolder, ListStores, InspectModel, EnsureFails,
             seedDefaultMemberships, PodAt
    <3>2. /\ PodNow(p, FALSE, "seed", pods[p].store,
                    IF pods[p].did = "created" THEN "created" ELSE "upgraded")
          /\ SetsModel(stores', stores, pods[p].store)
          /\ pods[p].store \in 1..Len(stores)
      BY <3>1, PodDoes, StoreThere DEF writeAuthorizationModel, PodAt
    <3>3. s = pods[p].store
      BY <2>3, <3>2, GrewModel DEF HasFolder
    <3>. QED  BY <3>2, <3>3 DEF PodNow, PodAt
  <2>4. ASSUME PodAt(p, "seed")
        PROVE  Memberships \in stores'[pods[p].store].tuples \/ pods[p].store \in torn'
    <3>1. seedDefaultMemberships(p) \/ EnsureFails(p)
      BY <1>6, <2>4 DEF PodStep, PodAt, ListStores, CreateStore, InspectModel,
            writeAuthorizationModel
    <3>2. pods[p].store \in 1..Len(stores)
      BY <2>4, StoreThere DEF PodAt
    <3>3. CASE seedDefaultMemberships(p)
      BY <3>2, <3>3, PodDoes, GrewSeed
    <3>4. CASE EnsureFails(p)
      BY <2>4, <3>4 DEF EnsureFails
    <3>. QED  BY <3>1, <3>3, <3>4
  <2>5. ASSUME NEW s \in 1..Len(stores'), HasFolder(s)'
        PROVE  \/ Memberships \in stores'[s].tuples \/ s \in torn'
               \/ \E q \in Pods : PodAt(q, "seed")' /\ pods'[q].store = s
    <3>1. s \in 1..Len(stores)
      BY <2>1, <2>5 DEF Grew, HasFolder
    <3>2. CASE ~HasFolder(s)
      BY <2>3, <2>5, <3>1, <3>2
    <3>3. CASE HasFolder(s)
      <4>1. \/ Memberships \in stores[s].tuples \/ s \in torn
            \/ \E q \in Pods : PodAt(q, "seed") /\ pods[q].store = s
        BY <3>1, <3>3 DEF Seeded
      <4>2. CASE Memberships \in stores[s].tuples \/ s \in torn
        BY <2>1, <3>1, <4>2 DEF Grew
      <4>3. ASSUME NEW q \in Pods, PodAt(q, "seed"), pods[q].store = s
            PROVE  \/ Memberships \in stores'[s].tuples \/ s \in torn'
                   \/ PodAt(q, "seed")' /\ pods'[q].store = s
        <5>1. CASE q = p
          BY <2>4, <4>3, <5>1
        <5>2. CASE q # p
          BY <2>2, <4>3, <5>2 DEF PodAt
        <5>. QED  BY <5>1, <5>2
      <4>. QED  BY <4>1, <4>2, <4>3
    <3>. QED  BY <3>2, <3>3
  <2>. QED  BY <2>5 DEF Seeded
<1>. QED  BY <1>2, <1>3, <1>4, <1>5, <1>6, StepKinds DEF EnsureStep

\* A seeded store is what ReadyStore asks for.
LEMMA SeededReady ==
    ASSUME Shape, StoresHeld, Seeded
    PROVE  ReadyStore
<1> SUFFICES ASSUME NEW p \in Pods, pods[p].ready
             PROVE  /\ HasFolder(pods[p].store)
                    /\ pods[p].store = 1 \/ pods[p].did = "created"
                    /\ \/ Memberships \in stores[pods[p].store].tuples
                       \/ /\ pods[p].did = "nothing"
                          /\ \/ pods[p].store \in torn
                             \/ \E q \in Pods : /\ PodAt(q, "seed")
                                               /\ pods[q].store = pods[p].store
  BY DEF ReadyStore
<1>1. /\ pods[p].store \in 1..Len(stores) /\ HasFolder(pods[p].store)
      /\ pods[p].store \in {0, 1} \/ pods[p].did = "created"
      /\ pods[p].did # "nothing" => Memberships \in stores[pods[p].store].tuples
  BY StoreThere DEF StoresHeld
<1>2. pods[p].store = 1 \/ pods[p].did = "created"
  BY <1>1
<1>. QED  BY <1>1, <1>2 DEF Seeded

-----------------------------------------------------------------------------
(* The dual write *)

\* What JobInv says of an upload of d at step pc, over indexes V and L.
JobAt(d, pc, k, written, todo, V, L) ==
    /\ k \in 1..Len(ChunksOf[d])
    /\ Range(written) \subseteq Chunks(d)
    /\ IsPrefix(todo, written)
    /\ pc \in {"vector", "lexical"} => \A j \in 1..(k - 1) : ChunksOf[d][j] \in V \intersect L
    /\ pc = "lexical" => ChunksOf[d][k] \in V
    /\ pc = "grant" => Chunks(d) \subseteq V \intersect L
    /\ pc = "delete_lexical" => todo # << >> /\ Last(todo) \notin V

\* Reading JobInv that way, before a step and after it.
LEMMA JobAtBefore ==
    ASSUME JobInv, job # NoJob
    PROVE  JobAt(job.doc, job.pc, job.k, job.written, job.todo, vector, lexical)
BY DEF JobInv, JobAt, Chunk

\* The same after a step.
LEMMA JobAtAfter ==
    ASSUME NEW pc, NEW k, NEW written, NEW todo, JobNow(pc, k, written, todo),
           outcome'[job.doc].result = "running",
           JobAt(job.doc, pc, k, written, todo, vector', lexical')
    PROVE  JobInv'
BY DEF JobNow, JobAt, JobInv, Chunk

\* No upload in progress, nothing to say.
LEMMA NoJobAfter ==
    ASSUME job' = NoJob
    PROVE  JobInv'
BY DEF JobInv

\* The chunks of a document, by position.
LEMMA ChunkPositions ==
    ASSUME NEW d \in Docs
    PROVE  /\ Len(ChunksOf[d]) \in Nat /\ Len(ChunksOf[d]) > 0
           /\ \A j \in 1..Len(ChunksOf[d]) : ChunksOf[d][j] \in Chunks(d)
           /\ \A x \in Chunks(d) : \E j \in 1..Len(ChunksOf[d]) : x = ChunksOf[d][j]
<1>1. ChunksOf[d] \in Seq(Chunks(d)) /\ Len(ChunksOf[d]) > 0
  BY IngestionAssumption
<1>2. Len(ChunksOf[d]) \in Nat /\ DOMAIN ChunksOf[d] = 1..Len(ChunksOf[d])
  BY <1>1, LenProperties
<1>. QED  BY <1>1, <1>2 DEF Chunks, Range

\* What is still to be deleted belongs to the document.
LEMMA TodoOwned ==
    ASSUME Shape, JobInv, job # NoJob
    PROVE  /\ Range(job.todo) \subseteq Chunks(job.doc)
           /\ job.todo # << >> => Last(job.todo) \in Chunks(job.doc)
<1>1. job.todo \in Seq(AllChunks) /\ job.written \in Seq(AllChunks)
  BY JobIs DEF Job
<1>2. Range(job.written) \subseteq Chunks(job.doc) /\ IsPrefix(job.todo, job.written)
  BY DEF JobInv
<1>3. /\ Len(job.todo) \in Nat /\ Len(job.written) \in Nat
      /\ DOMAIN job.todo = 1..Len(job.todo) /\ DOMAIN job.written = 1..Len(job.written)
  BY <1>1, LenProperties
<1>4. /\ Len(job.todo) <= Len(job.written)
      /\ \A i \in 1..Len(job.todo) : job.todo[i] = job.written[i]
  BY <1>1, <1>2, PrefixIs
<1>5. \A i \in 1..Len(job.todo) : i \in 1..Len(job.written)
  BY <1>3, <1>4
<1>6. Range(job.todo) \subseteq Range(job.written)
  BY <1>3, <1>4, <1>5 DEF Range
<1>7. job.todo # << >> => Last(job.todo) \in Range(job.todo)
  BY <1>1, FrontLast
<1>. QED  BY <1>2, <1>6, <1>7

\* A step on the indexes keeps what is said of the upload in progress.
LEMMA JobIndexStep ==
    ASSUME Shape, StoresHeld, JobInv, IndexStep
    PROVE  JobInv'
<1>1. CASE IngestFile
  <2>1. PICK d \in Docs, tags \in SUBSET Tags :
            /\ job' \in Job /\ job'.doc = d /\ job'.pc = "vector"
            /\ job'.k = 1 /\ job'.written = << >> /\ job'.todo = << >>
            /\ OutcomeNow(d, [Fresh EXCEPT !.result = "running", !.tags = tags,
                                 !.replaced = outcome[d].result # "none"])
    BY <1>1, IngestFileDoes
  <2>2. outcome'[d].result = "running"
    BY <2>1 DEF OutcomeNow, Fresh
  <2>3. 1 \in 1..Len(ChunksOf[d])
    BY ChunkPositions
  <2>4. Range(<< >>) = {} /\ IsPrefix(<< >>, << >>)
    BY EmptyRange
  <2>. QED  BY <2>1, <2>2, <2>3, <2>4 DEF JobInv
<1>2. CASE ~IngestFile
  <2>0. job.pc \in JobSteps
    BY <1>2, UploadStep
  <2>1. /\ job # NoJob /\ job.doc \in Docs /\ job.k \in Nat
        /\ job.written \in Seq(AllChunks) /\ job.todo \in Seq(AllChunks)
        /\ Chunk \in AllChunks /\ Chunk \in Chunks(job.doc)
        /\ outcome[job.doc] \in Outcome /\ outcome[job.doc].result = "running"
    BY <2>0, Uploading
  <2>2. JobAt(job.doc, job.pc, job.k, job.written, job.todo, vector, lexical)
    BY <2>1, JobAtBefore
  <2>3. Len(ChunksOf[job.doc]) \in Nat /\ 1 \in 1..Len(ChunksOf[job.doc])
        /\ Chunk = ChunksOf[job.doc][job.k]
    BY <2>1, ChunkPositions DEF Chunk
  <2>4. CASE VectorUpsert
    <3>1. /\ JobNow("lexical", job.k, job.written, job.todo)
          /\ vector' = vector \union {Chunk} /\ lexical' = lexical /\ outcome' = outcome
          /\ job.pc = "vector"
      BY <2>4, UpsertDoes DEF VectorUpsert, elastic
    <3>2. JobAt(job.doc, "lexical", job.k, job.written, job.todo, vector', lexical')
      BY <2>2, <2>3, <3>1 DEF JobAt
    <3>. QED  BY <2>1, <3>1, <3>2, JobAtAfter
  <2>5. CASE LexicalUpsert
    <3> DEFINE w == Append(job.written, Chunk)
    <3>1. /\ IF job.k < Len(ChunksOf[job.doc])
             THEN JobNow("vector", job.k + 1, w, job.todo)
             ELSE JobNow("grant", job.k, w, job.todo)
          /\ vector' = vector /\ lexical' = lexical \union {Chunk} /\ outcome' = outcome
          /\ job.pc = "lexical"
      BY <2>5, UpsertDoes DEF LexicalUpsert, Index
    <3>2. Range(w) \subseteq Chunks(job.doc) /\ IsPrefix(job.todo, w)
      BY <2>1, <2>2, AppendRange DEF JobAt
    <3> HIDE DEF w
    <3>3. \A j \in 1..job.k : j \in 1..(job.k - 1) \/ j = job.k
      BY <2>1
    <3>4. \A j \in 1..job.k : ChunksOf[job.doc][j] \in vector' \intersect lexical'
      BY <2>2, <2>3, <3>1, <3>3 DEF JobAt
    <3>5. CASE job.k < Len(ChunksOf[job.doc])
      <4>1. job.k + 1 \in 1..Len(ChunksOf[job.doc]) /\ (job.k + 1) - 1 = job.k
        BY <2>1, <2>3, <3>5
      <4>2. JobAt(job.doc, "vector", job.k + 1, w, job.todo, vector', lexical')
        BY <3>2, <3>4, <4>1 DEF JobAt
      <4>3. JobNow("vector", job.k + 1, w, job.todo) /\ outcome'[job.doc].result = "running"
        BY <2>1, <3>1, <3>5
      <4>. QED  BY <4>2, <4>3, JobAtAfter
    <3>6. CASE ~(job.k < Len(ChunksOf[job.doc]))
      <4>1. job.k = Len(ChunksOf[job.doc]) /\ job.k \in 1..Len(ChunksOf[job.doc])
        BY <2>1, <2>2, <2>3, <3>6 DEF JobAt
      <4>2. Chunks(job.doc) \subseteq vector' \intersect lexical'
        BY <2>1, <3>4, <4>1, ChunkPositions
      <4>3. JobAt(job.doc, "grant", job.k, w, job.todo, vector', lexical')
        BY <3>2, <4>1, <4>2 DEF JobAt
      <4>4. JobNow("grant", job.k, w, job.todo) /\ outcome'[job.doc].result = "running"
        BY <2>1, <3>1, <3>6
      <4>. QED  BY <4>3, <4>4, JobAtAfter
    <3>. QED  BY <3>5, <3>6
  <2>6. CASE VectorUpsertFails \/ LexicalUpsertFails
    <3>1. /\ JobNow("delete_vector", job.k, job.written, job.written)
          /\ OutcomeNow(job.doc, [outcome[job.doc] EXCEPT !.failing = @ \union {Chunk}])
      BY <2>0, <2>6, UpsertFailsDoes DEF VectorUpsertFails, LexicalUpsertFails
    <3>2. outcome'[job.doc].result = "running"
      BY <2>1, <3>1 DEF OutcomeNow, Outcome
    <3>3. IsPrefix(job.written, job.written)
      BY <2>1, EmptyRange
    <3>4. JobAt(job.doc, "delete_vector", job.k, job.written, job.written, vector', lexical')
      BY <2>2, <3>3 DEF JobAt
    <3>. QED  BY <3>1, <3>2, <3>4, JobAtAfter
  <2>7. CASE DeleteVector
    <3>1. /\ JobNow("delete_lexical", job.k, job.written, job.todo) /\ job.todo # << >>
          /\ vector' = vector \ {Last(job.todo)} /\ outcome' = outcome
      BY <2>7, DeleteDoes DEF DeleteVector
    <3>2. JobAt(job.doc, "delete_lexical", job.k, job.written, job.todo, vector', lexical')
      BY <2>2, <3>1 DEF JobAt
    <3>. QED  BY <2>1, <3>1, <3>2, JobAtAfter
  <2>8. CASE DeleteLexical \/ DeleteLexicalMisses
    <3>1. JobNow("delete_vector", job.k, job.written, Front(job.todo)) /\ job.todo # << >>
      BY <2>8, DeleteDoes
    <3>2. IsPrefix(Front(job.todo), job.written)
      BY <2>1, <2>2, <3>1, FrontLast DEF JobAt
    <3>3. JobAt(job.doc, "delete_vector", job.k, job.written, Front(job.todo),
                vector', lexical')
      BY <2>2, <3>2 DEF JobAt
    <3>4. outcome'[job.doc].result = "running"
      BY <2>1, <2>8, DeleteDoes DEF DeleteLexical, OutcomeNow, Outcome
    <3>. QED  BY <3>1, <3>3, <3>4, JobAtAfter
  <2>9. CASE DeleteFails
    <3>1. CASE job' = NoJob
      BY <3>1, NoJobAfter
    <3>2. CASE job' # NoJob
      <4>1. /\ JobNow("vector", 1, job.written, job.todo)
            /\ OutcomeNow(job.doc, [outcome[job.doc] EXCEPT !.broken = TRUE])
        BY <2>9, <3>2, DeleteFailsDoes
      <4>2. outcome'[job.doc].result = "running"
        BY <2>1, <4>1 DEF OutcomeNow, Outcome
      <4>3. JobAt(job.doc, "vector", 1, job.written, job.todo, vector', lexical')
        BY <2>2, <2>3 DEF JobAt
      <4>. QED  BY <4>1, <4>2, <4>3, JobAtAfter
    <3>. QED  BY <3>1, <3>2
  <2>10. CASE RolledBack
    <3>1. CASE job' = NoJob
      BY <3>1, NoJobAfter
    <3>2. CASE job' # NoJob
      <4>1. JobNow("vector", 1, << >>, << >>) /\ outcome' = outcome
        BY <2>10, <3>2, RolledBackDoes
      <4>2. Range(<< >>) = {} /\ IsPrefix(<< >>, << >>)
        BY EmptyRange
      <4>3. JobAt(job.doc, "vector", 1, << >>, << >>, vector', lexical')
        BY <2>3, <4>2 DEF JobAt
      <4>. QED  BY <2>1, <4>1, <4>3, JobAtAfter
    <3>. QED  BY <3>1, <3>2
  <2>. QED  BY <1>2, <2>4, <2>5, <2>6, <2>7, <2>8, <2>9, <2>10 DEF IndexStep
<1>. QED  BY <1>1, <1>2

\* Every step keeps what is said of the upload in progress.
LEMMA JobStep ==
    ASSUME Shape, StoresHeld, JobInv, [Next]_vars
    PROVE  JobInv'
<1>1. CASE IndexStep
  BY <1>1, JobIndexStep
<1>2. CASE Grant \/ Crash
  BY <1>2, NoJobAfter DEF Grant, Crash
<1>3. CASE GrantFails
  <2>1. job.pc = "grant" /\ job.pc \in JobSteps
    BY <1>3 DEF GrantFails, JobSteps
  <2>2. /\ job # NoJob /\ job.written \in Seq(AllChunks)
        /\ outcome[job.doc].result = "running"
    BY <2>1, Uploading
  <2>3. JobAt(job.doc, job.pc, job.k, job.written, job.todo, vector, lexical)
    BY <2>2, JobAtBefore
  <2>4. UNCHANGED <<vector, lexical, outcome>>
    BY <1>3 DEF GrantFails, indexes, elastic
  <2>5. CASE JobNow("grant", job.k, job.written, job.todo)
    <3>1. JobAt(job.doc, "grant", job.k, job.written, job.todo, vector', lexical')
      BY <2>1, <2>3, <2>4
    <3>. QED  BY <2>2, <2>4, <2>5, <3>1, JobAtAfter
  <2>6. CASE JobNow("delete_vector", job.k, job.written, job.written)
    <3>1. IsPrefix(job.written, job.written)
      BY <2>2, EmptyRange
    <3>2. JobAt(job.doc, "delete_vector", job.k, job.written, job.written, vector', lexical')
      BY <2>3, <3>1 DEF JobAt
    <3>. QED  BY <2>2, <2>4, <2>6, <3>2, JobAtAfter
  <2>. QED  BY <1>3, <2>5, <2>6, GrantFailsDoes
<1>4. CASE EnsureStep \/ Refresh \/ UNCHANGED vars
  <2>1. UNCHANGED <<vector, lexical, job, outcome>>
    BY <1>4, EnsureFrame, RefreshFrame DEF vars
  <2>. QED  BY <2>1 DEF JobInv, Chunk
<1>. QED  BY <1>1, <1>2, <1>3, <1>4, StepKinds

\* What DualWrite says of d.
Indexed(d) ==
    /\ outcome[d].result = "ok" => Chunks(d) \subseteq vector \intersect lexical
    /\ outcome[d].result = "failed" /\ ~outcome[d].replaced /\ ~outcome[d].broken =>
           LeftOnly(d, {})

\* The indexes hold of d what they held before.
SameIndexes(d) == \A x \in Chunks(d) : (x \in vector' <=> x \in vector)
                                       /\ (x \in lexical' <=> x \in lexical)

\* A document whose outcome and index entries stay, and whose upload, if any, is
\* not the one in progress, is accounted for as before.
LEMMA DocStill ==
    ASSUME NEW d \in Docs, Accounted(d), Indexed(d), SameIndexes(d),
           outcome'[d] = outcome[d], job' = NoJob \/ job'.doc # d
    PROVE  Accounted(d)' /\ Indexed(d)'
<1>1. /\ (vector \intersect Chunks(d))' = vector \intersect Chunks(d)
      /\ (lexical \intersect Chunks(d))' = lexical \intersect Chunks(d)
  BY DEF SameIndexes
<1>2. LeftOnly(d, {}) => LeftOnly(d, {})'
  BY <1>1 DEF LeftOnly
<1>3. ((vector \union lexical) \intersect Chunks(d))' = (vector \union lexical) \intersect Chunks(d)
  BY DEF SameIndexes
<1>. QED  BY <1>2, <1>3 DEF Accounted, Indexed, SameIndexes

\* The chunk in progress and the chunks to delete are no other document's.
LEMMA OtherDocs ==
    ASSUME Shape, JobInv, job # NoJob, NEW d \in Docs, d # job.doc, NEW x \in Chunks(job.doc),
           vector' \in {vector, vector \union {x}, vector \ {x}},
           lexical' \in {lexical, lexical \union {x}, lexical \ {x}}
    PROVE  SameIndexes(d)
<1>1. job.doc \in Docs
  BY JobIs DEF Job
<1>2. x \notin Chunks(d)
  BY <1>1, IngestionAssumption
<1>. QED  BY <1>2 DEF SameIndexes

\* What a step on the indexes does to the entries of the document in progress.
LEMMA IndexEntries ==
    ASSUME Shape, StoresHeld, JobInv, IndexStep, ~IngestFile
    PROVE  /\ job # NoJob /\ job.pc \in JobSteps
           /\ \E x \in Chunks(job.doc) :
                  /\ vector' \in {vector, vector \union {x}, vector \ {x}}
                  /\ lexical' \in {lexical, lexical \union {x}, lexical \ {x}}
<1>1. job.pc \in JobSteps
  BY UploadStep
<1>2. job # NoJob /\ Chunk \in Chunks(job.doc)
  BY <1>1, Uploading
<1> DEFINE Touches(x) == /\ vector' \in {vector, vector \union {x}, vector \ {x}}
                         /\ lexical' \in {lexical, lexical \union {x}, lexical \ {x}}
<1>3. CASE DeleteVector \/ DeleteLexical \/ DeleteFails
  <2>1. job.todo # << >>
    BY <1>3, DeleteDoes DEF DeleteFails
  <2>2. Last(job.todo) \in Chunks(job.doc)
    BY <1>2, <2>1, TodoOwned
  <2>3. Touches(Last(job.todo))
    BY <1>3 DEF DeleteVector, DeleteLexical, DeleteFails, DeleteByQuery, indexes, elastic
  <2>. QED  BY <1>1, <1>2, <2>2, <2>3
<1>4. CASE ~(DeleteVector \/ DeleteLexical \/ DeleteFails)
  <2>1. Touches(Chunk)
    BY <1>4 DEF IndexStep, VectorUpsert, VectorUpsertFails, LexicalUpsert,
          LexicalUpsertFails, DeleteLexicalMisses, RolledBack, Index, indexes, elastic
  <2>. QED  BY <1>1, <1>2, <2>1
<1>. QED  BY <1>3, <1>4

\* Known, read like JobAt.
KnownAt(d, pc, k, written, todo) ==
    IF pc \in {"delete_vector", "delete_lexical"} THEN Range(todo)
    ELSE Range(written) \union (IF pc = "lexical" THEN {ChunksOf[d][k]} ELSE {})

\* Before a step.
LEMMA KnownBefore ==
    ASSUME NEW d \in Docs, Accounted(d), job # NoJob, job.doc = d,
           ~outcome[d].replaced, ~outcome[d].broken
    PROVE  LeftOnly(d, KnownAt(d, job.pc, job.k, job.written, job.todo))
<1>1. Known = KnownAt(d, job.pc, job.k, job.written, job.todo)
  BY DEF Known, KnownAt, Deleting, Chunk
<1>. QED  BY <1>1 DEF Accounted

\* After a step: the document has at most these chunks in the indexes.
LeftNow(d, chunks) ==
    /\ vector' \intersect Chunks(d) \subseteq outcome'[d].failing \union chunks
    /\ lexical' \intersect Chunks(d)
           \subseteq outcome'[d].failing \union outcome'[d].missed \union chunks

\* The upload goes on.
LEMMA GoesOn ==
    ASSUME NEW pc, NEW k, NEW written, NEW todo, JobNow(pc, k, written, todo),
           NEW d \in Docs, d = job.doc, outcome'[d].result = "running",
           ~outcome'[d].replaced /\ ~outcome'[d].broken =>
               LeftNow(d, KnownAt(d, pc, k, written, todo))
    PROVE  Accounted(d)' /\ Indexed(d)'
<1>1. Known' = KnownAt(d, pc, k, written, todo)
  BY DEF JobNow, Known, KnownAt, Deleting, Chunk
<1>2. LeftNow(d, KnownAt(d, pc, k, written, todo)) => LeftOnly(d, Known)'
  BY <1>1 DEF LeftNow, LeftOnly
<1>. QED  BY <1>2 DEF Accounted, Indexed

\* The upload fails.
LEMMA EndsFailed ==
    ASSUME NEW d \in Docs, job' = NoJob, outcome'[d].result = "failed",
           ~outcome'[d].replaced /\ ~outcome'[d].broken => LeftNow(d, {})
    PROVE  Accounted(d)' /\ Indexed(d)'
<1>1. LeftNow(d, {}) => LeftOnly(d, {})'
  BY DEF LeftNow, LeftOnly
<1>. QED  BY <1>1 DEF Accounted, Indexed

\* A step on the indexes accounts for the chunks of the document in progress.
LEMMA OwnDoc ==
    ASSUME Shape, StoresHeld, JobInv, IndexStep, ~IngestFile, Accounted(job.doc)
    PROVE  \A d \in Docs : d = job.doc => Accounted(d)' /\ Indexed(d)'
<1> SUFFICES ASSUME NEW d \in Docs, d = job.doc PROVE Accounted(d)' /\ Indexed(d)'
  OBVIOUS
<1> DEFINE o == outcome[d]
           first == ~o.replaced /\ ~o.broken
           known == KnownAt(d, job.pc, job.k, job.written, job.todo)
<1>1. job # NoJob /\ job.pc \in JobSteps
  BY IndexEntries
<1>2. /\ job.written \in Seq(AllChunks) /\ job.todo \in Seq(AllChunks)
      /\ Chunk \in AllChunks /\ o \in Outcome /\ o.result = "running"
  BY <1>1, Uploading
<1>3. first => /\ vector \intersect Chunks(d) \subseteq o.failing \union known
               /\ lexical \intersect Chunks(d) \subseteq o.failing \union o.missed \union known
  BY <1>1, KnownBefore DEF LeftOnly
<1>4. Chunk = ChunksOf[d][job.k]
  BY DEF Chunk
<1>5. CASE VectorUpsert
  <2>1. /\ JobNow("lexical", job.k, job.written, job.todo) /\ outcome' = outcome
        /\ vector' = vector \union {Chunk} /\ lexical' = lexical /\ job.pc = "vector"
    BY <1>5, UpsertDoes DEF VectorUpsert, elastic
  <2>2. KnownAt(d, "lexical", job.k, job.written, job.todo) = known \union {Chunk}
    BY <1>4, <2>1 DEF KnownAt
  <2> HIDE DEF known
  <2>3. first => LeftNow(d, KnownAt(d, "lexical", job.k, job.written, job.todo))
    BY <1>3, <2>1, <2>2 DEF LeftNow
  <2>. QED  BY <1>2, <2>1, <2>3, GoesOn
<1>6. CASE LexicalUpsert
  <2> DEFINE w == Append(job.written, Chunk)
  <2>1. /\ \/ JobNow("vector", job.k + 1, w, job.todo)
           \/ JobNow("grant", job.k, w, job.todo)
        /\ outcome' = outcome /\ vector' = vector /\ lexical' = lexical \union {Chunk}
        /\ job.pc = "lexical"
    BY <1>6, UpsertDoes DEF LexicalUpsert, Index
  <2>2. Range(w) = Range(job.written) \union {Chunk}
    BY <1>2, AppendRange
  <2> HIDE DEF w
  <2>3. /\ KnownAt(d, "vector", job.k + 1, w, job.todo) = Range(w)
        /\ KnownAt(d, "grant", job.k, w, job.todo) = Range(w)
        /\ known = Range(job.written) \union {Chunk}
    BY <1>4, <2>1 DEF KnownAt
  <2> HIDE DEF known
  <2>4. first => LeftNow(d, Range(w))
    BY <1>3, <2>1, <2>2, <2>3 DEF LeftNow
  <2>5. CASE JobNow("vector", job.k + 1, w, job.todo)
    BY <1>2, <2>1, <2>3, <2>4, <2>5, GoesOn
  <2>6. CASE JobNow("grant", job.k, w, job.todo)
    BY <1>2, <2>1, <2>3, <2>4, <2>6, GoesOn
  <2>. QED  BY <2>1, <2>5, <2>6
<1>7. CASE VectorUpsertFails \/ LexicalUpsertFails
  <2>1. /\ JobNow("delete_vector", job.k, job.written, job.written)
        /\ OutcomeNow(d, [o EXCEPT !.failing = @ \union {Chunk}])
    BY <1>1, <1>7, UpsertFailsDoes DEF VectorUpsertFails, LexicalUpsertFails
  <2>2. /\ outcome'[d].failing = o.failing \union {Chunk} /\ outcome'[d].result = "running"
        /\ outcome'[d].replaced = o.replaced /\ outcome'[d].broken = o.broken
        /\ outcome'[d].missed = o.missed
    BY <1>2, <2>1 DEF OutcomeNow, Outcome
  <2>3. /\ vector' \subseteq vector \union {Chunk} /\ lexical' \subseteq lexical \union {Chunk}
        /\ job.pc \in {"vector", "lexical"}
    BY <1>7 DEF VectorUpsertFails, LexicalUpsertFails, Index, elastic
  <2>4. /\ KnownAt(d, "delete_vector", job.k, job.written, job.written) = Range(job.written)
        /\ known \subseteq Range(job.written) \union {Chunk}
    BY <1>4, <2>3 DEF KnownAt
  <2> HIDE DEF known
  <2>5. first => LeftNow(d, KnownAt(d, "delete_vector", job.k, job.written, job.written))
    BY <1>3, <2>2, <2>3, <2>4 DEF LeftNow
  <2>. QED  BY <2>1, <2>2, <2>5, GoesOn
<1>8. CASE DeleteVector
  <2>1. /\ JobNow("delete_lexical", job.k, job.written, job.todo) /\ outcome' = outcome
        /\ vector' = vector \ {Last(job.todo)} /\ lexical' = lexical
        /\ job.pc = "delete_vector"
    BY <1>8, DeleteDoes DEF DeleteVector, elastic
  <2>2. KnownAt(d, "delete_lexical", job.k, job.written, job.todo) = known
    BY <2>1 DEF KnownAt
  <2> HIDE DEF known
  <2>3. first => LeftNow(d, KnownAt(d, "delete_lexical", job.k, job.written, job.todo))
    BY <1>3, <2>1, <2>2 DEF LeftNow
  <2>. QED  BY <1>2, <2>1, <2>3, GoesOn
<1>9. CASE DeleteLexical \/ DeleteLexicalMisses
  <2> DEFINE f == Front(job.todo)
             x == Last(job.todo)
  <2>1. /\ JobNow("delete_vector", job.k, job.written, f) /\ job.todo # << >>
        /\ vector' = vector /\ job.pc = "delete_lexical"
    BY <1>9, DeleteDoes DEF DeleteLexical, DeleteLexicalMisses, indexes
  <2>2. x \notin vector
    BY <1>1, <2>1 DEF JobInv
  <2>3. Range(job.todo) = Range(f) \union {x}
    BY <1>2, <2>1, FrontLast
  <2>4. /\ outcome'[d].failing = o.failing /\ outcome'[d].result = "running"
        /\ outcome'[d].replaced = o.replaced /\ outcome'[d].broken = o.broken
        /\ \/ outcome'[d].missed = o.missed /\ lexical' = lexical \ {x}
           \/ outcome'[d].missed = o.missed \union {x} /\ lexical' = lexical
    <3>1. CASE DeleteLexical
      BY <1>2, <3>1 DEF DeleteLexical, DeleteByQuery
    <3>2. CASE DeleteLexicalMisses
      <4>1. OutcomeNow(d, [o EXCEPT !.missed = @ \union {x}]) /\ lexical' = lexical
        BY <3>2, DeleteDoes DEF DeleteLexicalMisses, indexes, elastic
      <4>. QED  BY <1>2, <4>1 DEF OutcomeNow, Outcome
    <3>. QED  BY <1>9, <3>1, <3>2
  <2>5. /\ KnownAt(d, "delete_vector", job.k, job.written, f) = Range(f)
        /\ known = Range(job.todo)
    BY <2>1 DEF KnownAt
  <2> HIDE DEF f, x, known
  <2>6. first => LeftNow(d, KnownAt(d, "delete_vector", job.k, job.written, f))
    BY <1>3, <2>1, <2>2, <2>3, <2>4, <2>5 DEF LeftNow
  <2>. QED  BY <2>1, <2>4, <2>6, GoesOn
<1>10. CASE DeleteFails
  <2>1. CASE job' = NoJob
    <3>1. OutcomeNow(d, [o EXCEPT !.result = "failed", !.broken = TRUE])
      BY <1>10, <2>1, DeleteFailsDoes DEF JobNow, NoJob, Job
    <3>2. outcome'[d].result = "failed" /\ outcome'[d].broken
      BY <1>2, <3>1 DEF OutcomeNow, Outcome
    <3>. QED  BY <2>1, <3>2, EndsFailed
  <2>2. CASE job' # NoJob
    <3>1. /\ JobNow("vector", 1, job.written, job.todo)
          /\ OutcomeNow(d, [o EXCEPT !.broken = TRUE])
      BY <1>10, <2>2, DeleteFailsDoes
    <3>2. outcome'[d].result = "running" /\ outcome'[d].broken
      BY <1>2, <3>1 DEF OutcomeNow, Outcome
    <3>. QED  BY <3>1, <3>2, GoesOn
  <2>. QED  BY <2>1, <2>2
<1>11. CASE RolledBack
  <2>1. /\ job.todo = << >> /\ job.pc = "delete_vector"
        /\ vector' = vector /\ lexical' = lexical
    BY <1>11 DEF RolledBack, indexes, elastic
  <2>2. known = {}
    BY <2>1, EmptyRange DEF KnownAt
  <2>3. KnownAt(d, "vector", 1, << >>, << >>) = {}
    BY EmptyRange DEF KnownAt
  <2> HIDE DEF known
  <2>4. CASE job' = NoJob
    <3>1. OutcomeNow(d, [o EXCEPT !.result = "failed"])
      BY <1>11, <2>4, RolledBackDoes DEF JobNow, NoJob, Job
    <3>2. /\ outcome'[d].result = "failed" /\ outcome'[d].failing = o.failing
          /\ outcome'[d].replaced = o.replaced /\ outcome'[d].broken = o.broken
          /\ outcome'[d].missed = o.missed
      BY <1>2, <3>1 DEF OutcomeNow, Outcome
    <3>3. first => LeftNow(d, {})
      BY <1>3, <2>1, <2>2, <3>2 DEF LeftNow
    <3>. QED  BY <2>4, <3>2, <3>3, EndsFailed
  <2>5. CASE job' # NoJob
    <3>1. JobNow("vector", 1, << >>, << >>) /\ outcome' = outcome
      BY <1>11, <2>5, RolledBackDoes
    <3>2. first => LeftNow(d, KnownAt(d, "vector", 1, << >>, << >>))
      BY <1>3, <2>1, <2>2, <2>3, <3>1 DEF LeftNow
    <3>. QED  BY <1>2, <3>1, <3>2, GoesOn
  <2>. QED  BY <2>4, <2>5
<1>. QED  BY <1>5, <1>6, <1>7, <1>8, <1>9, <1>10, <1>11 DEF IndexStep

\* Every step accounts for the chunks of every document.
LEMMA DocsStep ==
    ASSUME Shape, StoresHeld, JobInv, \A d \in Docs : Accounted(d) /\ Indexed(d), [Next]_vars
    PROVE  \A d \in Docs : Accounted(d)' /\ Indexed(d)'
<1> SUFFICES ASSUME NEW d \in Docs PROVE Accounted(d)' /\ Indexed(d)'
  OBVIOUS
<1>0. Accounted(d) /\ Indexed(d) /\ outcome[d] \in Outcome
  BY DEF Shape
<1>1. CASE IngestFile
  <2>1. PICK c \in Docs, tags \in SUBSET Tags :
            /\ job' \in Job /\ job'.doc = c /\ job'.pc = "vector"
            /\ OutcomeNow(c, [Fresh EXCEPT !.result = "running", !.tags = tags,
                                 !.replaced = outcome[c].result # "none"])
            /\ outcome'[c].result = "running"
            /\ outcome'[c].replaced = (outcome[c].result # "none")
    BY <1>1, IngestFileDoes
  <2>2. vector' = vector /\ lexical' = lexical
    BY <1>1 DEF IngestFile, indexes, elastic
  <2>3. CASE c # d
    BY <1>0, <2>1, <2>2, <2>3, DocStill DEF OutcomeNow, SameIndexes
  <2>4. CASE c = d
    <3>1. /\ outcome'[d].result = "running"
          /\ outcome'[d].replaced = (outcome[d].result # "none")
      BY <2>1, <2>4
    <3>2. outcome[d].result = "none" => LeftOnly(d, Known)'
      BY <1>0, <2>2 DEF Accounted, LeftOnly
    <3>. QED  BY <3>1, <3>2 DEF Accounted, Indexed
  <2>. QED  BY <2>3, <2>4
<1>2. CASE IndexStep /\ ~IngestFile
  <2>1. job # NoJob /\ job.pc \in JobSteps
    BY <1>2, IndexEntries
  <2>2. CASE d = job.doc
    BY <1>0, <1>2, <2>2, OwnDoc
  <2>3. CASE d # job.doc
    <3>1. SameIndexes(d)
      BY <1>2, <2>1, <2>3, IndexEntries, OtherDocs
    <3>2. outcome'[d] = outcome[d] /\ (job' = NoJob \/ job'.doc # d)
      BY <1>2, <2>1, <2>3, UpsertDoes, UpsertFailsDoes, DeleteDoes, DeleteFailsDoes,
         RolledBackDoes
         DEF IndexStep, JobNow, OutcomeNow, VectorUpsert, LexicalUpsert, VectorUpsertFails,
             LexicalUpsertFails, DeleteVector, DeleteLexical, DeleteLexicalMisses
    <3>. QED  BY <1>0, <3>1, <3>2, DocStill
  <2>. QED  BY <2>2, <2>3
<1>3. CASE Grant
  <2>1. job # NoJob /\ job.pc = "grant" /\ vector' = vector /\ lexical' = lexical
    BY <1>3, JobThere DEF Grant, indexes, elastic
  <2>2. PICK a \in Answers : job' = NoJob /\
            OutcomeNow(job.doc, [outcome[job.doc] EXCEPT !.result = "ok",
                                    !.answer = a, !.store = auth.store])
    BY <1>3, GrantDoes
  <2>3. CASE d = job.doc
    <3>1. outcome'[d].result = "ok"
      BY <1>0, <2>2, <2>3 DEF OutcomeNow, Outcome
    <3>2. Chunks(d) \subseteq vector' \intersect lexical'
      BY <2>1, <2>3 DEF JobInv
    <3>. QED  BY <2>2, <3>1, <3>2 DEF Accounted, Indexed
  <2>4. CASE d # job.doc
    BY <1>0, <2>1, <2>2, <2>4, DocStill DEF OutcomeNow, SameIndexes
  <2>. QED  BY <2>3, <2>4
<1>4. CASE GrantFails
  <2>1. /\ job # NoJob /\ job.pc = "grant" /\ vector' = vector /\ lexical' = lexical
        /\ outcome' = outcome
    BY <1>4, JobThere DEF GrantFails, indexes, elastic
  <2>2. \/ JobNow("grant", job.k, job.written, job.todo)
        \/ JobNow("delete_vector", job.k, job.written, job.written)
    BY <1>4, GrantFailsDoes
  <2>3. CASE d = job.doc
    <3>1. outcome[d].result = "running"
      BY <2>1, <2>3 DEF JobInv
    <3>2. /\ KnownAt(d, job.pc, job.k, job.written, job.todo) = Range(job.written)
          /\ KnownAt(d, "grant", job.k, job.written, job.todo) = Range(job.written)
          /\ KnownAt(d, "delete_vector", job.k, job.written, job.written) = Range(job.written)
      BY <2>1 DEF KnownAt
    <3>3. ~outcome[d].replaced /\ ~outcome[d].broken => LeftOnly(d, Range(job.written))
      BY <1>0, <2>1, <2>3, <3>1, <3>2, KnownBefore
    <3>6. ~outcome[d].replaced /\ ~outcome[d].broken => LeftNow(d, Range(job.written))
      BY <2>1, <3>3 DEF LeftOnly, LeftNow
    <3>4. CASE JobNow("grant", job.k, job.written, job.todo)
      BY <2>1, <2>3, <3>1, <3>2, <3>6, <3>4, GoesOn
    <3>5. CASE JobNow("delete_vector", job.k, job.written, job.written)
      BY <2>1, <2>3, <3>1, <3>2, <3>6, <3>5, GoesOn
    <3>. QED  BY <2>2, <3>4, <3>5
  <2>4. CASE d # job.doc
    BY <1>0, <2>1, <2>2, <2>4, DocStill DEF JobNow, SameIndexes
  <2>. QED  BY <2>3, <2>4
<1>5. CASE Crash
  <2>1. vector' = vector /\ lexical' = lexical /\ job' = NoJob
    BY <1>5 DEF Crash, indexes, elastic
  <2>2. CASE outcome[d].result = "running"
    <3>1. outcome'[d].result = "crashed"
      BY <1>0, <1>5, <2>2 DEF Crash, Outcome
    <3>. QED  BY <2>1, <3>1 DEF Accounted, Indexed
  <2>3. CASE outcome[d].result # "running"
    <3>1. outcome'[d] = outcome[d]
      BY <1>5, <2>3 DEF Crash
    <3>. QED  BY <1>0, <2>1, <3>1, DocStill DEF SameIndexes
  <2>. QED  BY <2>2, <2>3
<1>6. CASE EnsureStep \/ Refresh \/ UNCHANGED vars
  <2>1. UNCHANGED <<vector, lexical, job, outcome>>
    BY <1>6, EnsureFrame, RefreshFrame DEF vars
  <2>2. Known' = Known
    BY <2>1 DEF Known, Deleting, Chunk
  <2>. QED  BY <1>0, <2>1, <2>2 DEF Accounted, Indexed, LeftOnly
<1>. QED  BY <1>1, <1>2, <1>3, <1>4, <1>5, <1>6, StepKinds

-----------------------------------------------------------------------------
(* Grants *)

\* What GrantsLand says of d, and that the store of its grant exists.
Landed(d) ==
    /\ outcome[d].result = "ok" => outcome[d].store \in 1..Len(stores)
    /\ outcome[d].result = "ok" /\ ~outcome[d].replaced
       /\ outcome[d].answer # "no authorization model" =>
           Tuples(d, outcome[d].tags) \subseteq stores[outcome[d].store].tuples

\* The grants of d are those there were, in the stores there were.
SameGrants(d) ==
    \A s \in 1..Len(stores'), tag \in Tags :
        <<d, tag>> \in stores'[s].tuples =>
            s \in 1..Len(stores) /\ <<d, tag>> \in stores[s].tuples

\* A document that got no grant and whose outcome stays is granted as before.
LEMMA GrantsStill ==
    ASSUME NEW d \in Docs, \A s \in 1..Len(stores) : Granted(d, s), Landed(d),
           Kept, SameGrants(d), outcome'[d] = outcome[d],
           \/ job' = NoJob \/ job'.doc # d
           \/ job # NoJob /\ job'.doc = job.doc
    PROVE  (\A s \in 1..Len(stores') : Granted(d, s)') /\ Landed(d)'
<1>1. ASSUME NEW s \in 1..Len(stores') PROVE Granted(d, s)'
  <2> DEFINE new == {tag \in Tags : <<d, tag>> \in stores'[s].tuples}
             old == {tag \in Tags : <<d, tag>> \in stores[s].tuples}
  <2>1. CASE s \in 1..Len(stores)
    <3>1. new = old
      BY <2>1 DEF SameGrants, Kept
    <3>. QED  BY <2>1, <3>1 DEF Granted
  <2>2. CASE s \notin 1..Len(stores)
    <3>1. new = {}
      BY <2>2 DEF SameGrants
    <3>. QED  BY <3>1 DEF Granted
  <2>. QED  BY <2>1, <2>2
<1>2. Landed(d)'
  BY DEF Landed, Kept
<1>. QED  BY <1>1, <1>2

\* The document in progress, when its upload goes on or fails and it got no grant.
LEMMA GrantsOwn ==
    ASSUME NEW d \in Docs, \A s \in 1..Len(stores) : Granted(d, s), Kept, SameGrants(d),
           job # NoJob, job.doc = d, outcome'[d].result \in {"running", "failed"},
           outcome'[d].tags = outcome[d].tags, outcome'[d].replaced = outcome[d].replaced
    PROVE  (\A s \in 1..Len(stores') : Granted(d, s)') /\ Landed(d)'
<1>1. ASSUME NEW s \in 1..Len(stores') PROVE Granted(d, s)'
  <2> DEFINE new == {tag \in Tags : <<d, tag>> \in stores'[s].tuples}
             old == {tag \in Tags : <<d, tag>> \in stores[s].tuples}
  <2>1. CASE s \in 1..Len(stores)
    <3>1. new = old
      BY <2>1 DEF SameGrants, Kept
    <3>. QED  BY <2>1, <3>1 DEF Granted
  <2>2. CASE s \notin 1..Len(stores)
    <3>1. new = {}
      BY <2>2 DEF SameGrants
    <3>. QED  BY <3>1 DEF Granted
  <2>. QED  BY <2>1, <2>2
<1>. QED  BY <1>1 DEF Landed

\* Stores that stay bring no grants, nor do steps of ensure.
LEMMA NoGrants ==
    ASSUME NEW d \in Docs, stores' = stores \/ Grew
    PROVE  SameGrants(d)
<1>1. CASE stores' = stores
  BY <1>1 DEF SameGrants
<1>2. CASE Grew
  <2>1. \A tag \in Tags : <<d, tag>> # Memberships
    BY IngestionAssumption
  <2>. QED  BY <1>2, <2>1 DEF SameGrants, Grew
<1>. QED  BY <1>1, <1>2

\* A grant of the document in progress is no other document's.
LEMMA OthersGrant ==
    ASSUME NEW d \in Docs, NEW c, c # d, NEW tags, Wrote(Tuples(c, tags))
    PROVE  SameGrants(d)
<1>1. \A tag \in Tags : <<d, tag>> \notin Tuples(c, tags)
  BY DEF Tuples
<1>. QED  BY <1>1 DEF SameGrants, Wrote

\* A step on the indexes keeps the outcome's tags and brings no success.
LEMMA IndexOutcome ==
    ASSUME Shape, StoresHeld, JobInv, IndexStep, ~IngestFile
    PROVE  /\ job # NoJob /\ job.doc \in Docs
           /\ \A d \in Docs : d # job.doc => outcome'[d] = outcome[d]
           /\ job' = NoJob \/ job'.doc = job.doc
           /\ outcome'[job.doc].result \in {"running", "failed"}
           /\ outcome'[job.doc].tags = outcome[job.doc].tags
           /\ outcome'[job.doc].replaced = outcome[job.doc].replaced
<1>1. job.pc \in JobSteps
  BY IndexEntries
<1>2. /\ job # NoJob /\ job.doc \in Docs
      /\ outcome[job.doc] \in Outcome /\ outcome[job.doc].result = "running"
  BY <1>1, Uploading
<1> DEFINE o == outcome[job.doc]
<1>3. /\ \A d \in Docs : d # job.doc => outcome'[d] = outcome[d]
      /\ job' = NoJob \/ job'.doc = job.doc
  BY <1>1, UpsertDoes, UpsertFailsDoes, DeleteDoes, DeleteFailsDoes, RolledBackDoes
     DEF IndexStep, JobNow, OutcomeNow, VectorUpsert, LexicalUpsert, VectorUpsertFails,
         LexicalUpsertFails, DeleteVector, DeleteLexical, DeleteLexicalMisses
<1>4. outcome'[job.doc] \in {o, [o EXCEPT !.failing = @ \union {Chunk}],
                             [o EXCEPT !.missed = @ \union {Last(job.todo)}],
                             [o EXCEPT !.result = "failed", !.broken = TRUE],
                             [o EXCEPT !.broken = TRUE], [o EXCEPT !.result = "failed"]}
  BY <1>1, UpsertFailsDoes, DeleteDoes, DeleteFailsDoes, RolledBackDoes
     DEF IndexStep, OutcomeNow, VectorUpsert, LexicalUpsert, VectorUpsertFails,
         LexicalUpsertFails, DeleteVector, DeleteLexical, DeleteLexicalMisses
<1>5. /\ outcome'[job.doc].result \in {"running", "failed"}
      /\ outcome'[job.doc].tags = o.tags /\ outcome'[job.doc].replaced = o.replaced
  BY <1>2, <1>4 DEF Outcome
<1>. QED  BY <1>2, <1>3, <1>5

\* Every step keeps the grants of every document all or nothing, and landed.
LEMMA GrantsStep ==
    ASSUME Shape, StoresHeld, JobInv, [Next]_vars,
           \A d \in Docs : (\A s \in 1..Len(stores) : Granted(d, s)) /\ Landed(d)
    PROVE  \A d \in Docs : (\A s \in 1..Len(stores') : Granted(d, s)') /\ Landed(d)'
<1> SUFFICES ASSUME NEW d \in Docs
             PROVE  (\A s \in 1..Len(stores') : Granted(d, s)') /\ Landed(d)'
  OBVIOUS
<1>0. Kept /\ (\A s \in 1..Len(stores) : Granted(d, s)) /\ Landed(d)
  BY BaseStep
<1>a. outcome[d] \in Outcome
  BY DEF Shape
<1>1. CASE IngestFile
  <2>1. PICK c \in Docs, tags \in SUBSET Tags :
            /\ job = NoJob /\ job' \in Job /\ job'.doc = c
            /\ OutcomeNow(c, [Fresh EXCEPT !.result = "running", !.tags = tags,
                                 !.replaced = outcome[c].result # "none"])
            /\ outcome'[c].result = "running"
            /\ outcome'[c].replaced = (outcome[c].result # "none")
    BY <1>1, IngestFileDoes
  <2>2. stores' = stores
    BY <1>1, IndexFrame DEF IndexStep
  <2>3. CASE c # d
    BY <1>0, <2>1, <2>2, <2>3, NoGrants, GrantsStill DEF OutcomeNow
  <2>4. CASE c = d
    <3>1. /\ outcome'[d].result = "running"
          /\ outcome'[d].replaced = (outcome[d].result # "none")
      BY <2>1, <2>4
    <3>. QED  BY <1>0, <2>2, <3>1 DEF Granted, Landed
  <2>. QED  BY <2>3, <2>4
<1>2. CASE IndexStep /\ ~IngestFile
  <2>1. /\ job # NoJob /\ (d # job.doc => outcome'[d] = outcome[d])
        /\ job' = NoJob \/ job'.doc = job.doc
        /\ outcome'[job.doc].result \in {"running", "failed"}
        /\ outcome'[job.doc].tags = outcome[job.doc].tags
        /\ outcome'[job.doc].replaced = outcome[job.doc].replaced
    BY <1>2, IndexOutcome
  <2>2. SameGrants(d)
    BY <1>2, IndexFrame, NoGrants
  <2>3. CASE d = job.doc
    BY <1>0, <2>1, <2>2, <2>3, GrantsOwn
  <2>4. CASE d # job.doc
    BY <1>0, <2>1, <2>2, <2>4, GrantsStill
  <2>. QED  BY <2>3, <2>4
<1>3. CASE Grant
  <2> DEFINE T == Tuples(job.doc, outcome[job.doc].tags)
             s0 == auth.store
  <2>1. job # NoJob /\ s0 \in 1..Len(stores)
    BY <1>3, Uploading DEF Grant, JobSteps
  <2>2. PICK a \in Answers :
            /\ OutcomeNow(job.doc, [outcome[job.doc] EXCEPT !.result = "ok",
                                       !.answer = a, !.store = s0])
            /\ a = "written" => T \subseteq stores'[s0].tuples
            /\ a = "already" => T \intersect stores[s0].tuples # {}
            /\ a # "none"
    BY <1>3, GrantDoes
  <2>3. job' = NoJob /\ Wrote(T)
    BY <1>3, GrantDoes
  <2>4. CASE d # job.doc
    <3>1. SameGrants(d)
      BY <2>3, <2>4, OthersGrant
    <3>. QED  BY <1>0, <2>2, <2>3, <2>4, <3>1, GrantsStill DEF OutcomeNow
  <2>5. CASE d = job.doc
    <3>1. /\ outcome'[d].result = "ok" /\ outcome'[d].store = s0 /\ outcome'[d].answer = a
          /\ outcome'[d].tags = outcome[d].tags /\ outcome'[d].replaced = outcome[d].replaced
      BY <1>a, <2>2, <2>5 DEF OutcomeNow, Outcome
    <3>2. \A s \in 1..Len(stores') : Granted(d, s)'
      BY <2>3, <3>1 DEF Granted
    <3>3. s0 \in 1..Len(stores') /\ stores[s0].tuples \subseteq stores'[s0].tuples
      BY <1>0, <2>1 DEF Kept
    <3>4. ASSUME ~outcome[d].replaced, a = "already" PROVE T \subseteq stores'[s0].tuples
      <4>1. PICK tag \in outcome[d].tags : <<d, tag>> \in stores[s0].tuples
        BY <2>2, <2>5, <3>4 DEF Tuples
      <4>2. tag \in Tags
        BY <1>a DEF Outcome
      <4>3. \A t \in outcome[d].tags : <<d, t>> \in stores[s0].tuples
        BY <1>0, <2>1, <2>5, <3>4, <4>1, <4>2 DEF Granted
      <4>. QED  BY <2>5, <3>3, <4>3 DEF Tuples
    <3>5. a \in {"written", "already", "no authorization model"}
      BY <2>2 DEF Answers, Tolerated
    <3>6. ~outcome[d].replaced /\ a # "no authorization model" => T \subseteq stores'[s0].tuples
      BY <2>2, <3>4, <3>5
    <3>7. Landed(d)'
      BY <2>5, <3>1, <3>3, <3>6 DEF Landed
    <3>. QED  BY <3>2, <3>7
  <2>. QED  BY <2>4, <2>5
<1>4. CASE GrantFails
  <2> DEFINE T == Tuples(job.doc, outcome[job.doc].tags)
             s0 == auth.store
  <2>1. /\ job # NoJob /\ s0 \in 1..Len(stores) /\ outcome[job.doc].result = "running"
    BY <1>4, Uploading DEF GrantFails, JobSteps
  <2>2. Wrote(T) /\ job'.doc = job.doc /\ outcome' = outcome
    BY <1>4, GrantFailsDoes DEF JobNow, GrantFails
  <2>3. CASE d # job.doc
    <3>1. SameGrants(d)
      BY <2>2, <2>3, OthersGrant
    <3>. QED  BY <1>0, <2>1, <2>2, <2>3, <3>1, GrantsStill
  <2>4. CASE d = job.doc
    <3>1. ASSUME NEW s \in 1..Len(stores') PROVE Granted(d, s)'
      <4>1. s \in 1..Len(stores)
        BY <2>2, <3>1 DEF Wrote
      <4>2. CASE stores'[s].tuples = stores[s].tuples
        BY <1>0, <2>1, <2>2, <2>4, <4>1, <4>2 DEF Granted
      <4>3. CASE T \subseteq stores'[s].tuples
        <5>1. outcome[d].tags \subseteq Tags
          BY <1>a DEF Outcome
        <5>2. \A t \in outcome[d].tags : t \in {tag \in Tags : <<d, tag>> \in stores'[s].tuples}
          BY <2>4, <4>3, <5>1 DEF Tuples
        <5>. QED  BY <2>1, <2>2, <2>4, <5>2 DEF Granted
      <4>. QED  BY <2>2, <4>1, <4>2, <4>3 DEF Wrote
    <3>2. Landed(d)'
      BY <2>1, <2>2, <2>4 DEF Landed
    <3>. QED  BY <3>1, <3>2
  <2>. QED  BY <2>3, <2>4
<1>5. CASE Crash
  <2>1. stores' = stores /\ job' = NoJob
    BY <1>5 DEF Crash
  <2>2. CASE outcome[d].result = "running"
    <3>1. outcome'[d].result = "crashed"
      BY <1>a, <1>5, <2>2 DEF Crash, Outcome
    <3>. QED  BY <2>1, <3>1 DEF Granted, Landed
  <2>3. CASE outcome[d].result # "running"
    <3>1. outcome'[d] = outcome[d]
      BY <1>5, <2>3 DEF Crash
    <3>. QED  BY <1>0, <2>1, <3>1, NoGrants, GrantsStill
  <2>. QED  BY <2>2, <2>3
<1>6. CASE EnsureStep \/ Refresh \/ UNCHANGED vars
  <2>1. job' = job /\ outcome' = outcome
    BY <1>6, EnsureFrame, RefreshFrame DEF vars
  <2>2. SameGrants(d)
    BY <1>6, EnsureTyping, RefreshFrame, NoGrants DEF vars
  <2>. QED  BY <1>0, <2>1, <2>2, GrantsStill
<1>. QED  BY <1>1, <1>2, <1>3, <1>4, <1>5, <1>6, StepKinds

-----------------------------------------------------------------------------
(* The invariant *)

\* Shape, held stores and JobInv give the types that the runs check.
LEMMA TypesHold ==
    ASSUME Shape, StoresHeld, JobInv
    PROVE  TypeOK
<1>1. /\ vector \subseteq AllChunks /\ lexical \subseteq AllChunks /\ stores \in Seq(Store)
      /\ outdated \subseteq searchable /\ searchable \ outdated \subseteq lexical
      /\ auth \in Ensure /\ pods \in [Pods -> PodEnsure]
  BY DEF Shape
<1>2. job = NoJob \/ /\ job.doc \in Docs
                     /\ job.k \in 1..Len(ChunksOf[job.doc])
                     /\ job.attempt \in 1..Attempts
                     /\ Range(job.written) \subseteq Chunks(job.doc)
                     /\ IsPrefix(job.todo, job.written)
  BY DEF Shape, Job, JobInv
<1>3. Len(stores) \in Nat /\ DOMAIN stores = 1..Len(stores)
  BY <1>1, LenProperties
<1>4. \A k \in DOMAIN stores : stores[k].model \in {"none", "old", "current"}
  <2>1. \A k \in 1..Len(stores) : stores[k] \in Store
    BY <1>1, ElementOfSeq
  <2>. QED  BY <1>3, <2>1 DEF Store
<1>5. auth.pc \in Steps /\ auth.store \in 0..Len(stores)
  BY <1>1, <1>3 DEF Ensure, StoresHeld
<1>6. \A p \in Pods : pods[p].pc \in Steps /\ pods[p].store \in 0..Len(stores)
  BY <1>1, <1>3 DEF PodEnsure, StoresHeld
<1>. QED  BY <1>1, <1>2, <1>4, <1>5, <1>6 DEF TypeOK, AllChunks

\* The parts of IngestionInv, each kept by a lemma of its own.
Parts ==
    /\ Shape /\ StoresHeld /\ Seeded /\ JobInv
    /\ \A d \in Docs : Accounted(d) /\ Indexed(d)
    /\ \A d \in Docs : (\A s \in 1..Len(stores) : Granted(d, s)) /\ Landed(d)

\* They are equivalent to it.
LEMMA InvParts == IngestionInv <=> Parts
<1>1. ASSUME IngestionInv
      PROVE  /\ Shape /\ StoresHeld /\ Seeded /\ JobInv
             /\ \A d \in Docs : Accounted(d) /\ Indexed(d)
             /\ \A d \in Docs : (\A s \in 1..Len(stores) : Granted(d, s)) /\ Landed(d)
  <2>1. \A d \in Docs : Indexed(d)
    BY <1>1 DEF IngestionInv, DualWrite, Indexed, LeftOnly
  <2>2. \A d \in Docs : Landed(d)
    BY <1>1 DEF IngestionInv, GrantsLand, Landed
  <2>. QED  BY <1>1, <2>1, <2>2 DEF IngestionInv
<1>2. ASSUME Shape, StoresHeld, Seeded, JobInv,
             \A d \in Docs : Accounted(d) /\ Indexed(d),
             \A d \in Docs : (\A s \in 1..Len(stores) : Granted(d, s)) /\ Landed(d)
      PROVE  IngestionInv
  <2>1. DualWrite
    BY <1>2, TypesHold DEF DualWrite, Indexed, LeftOnly
  <2>2. GrantsLand
    BY <1>2 DEF GrantsLand, Landed
  <2>3. \A d \in Docs : outcome[d].result = "ok" => outcome[d].store \in 1..Len(stores)
    BY <1>2 DEF Landed
  <2>. QED  BY <1>2, <2>1, <2>2, <2>3 DEF IngestionInv
<1>. QED  BY <1>1, <1>2 DEF Parts

\* Initially nothing is indexed or granted, and nobody holds a store.
LEMMA InvInit == Init => IngestionInv
<1> SUFFICES ASSUME Init PROVE IngestionInv
  OBVIOUS
<1> DEFINE old == [model |-> "old", tuples |-> {Memberships}]
<1>1. old \in Store /\ old.model = "old" /\ old.tuples = {Memberships}
  BY DEF Store
<1>b. stores \in {<< >>, <<old>>}
  BY DEF Init
<1> HIDE DEF old
<1>2. stores \in Seq(Store) /\ Len(stores) \in Nat
  <2>1. << >> \in Seq(Store)
    OBVIOUS
  <2>2. <<old>> \in Seq(Store)
    BY <1>1
  <2>3. stores \in Seq(Store)
    BY <1>b, <2>1, <2>2
  <2>. QED  BY <2>3, LenProperties
<1>3. [ready |-> FALSE, pc |-> "list", store |-> 0] \in Ensure /\ NotReady \in PodEnsure
  BY DEF Ensure, PodEnsure, NotReady, Steps
<1>4. Fresh \in Outcome
  BY DEF Fresh, Outcome, Answers
<1>5. Shape
  BY <1>2, <1>3, <1>4 DEF Init, Shape
<1>6. StoresHeld
  BY <1>2 DEF Init, StoresHeld, NotReady
<1>7. \A s \in 1..Len(stores) : stores[s].model = "old" /\ stores[s].tuples = {Memberships}
  <2>1. CASE stores = << >>
    BY <2>1
  <2>2. CASE stores = <<old>>
    BY <1>1, <2>2
  <2>. QED  BY <1>b, <2>1, <2>2
<1>8. Seeded
  BY <1>7 DEF Seeded, HasFolder
<1>9. JobInv
  BY DEF Init, JobInv
<1>10. \A d \in Docs : outcome[d].result = "none"
  BY DEF Init, Fresh
<1>11. \A d \in Docs : Accounted(d) /\ Indexed(d)
  BY <1>10 DEF Init, Accounted, Indexed
<1>12. ASSUME NEW d \in Docs
       PROVE  (\A s \in 1..Len(stores) : Granted(d, s)) /\ Landed(d)
  <2>1. \A tag \in Tags : <<d, tag>> # Memberships
    BY IngestionAssumption
  <2>2. \A s \in 1..Len(stores) : {tag \in Tags : <<d, tag>> \in stores[s].tuples} = {}
    BY <1>7, <2>1
  <2>3. job = NoJob
    BY DEF Init
  <2>. QED  BY <1>10, <2>2, <2>3 DEF Granted, Landed
<1>. QED  BY <1>5, <1>6, <1>8, <1>9, <1>11, <1>12, InvParts DEF Parts

\* Every step keeps the invariant.
LEMMA InvStep == IngestionInv /\ [Next]_vars => IngestionInv'
<1>1. ASSUME Parts, [Next]_vars PROVE Parts'
  <2>1. /\ Shape /\ StoresHeld /\ Seeded /\ JobInv
        /\ \A d \in Docs : Accounted(d) /\ Indexed(d)
        /\ \A d \in Docs : (\A s \in 1..Len(stores) : Granted(d, s)) /\ Landed(d)
    BY <1>1 DEF Parts
  <2>2. Shape' /\ StoresHeld'
    BY <1>1, <2>1, BaseStep
  <2>3. Seeded' /\ JobInv'
    BY <1>1, <2>1, SeededStep, JobStep
  <2>4. \A d \in Docs : Accounted(d)' /\ Indexed(d)'
    BY <1>1, <2>1, DocsStep
  <2>5. \A d \in Docs : (\A s \in 1..Len(stores') : Granted(d, s)') /\ Landed(d)'
    BY <1>1, <2>1, GrantsStep
  <2>. QED  BY <2>2, <2>3, <2>4, <2>5 DEF Parts
<1>. QED  BY <1>1, InvParts, PTL

\* IngestionInv holds in every reachable state: the types of indexes, uploads,
\* outcomes and stores, who holds which store, what an upload has done so far, which
\* chunks it still knows of, and the all-or-nothing grants of a first upload.
THEOREM IngestionInvariant == Spec => []IngestionInv
BY InvInit, InvStep, PTL DEF Spec

\* However uploads fail, retry and roll back and whenever the process dies, a
\* successful upload is whole in both indexes and a failed first upload with an
\* undisturbed rollback leaves only the chunks at which it failed and, in
\* Elasticsearch, those that the rollback's search did not find yet.
THEOREM DualWriteHolds == Spec => []DualWrite
<1>1. IngestionInv => DualWrite
  BY DEF IngestionInv
<1>. QED  BY <1>1, IngestionInvariant, PTL

\* Whatever replies of OpenFGA are lost, the grants of a successful first upload are
\* in the store it was written to, unless that store had no model.
THEOREM GrantsLandHolds == Spec => []GrantsLand
<1>1. IngestionInv => GrantsLand
  BY DEF IngestionInv
<1>. QED  BY <1>1, IngestionInvariant, PTL

\* However the ensures of both services interleave and fail, a ready runtime has the
\* current model in the store that listings show first or in one it created; if it wrote
\* the model it has the memberships, otherwise it has them unless the ensure that wrote
\* the model failed, or still is, before them.
THEOREM ReadyStoreHolds == Spec => []ReadyStore
<1>1. IngestionInv => ReadyStore
  BY SeededReady DEF IngestionInv
<1>. QED  BY <1>1, IngestionInvariant, PTL

=============================================================================
