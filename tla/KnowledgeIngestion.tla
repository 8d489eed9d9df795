------------------------- MODULE KnowledgeIngestion -------------------------
(***************************************************************************)
(* The versions of one knowledge document: uploads that queue a job, a     *)
(* Celery transport that loses and repeats tasks, workers that embed the   *)
(* text outside any transaction, and activations that lock the version's   *)
(* row and then the document's.  One step per transaction, per wait for a  *)
(* row inside one, or per event of the transport.  Every version has one   *)
(* job, so both bear its name; what an upload of a version with another    *)
(* text gets is a refusal that changes nothing.                            *)
(*                                                                         *)
(* Source: src/verbaops/knowledge/repository.py, service.py, tasks.py and  *)
(* the admin routes.                                                       *)
(***************************************************************************)
EXTENDS Naturals, FiniteSets

CONSTANTS
    Versions,
    Workers,      \* Celery worker processes
    Uploaders,    \* handlers of the upload route
    Activators,   \* handlers of the activation route
    MaxTasks,     \* bound on the tasks of a job that are in the queue
    NoVersion

ASSUME IngestionAssumption == MaxTasks \in Nat /\ NoVersion \notin Versions

VARIABLES
    version,      \* status of each knowledge_versions row
    job,          \* status of its knowledge_ingestion_jobs row
    attempts,     \* attempt_count of the job
    chunked,      \* versions whose knowledge_chunks are stored
    tasks,        \* deliveries of each job's task still in the queue
    upload,       \* the queued job an upload handler is about to publish
    worker,       \* what each worker does
    activation    \* the rows each activation holds

ingestionVars == <<version, job, attempts, chunked, tasks, upload, worker, activation>>

Settled == {"ready", "active", "superseded"}
Idle == [at |-> "idle", v |-> NoVersion]
At(label, v) == [at |-> label, v |-> v]

IngestionTypeOK ==
    /\ version \in [Versions -> {"none", "processing", "failed", "quarantined"} \cup Settled]
    /\ job \in [Versions -> {"none", "queued", "processing", "succeeded", "failed", "quarantined"}]
    /\ attempts \in [Versions -> Nat]
    /\ chunked \subseteq Versions
    /\ tasks \in [Versions -> 0 .. MaxTasks]
    /\ upload \in [Uploaders -> Versions \cup {NoVersion}]
    /\ worker \in [Workers -> {Idle} \cup
         [at : {"embedding", "storing", "failing"}, v : Versions]]
    /\ activation \in [Activators -> {Idle} \cup [at : {"version", "document"}, v : Versions]]

IngestionInit ==
    /\ version = [v \in Versions |-> "none"]
    /\ job = [v \in Versions |-> "none"]
    /\ attempts = [v \in Versions |-> 0]
    /\ chunked = {}
    /\ tasks = [v \in Versions |-> 0]
    /\ upload = [u \in Uploaders |-> NoVersion]
    /\ worker = [w \in Workers |-> Idle]
    /\ activation = [a \in Activators |-> Idle]

Active == {v \in Versions : version[v] = "active"}

\* The activations that hold the row of v.
Holders(v) == {a \in Activators : activation[a].v = v}

-----------------------------------------------------------------------------
(* Uploads.                                                                *)

\* queue_upload: a new version is queued or quarantined.
CreateVersion(u, v) ==
    /\ upload[u] = NoVersion
    /\ version[v] = "none"
    /\ \/ /\ version' = [version EXCEPT ![v] = "processing"]
          /\ job' = [job EXCEPT ![v] = "queued"]
          /\ upload' = [upload EXCEPT ![u] = v]
       \/ /\ version' = [version EXCEPT ![v] = "quarantined"]
          /\ job' = [job EXCEPT ![v] = "quarantined"]
          /\ UNCHANGED upload
    /\ UNCHANGED <<attempts, chunked, tasks, worker, activation>>

\* The same text again: the row is as it is, and a queued job is published again.
UploadAgain(u, v) ==
    /\ upload[u] = NoVersion
    /\ job[v] = "queued"
    /\ upload' = [upload EXCEPT ![u] = v]
    /\ UNCHANGED <<version, job, attempts, chunked, tasks, worker, activation>>

\* enqueue_knowledge_job, after the commit: the broker may be out of reach or
\* the handler die, and by now the job may be past queued.
Publish(u) ==
    /\ upload[u] # NoVersion
    /\ \/ tasks[upload[u]] < MaxTasks /\ tasks' = [tasks EXCEPT ![upload[u]] = @ + 1]
       \/ UNCHANGED tasks
    /\ upload' = [upload EXCEPT ![u] = NoVersion]
    /\ UNCHANGED <<version, job, attempts, chunked, worker, activation>>

-----------------------------------------------------------------------------
(* Workers: process_job.                                                   *)

\* Faulty variant: a job that is already processing is claimed as well.
Claimable_Processing(v) == job[v] \in {"queued", "processing"}

Claimable(v) == job[v] = "queued"

\* mark_processing: a task is acknowledged when it is taken; the broker may
\* still hand it out again.
TakeTask(w, v) ==
    /\ worker[w] = Idle
    /\ tasks[v] > 0
    /\ tasks' = [tasks EXCEPT ![v] = @ - 1] \/ UNCHANGED tasks
    /\ IF Claimable(v)
       THEN /\ job' = [job EXCEPT ![v] = "processing"]
            /\ attempts' = [attempts EXCEPT ![v] = @ + 1]
            /\ worker' = [worker EXCEPT ![w] = At("embedding", v)]
       ELSE UNCHANGED <<job, attempts, worker>>
    /\ UNCHANGED <<version, chunked, upload, activation>>

\* Parsing, chunking and the call of the embedding service.
Embed(w) ==
    /\ worker[w].at = "embedding"
    /\ \E label \in {"storing", "failing"} : worker' = [worker EXCEPT ![w].at = label]
    /\ UNCHANGED <<version, job, attempts, chunked, tasks, upload, activation>>

\* store_ready_chunks; a commit may be applied although the worker sees an
\* error, and one that is not applied leaves the job processing.
Store(w) ==
    LET v == worker[w].v IN
    /\ worker[w].at = "storing"
    /\ Holders(v) = {}
    /\ \/ /\ job[v] = "processing"
          /\ chunked' = chunked \cup {v}
          /\ version' = [version EXCEPT ![v] = IF @ = "processing" THEN "ready" ELSE @]
          /\ job' = [job EXCEPT ![v] = "succeeded"]
       \/ UNCHANGED <<version, job, chunked>>
    /\ \/ worker' = [worker EXCEPT ![w].at = "failing"]
       \/ worker' = [worker EXCEPT ![w] = Idle] /\ job'[v] # "processing"
    /\ UNCHANGED <<attempts, tasks, upload, activation>>

\* Faulty variant: a job that succeeded after all is undone.
MarkFailed_Unchecked(w) ==
    LET v == worker[w].v IN
    /\ worker[w].at = "failing"
    /\ Holders(v) = {}
    /\ chunked' = chunked \ {v}
    /\ version' = [version EXCEPT ![v] = IF @ = "processing" THEN "failed" ELSE @]
    /\ job' = [job EXCEPT ![v] = "failed"]
    /\ worker' = [worker EXCEPT ![w] = Idle]
    /\ UNCHANGED <<attempts, tasks, upload, activation>>

\* _fail: only a job that is still processing is failed; the database may be
\* out of reach here too, and then the job stays as it is.
MarkFailed(w) ==
    LET v == worker[w].v IN
    /\ worker[w].at = "failing"
    /\ Holders(v) = {}
    /\ \/ /\ job[v] = "processing"
          /\ chunked' = chunked \ {v}
          /\ version' = [version EXCEPT ![v] = IF @ = "processing" THEN "failed" ELSE @]
          /\ job' = [job EXCEPT ![v] = "failed"]
       \/ UNCHANGED <<version, job, chunked>>
    /\ worker' = [worker EXCEPT ![w] = Idle]
    /\ UNCHANGED <<attempts, tasks, upload, activation>>

WorkerDies(w) ==
    /\ worker[w] # Idle
    /\ worker' = [worker EXCEPT ![w] = Idle]
    /\ UNCHANGED <<version, job, attempts, chunked, tasks, upload, activation>>

-----------------------------------------------------------------------------
(* Activation.                                                             *)

\* load_version_for_tenant FOR UPDATE: the version's row, then the document's.
LockVersion(a, v) ==
    /\ activation[a] = Idle
    /\ version[v] # "none"
    /\ Holders(v) = {}
    /\ activation' = [activation EXCEPT ![a] = At("version", v)]
    /\ UNCHANGED <<version, job, attempts, chunked, tasks, upload, worker>>

LockDocument(a) ==
    /\ activation[a].at = "version"
    /\ \A b \in Activators : activation[b].at # "document"
    /\ activation' = [activation EXCEPT ![a].at = "document"]
    /\ UNCHANGED <<version, job, attempts, chunked, tasks, upload, worker>>

\* Already active, not ready, or not yet effective; a transaction that is the
\* victim of a deadlock or loses its connection ends the same way.
Release(a) ==
    /\ activation[a] # Idle
    /\ activation' = [activation EXCEPT ![a] = Idle]
    /\ UNCHANGED <<version, job, attempts, chunked, tasks, upload, worker>>

\* Faulty variant: the version that was active stays so.
Activated_KeepsOld(v) == [version EXCEPT ![v] = "active"]

\* activate_version: what is active is superseded.
Activated(v) ==
    [u \in Versions |-> IF u = v THEN "active"
                        ELSE IF u \in Active THEN "superseded" ELSE version[u]]

\* ensure_activation_allowed; the date is a refusal in Release.
Activatable(v) == version[v] = "ready"

\* The rows that are superseded are locked by their update: it waits for an
\* activation that holds one and is itself waiting for the document.
Activate(a) ==
    LET v == activation[a].v IN
    /\ activation[a].at = "document"
    /\ Activatable(v)
    /\ \A u \in Active : Holders(u) = {}
    /\ version' = Activated(v)
    /\ activation' = [activation EXCEPT ![a] = Idle]
    /\ UNCHANGED <<job, attempts, chunked, tasks, upload, worker>>

IngestionNext ==
    \/ \E u \in Uploaders :
          Publish(u) \/ \E v \in Versions : CreateVersion(u, v) \/ UploadAgain(u, v)
    \/ \E w \in Workers :
          \/ Embed(w) \/ Store(w) \/ MarkFailed(w) \/ WorkerDies(w)
          \/ \E v \in Versions : TakeTask(w, v)
    \/ \E a \in Activators :
          \/ LockDocument(a) \/ Release(a) \/ Activate(a)
          \/ \E v \in Versions : LockVersion(a, v)

-----------------------------------------------------------------------------
\* The job, its version, the stored chunks and the workers tell one story,
\* whatever tasks are repeated or lost and whatever commits are in doubt: a
\* job is claimed once and by one worker, it succeeded exactly if its version
\* can be or was served and has its chunks, and a failed one left none.
JobsMatchVersions ==
    /\ \A v \in Versions :
          /\ version[v] \in Settled <=> job[v] = "succeeded"
          /\ version[v] \in Settled <=> v \in chunked
          /\ job[v] = "failed" <=> version[v] = "failed"
          /\ attempts[v] = (IF job[v] \in {"none", "queued", "quarantined"} THEN 0 ELSE 1)
    /\ \A w, x \in Workers :
          worker[w].v = worker[x].v => w = x \/ worker[w] = Idle

OneActiveVersion == Cardinality(Active) <= 1

\* A document that was ever published has exactly one active version, what was
\* superseded is never served again, and what was ready keeps its chunks.
PublishedForGood ==
    [][/\ OneActiveVersion'
       /\ Active # {} => Active' # {}
       /\ \A v \in Versions :
             /\ version[v] = "superseded" => version'[v] = "superseded"
             /\ version[v] \in Settled => v \in chunked']_ingestionVars
=============================================================================
