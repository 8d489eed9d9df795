---------------------- MODULE KnowledgeIngestionProofs ----------------------
(***************************************************************************)
(* The theorems about the versions of a document while they are ingested,  *)
(* activated and searched: for any number of versions, workers, upload     *)
(* handlers, activations and queued tasks.  Queries and their fusion       *)
(* follow, for any finite set of chunks and any limits of the profile.     *)
(***************************************************************************)
EXTENDS KnowledgeRetrieval, TLAPS, FiniteSetTheorems, SequenceTheorems

-----------------------------------------------------------------------------
(* Each version's row, its job's row and its chunks.                       *)
VersionInv(v) ==
    /\ version[v] = "none" <=> job[v] = "none"
    /\ version[v] = "processing" <=> job[v] \in {"queued", "processing"}
    /\ version[v] = "quarantined" <=> job[v] = "quarantined"
    /\ version[v] = "failed" <=> job[v] = "failed"
    /\ version[v] \in Settled <=> job[v] = "succeeded"
    /\ version[v] \in Settled <=> v \in chunked
    /\ attempts[v] = (IF job[v] \in {"none", "queued", "quarantined"} THEN 0 ELSE 1)

VersionsInv == \A v \in Versions : VersionInv(v)

(* A worker is at work on a job that was claimed, and alone.               *)
WorkersInv ==
    /\ \A w \in Workers : worker[w].at \in {"embedding", "storing"} =>
          job[worker[w].v] = "processing"
    /\ \A w \in Workers : worker[w].at = "failing" =>
          job[worker[w].v] \in {"processing", "succeeded"}
    /\ \A w, x \in Workers :
          worker[w] # Idle /\ worker[w].v = worker[x].v => w = x

AtMostOneActive == \A u, v \in Active : u = v

IInv ==
    /\ IngestionTypeOK
    /\ VersionsInv
    /\ WorkersInv
    /\ AtMostOneActive

-----------------------------------------------------------------------------
LEMMA InitIInv == Init => IInv
  BY IngestionAssumption
  DEF Init, IngestionInit, IInv, IngestionTypeOK, Idle, Settled, VersionsInv, VersionInv,
      WorkersInv, AtMostOneActive, Active

(* A busy worker and an activation that holds rows have a version.         *)
LEMMA BusyHasVersion ==
  ASSUME IngestionTypeOK
  PROVE  /\ \A w \in Workers : worker[w] # Idle =>
              /\ worker[w] \in [at : {"embedding", "storing", "failing"}, v : Versions]
              /\ worker[w].v \in Versions /\ worker[w].at # "idle"
         /\ \A w \in Workers : worker[w].at # "idle" => worker[w] # Idle
         /\ \A a \in Activators : activation[a].at # "idle" =>
              /\ activation[a] \in [at : {"version", "document"}, v : Versions]
              /\ activation[a].v \in Versions
  BY DEF IngestionTypeOK, Idle

(* The steps that only move a handler, a task or a lock.                   *)
LEMMA MovesAreTyped ==
  ASSUME IngestionTypeOK
  PROVE  /\ \A u \in Uploaders, v \in Versions : UploadAgain(u, v) => IngestionTypeOK'
         /\ \A u \in Uploaders : Publish(u) => IngestionTypeOK'
         /\ \A w \in Workers : Embed(w) \/ WorkerDies(w) => IngestionTypeOK'
         /\ \A a \in Activators, v \in Versions : LockVersion(a, v) => IngestionTypeOK'
         /\ \A a \in Activators : LockDocument(a) \/ Release(a) => IngestionTypeOK'
<1> USE DEF IngestionTypeOK
<1>1. ASSUME NEW u \in Uploaders, NEW v \in Versions, UploadAgain(u, v) PROVE IngestionTypeOK'
  BY <1>1 DEF UploadAgain
<1>2. ASSUME NEW u \in Uploaders, Publish(u) PROVE IngestionTypeOK'
  <2>1. upload[u] \in Versions
    BY <1>2 DEF Publish
  <2>2. tasks' \in [Versions -> 0 .. MaxTasks]
    BY <1>2, <2>1, IngestionAssumption DEF Publish
  <2> QED BY <1>2, <2>2 DEF Publish
<1>3. ASSUME NEW w \in Workers, Embed(w) \/ WorkerDies(w) PROVE IngestionTypeOK'
  <2>1. CASE WorkerDies(w)
    BY <2>1 DEF WorkerDies
  <2>2. CASE Embed(w)
    <3>1. worker[w] \in [at : {"embedding", "storing", "failing"}, v : Versions]
      BY <2>2, BusyHasVersion DEF Embed
    <3>2. PICK label \in {"storing", "failing"} : worker' = [worker EXCEPT ![w].at = label]
      BY <2>2 DEF Embed
    <3>3. worker'[w] = [worker[w] EXCEPT !.at = label]
      BY <3>2
    <3>4. worker'[w] \in [at : {"embedding", "storing", "failing"}, v : Versions]
      BY <3>1, <3>3
    <3> QED BY <2>2, <3>2, <3>4 DEF Embed
  <2> QED BY <1>3, <2>1, <2>2
<1>4. ASSUME NEW a \in Activators, NEW v \in Versions, LockVersion(a, v) PROVE IngestionTypeOK'
  BY <1>4 DEF LockVersion, At
<1>5. ASSUME NEW a \in Activators, LockDocument(a) \/ Release(a) PROVE IngestionTypeOK'
  <2>1. CASE Release(a)
    BY <2>1 DEF Release
  <2>2. CASE LockDocument(a)
    <3>1. activation[a] \in [at : {"version", "document"}, v : Versions]
      BY <2>2, BusyHasVersion DEF LockDocument
    <3>2. activation' = [activation EXCEPT ![a].at = "document"]
      BY <2>2 DEF LockDocument
    <3>3. activation'[a] = [activation[a] EXCEPT !.at = "document"]
      BY <3>2
    <3>4. activation'[a] \in [at : {"version", "document"}, v : Versions]
      BY <3>1, <3>3
    <3> QED BY <2>2, <3>2, <3>4 DEF LockDocument
  <2> QED BY <1>5, <2>1, <2>2
<1> QED BY <1>1, <1>2, <1>3, <1>4, <1>5

-----------------------------------------------------------------------------
(* Moves leave the three rows of every version and what is active alone.   *)
RowsKept == UNCHANGED <<version, job, attempts, chunked>>

LEMMA RowsKeptKeeps ==
  ASSUME IInv, RowsKept
  PROVE  VersionsInv' /\ AtMostOneActive'
  BY DEF IInv, RowsKept, VersionsInv, VersionInv, AtMostOneActive, Active

LEMMA MovesKeep ==
  ASSUME IInv,
         \/ \E u \in Uploaders : Publish(u) \/ \E v \in Versions : UploadAgain(u, v)
         \/ \E w \in Workers : Embed(w) \/ WorkerDies(w)
         \/ \E a \in Activators :
               LockDocument(a) \/ Release(a) \/ \E v \in Versions : LockVersion(a, v)
  PROVE  IInv' /\ RowsKept
<1>1. IngestionTypeOK /\ WorkersInv
  BY DEF IInv
<1>2. RowsKept /\ job' = job
  BY DEF Publish, UploadAgain, Embed, WorkerDies, LockDocument, Release, LockVersion, RowsKept
<1>3. IngestionTypeOK'
  BY <1>1, MovesAreTyped
<1>4. ASSUME NEW w \in Workers, Embed(w) PROVE WorkersInv'
  <2>1. worker[w] \in [at : {"embedding", "storing", "failing"}, v : Versions]
    BY <1>1, <1>4, BusyHasVersion DEF Embed
  <2>2. PICK label \in {"storing", "failing"} : worker' = [worker EXCEPT ![w].at = label]
    BY <1>4 DEF Embed
  <2>3. worker'[w] = [worker[w] EXCEPT !.at = label]
    BY <1>1, <2>2 DEF IngestionTypeOK
  <2>4. worker'[w].at = label /\ worker'[w].v = worker[w].v
    BY <2>1, <2>3
  <2>5. \A x \in Workers \ {w} : worker'[x] = worker[x]
    BY <1>1, <2>2 DEF IngestionTypeOK
  <2>6. worker[w] # Idle /\ worker[w].at = "embedding"
    BY <1>4 DEF Embed, Idle
  <2> QED BY <1>1, <1>2, <2>4, <2>5, <2>6 DEF WorkersInv
<1>5. ASSUME NEW w \in Workers, WorkerDies(w) PROVE WorkersInv'
  <2>1. worker'[w] = Idle /\ \A x \in Workers \ {w} : worker'[x] = worker[x]
    BY <1>1, <1>5 DEF WorkerDies, IngestionTypeOK
  <2>2. \A x \in Workers : worker[x] # Idle => worker[x].v # NoVersion
    BY <1>1, BusyHasVersion, IngestionAssumption
  <2> QED BY <1>1, <1>2, <2>1, <2>2 DEF WorkersInv, Idle
<1>6. ASSUME worker' = worker PROVE WorkersInv'
  BY <1>1, <1>2, <1>6 DEF WorkersInv
<1>7. WorkersInv'
  BY <1>4, <1>5, <1>6 DEF Publish, UploadAgain, LockDocument, Release, LockVersion
<1> QED BY <1>2, <1>3, <1>7, RowsKeptKeeps DEF IInv

-----------------------------------------------------------------------------
(* The steps that change the rows.                                         *)
LEMMA CreateKeeps ==
  ASSUME IInv, NEW u \in Uploaders, NEW v \in Versions, CreateVersion(u, v)
  PROVE  IInv'
<1>1. IngestionTypeOK /\ VersionsInv /\ WorkersInv /\ AtMostOneActive /\ version[v] = "none"
  BY DEF IInv, CreateVersion
<1>2. \/ /\ version' = [version EXCEPT ![v] = "processing"]
         /\ job' = [job EXCEPT ![v] = "queued"]
      \/ /\ version' = [version EXCEPT ![v] = "quarantined"]
         /\ job' = [job EXCEPT ![v] = "quarantined"]
  BY DEF CreateVersion
<1>3. attempts' = attempts /\ chunked' = chunked /\ worker' = worker
  BY DEF CreateVersion
<1>4. IngestionTypeOK'
  BY <1>1 DEF IngestionTypeOK, CreateVersion
<1>5. job[v] = "none"
  BY <1>1 DEF VersionsInv, VersionInv
<1>6. VersionsInv'
  BY <1>1, <1>2, <1>3, <1>5 DEF IngestionTypeOK, VersionsInv, VersionInv, Settled
<1>7. \A x \in Versions \ {v} : job'[x] = job[x] /\ version'[x] = version[x]
  BY <1>1, <1>2 DEF IngestionTypeOK
<1>8. WorkersInv'
  <2>1. \A w \in Workers : worker[w].at \in {"embedding", "storing", "failing"} =>
           worker[w].v \in Versions \ {v}
    BY <1>1, <1>5, BusyHasVersion DEF WorkersInv
  <2> QED BY <1>1, <1>3, <1>7, <2>1 DEF WorkersInv
<1>9. AtMostOneActive'
  <2>1. Active' \subseteq Active
    BY <1>1, <1>2 DEF IngestionTypeOK, Active
  <2> QED BY <1>1, <2>1 DEF AtMostOneActive
<1> QED BY <1>4, <1>6, <1>8, <1>9 DEF IInv

LEMMA TakeKeeps ==
  ASSUME IInv, NEW w \in Workers, NEW v \in Versions, TakeTask(w, v)
  PROVE  IInv' /\ version' = version /\ chunked' = chunked
<1>1. IngestionTypeOK /\ VersionsInv /\ WorkersInv /\ AtMostOneActive
  BY DEF IInv
<1>2. version' = version /\ chunked' = chunked
  BY DEF TakeTask
<1>3. tasks' \in [Versions -> 0 .. MaxTasks]
  <2>1. tasks[v] \in 0 .. MaxTasks /\ tasks[v] > 0
    BY <1>1 DEF IngestionTypeOK, TakeTask
  <2>2. tasks[v] - 1 \in 0 .. MaxTasks
    BY <2>1, IngestionAssumption
  <2> QED BY <1>1, <2>2 DEF IngestionTypeOK, TakeTask
<1>4. AtMostOneActive'
  BY <1>1, <1>2 DEF AtMostOneActive, Active
<1>5. CASE UNCHANGED <<job, attempts, worker>>
  <2>1. IngestionTypeOK'
    BY <1>1, <1>3, <1>5 DEF IngestionTypeOK, TakeTask
  <2> QED BY <1>1, <1>2, <1>4, <1>5, <2>1 DEF IInv, VersionsInv, VersionInv, WorkersInv
<1>6. CASE /\ job[v] = "queued"
           /\ job' = [job EXCEPT ![v] = "processing"]
           /\ attempts' = [attempts EXCEPT ![v] = @ + 1]
           /\ worker' = [worker EXCEPT ![w] = At("embedding", v)]
  <2>1. IngestionTypeOK'
    BY <1>1, <1>3, <1>6 DEF IngestionTypeOK, TakeTask, At
  <2>2. VersionsInv'
    BY <1>1, <1>2, <1>6 DEF IngestionTypeOK, VersionsInv, VersionInv, Settled
  <2>3. /\ worker'[w].at = "embedding" /\ worker'[w].v = v /\ job'[v] = "processing"
        /\ \A x \in Workers \ {w} : worker'[x] = worker[x]
        /\ \A x \in Versions \ {v} : job'[x] = job[x]
    BY <1>1, <1>6 DEF IngestionTypeOK, At
  <2>4. \A x \in Workers : worker[x] # Idle =>
           worker[x].v \in Versions \ {v}
    <3>1. \A x \in Workers : worker[x] # Idle =>
             worker[x].at \in {"embedding", "storing", "failing"} /\ worker[x].v \in Versions
      BY <1>1, BusyHasVersion
    <3> QED BY <1>1, <1>6, <3>1 DEF WorkersInv
  <2>5. \A x \in Workers : worker[x] = Idle => worker[x].v # v
    BY IngestionAssumption DEF Idle
  <2>6. \A x \in Workers : worker[x].at # "idle" => worker[x] # Idle
    BY DEF Idle
  <2>7. WorkersInv'
    BY <1>1, <2>3, <2>4, <2>5, <2>6 DEF WorkersInv
  <2> QED BY <1>2, <1>4, <2>1, <2>2, <2>7 DEF IInv
<1> QED BY <1>5, <1>6 DEF TakeTask, Claimable

(* The end of a job: its rows are settled or failed together, by the only  *)
(* worker that has it.                                                     *)
JobEnds(v, status, outcome, chunks) ==
    /\ version' = [version EXCEPT ![v] = IF @ = "processing" THEN status ELSE @]
    /\ job' = [job EXCEPT ![v] = outcome]
    /\ chunked' = chunks

LEMMA JobEndKeepsRows ==
  ASSUME IInv, NEW v \in Versions, job[v] = "processing", attempts' = attempts,
         \/ JobEnds(v, "ready", "succeeded", chunked \cup {v})
         \/ JobEnds(v, "failed", "failed", chunked \ {v})
  PROVE  /\ VersionsInv' /\ AtMostOneActive' /\ Active' = Active
         /\ version' \in [Versions -> {"none", "processing", "failed", "quarantined"} \cup Settled]
         /\ job' \in [Versions -> {"none", "queued", "processing", "succeeded", "failed", "quarantined"}]
         /\ chunked' \subseteq Versions
         /\ \A x \in Versions \ {v} : job'[x] = job[x] /\ version'[x] = version[x]
         /\ job'[v] \in {"succeeded", "failed"} /\ version[v] = "processing"
<1>1. IngestionTypeOK /\ VersionsInv /\ AtMostOneActive /\ version[v] = "processing"
  BY DEF IInv, VersionsInv, VersionInv
<1>2. \A x \in Versions \ {v} : job'[x] = job[x] /\ version'[x] = version[x]
                                 /\ (x \in chunked' <=> x \in chunked)
  BY <1>1 DEF IngestionTypeOK, JobEnds
<1>3. \/ version'[v] = "ready" /\ job'[v] = "succeeded" /\ v \in chunked'
      \/ version'[v] = "failed" /\ job'[v] = "failed" /\ v \notin chunked'
  BY <1>1 DEF IngestionTypeOK, JobEnds
<1>4. VersionsInv'
  BY <1>1, <1>2, <1>3 DEF VersionsInv, VersionInv, Settled
<1>5. Active' = Active
  BY <1>1, <1>2, <1>3 DEF Active
<1>6. /\ version' \in [Versions -> {"none", "processing", "failed", "quarantined"} \cup Settled]
      /\ job' \in [Versions -> {"none", "queued", "processing", "succeeded", "failed", "quarantined"}]
      /\ chunked' \subseteq Versions
  BY <1>1 DEF IngestionTypeOK, JobEnds, Settled
<1> QED BY <1>1, <1>2, <1>3, <1>4, <1>5, <1>6 DEF AtMostOneActive

(* The worker that leaves its job, or stays with it to fail it.            *)
LEMMA WorkerLeaves ==
  ASSUME IngestionTypeOK, WorkersInv, NEW w \in Workers, worker[w].at \in {"storing", "failing"},
         worker' = [worker EXCEPT ![w].at = "failing"] \/ worker' = [worker EXCEPT ![w] = Idle],
         \A x \in Versions \ {worker[w].v} : job'[x] = job[x],
         worker'[w] # Idle => job'[worker[w].v] \in {"processing", "succeeded"}
  PROVE  /\ WorkersInv'
         /\ worker' \in [Workers -> {Idle} \cup [at : {"embedding", "storing", "failing"}, v : Versions]]
<1> DEFINE v == worker[w].v
<1>1. /\ worker[w] \in [at : {"embedding", "storing", "failing"}, v : Versions]
      /\ v \in Versions /\ worker[w] # Idle
  BY BusyHasVersion
<1>2. \A x \in Workers \ {w} : worker'[x] = worker[x]
  BY DEF IngestionTypeOK
<1>3. worker'[w] = Idle \/ worker'[w] = [worker[w] EXCEPT !.at = "failing"]
  BY DEF IngestionTypeOK
<1>4. worker'[w] = Idle \/ (worker'[w].at = "failing" /\ worker'[w].v = v /\ worker'[w] # Idle)
  BY <1>1, <1>3 DEF Idle
<1>5. \A x \in Workers \ {w} : worker[x] # Idle => worker[x].v \in Versions \ {v}
  BY <1>1, BusyHasVersion DEF WorkersInv
<1>6. \A x \in Workers : worker[x].at # "idle" => worker[x] # Idle
  BY DEF Idle
<1>7. \A x \in Workers \ {w} : worker[x] = Idle => worker[x].v \notin Versions
  BY IngestionAssumption DEF Idle
<1>8. worker'[w] = Idle => worker'[w].v \notin Versions /\ worker'[w].at = "idle"
  BY IngestionAssumption DEF Idle
<1>9. WorkersInv'
  <2>1. ASSUME NEW x \in Workers
        PROVE  /\ worker'[x].at \in {"embedding", "storing"} => job'[worker'[x].v] = "processing"
               /\ worker'[x].at = "failing" => job'[worker'[x].v] \in {"processing", "succeeded"}
    BY <1>2, <1>4, <1>5, <1>6, <1>8 DEF WorkersInv
  <2>2. ASSUME NEW x \in Workers, NEW y \in Workers,
               worker'[x] # Idle, worker'[x].v = worker'[y].v
        PROVE  x = y
    BY <1>1, <1>2, <1>4, <1>5, <1>7, <1>8, <2>2 DEF WorkersInv
  <2> QED BY <2>1, <2>2 DEF WorkersInv
<1>10. worker' \in [Workers -> {Idle} \cup [at : {"embedding", "storing", "failing"}, v : Versions]]
  <2>1. worker'[w] \in {Idle} \cup [at : {"embedding", "storing", "failing"}, v : Versions]
    BY <1>1, <1>3
  <2> QED BY <2>1 DEF IngestionTypeOK
<1> QED BY <1>9, <1>10

LEMMA StoreKeeps ==
  ASSUME IInv, NEW w \in Workers, Store(w)
  PROVE  IInv' /\ Active' = Active
         /\ \/ RowsKept
            \/ job[worker[w].v] = "processing"
               /\ JobEnds(worker[w].v, "ready", "succeeded", chunked \cup {worker[w].v})
<1> DEFINE v == worker[w].v
<1>1. IngestionTypeOK /\ WorkersInv /\ worker[w].at = "storing" /\ v \in Versions
  BY BusyHasVersion DEF IInv, Store
<1>2. job[v] = "processing"
  BY <1>1 DEF WorkersInv
<1>3. /\ upload' = upload /\ tasks' = tasks /\ activation' = activation /\ attempts' = attempts
      /\ worker' = [worker EXCEPT ![w].at = "failing"] \/ worker' = [worker EXCEPT ![w] = Idle]
  BY DEF Store
<1>4. CASE JobEnds(v, "ready", "succeeded", chunked \cup {v})
  <2>1. /\ VersionsInv' /\ AtMostOneActive' /\ Active' = Active
        /\ version' \in [Versions -> {"none", "processing", "failed", "quarantined"} \cup Settled]
        /\ job' \in [Versions -> {"none", "queued", "processing", "succeeded", "failed", "quarantined"}]
        /\ chunked' \subseteq Versions
        /\ \A x \in Versions \ {v} : job'[x] = job[x]
    BY <1>1, <1>2, <1>3, <1>4, JobEndKeepsRows
  <2>2. job'[v] = "succeeded"
    BY <1>1, <1>4 DEF JobEnds, IngestionTypeOK
  <2>3. /\ WorkersInv'
        /\ worker' \in [Workers -> {Idle} \cup [at : {"embedding", "storing", "failing"}, v : Versions]]
    BY <1>1, <1>3, <2>1, <2>2, WorkerLeaves
  <2>4. IngestionTypeOK'
    BY <1>1, <1>3, <2>1, <2>3 DEF IngestionTypeOK
  <2> QED BY <1>2, <1>4, <2>1, <2>3, <2>4 DEF IInv
<1>5. CASE UNCHANGED <<version, job, chunked>>
  <2>1. RowsKept /\ Active' = Active
    BY <1>3, <1>5 DEF RowsKept, Active
  <2>2. /\ WorkersInv'
        /\ worker' \in [Workers -> {Idle} \cup [at : {"embedding", "storing", "failing"}, v : Versions]]
    BY <1>1, <1>2, <1>3, <1>5, WorkerLeaves
  <2>3. IngestionTypeOK'
    BY <1>1, <1>3, <1>5, <2>2 DEF IngestionTypeOK
  <2> QED BY <2>1, <2>2, <2>3, RowsKeptKeeps DEF IInv
<1> QED BY <1>4, <1>5 DEF Store, JobEnds

LEMMA FailKeeps ==
  ASSUME IInv, NEW w \in Workers, MarkFailed(w)
  PROVE  IInv' /\ Active' = Active
         /\ \/ RowsKept
            \/ job[worker[w].v] = "processing"
               /\ JobEnds(worker[w].v, "failed", "failed", chunked \ {worker[w].v})
<1> DEFINE v == worker[w].v
<1>1. IngestionTypeOK /\ WorkersInv /\ worker[w].at = "failing" /\ v \in Versions
  BY BusyHasVersion DEF IInv, MarkFailed
<1>2. /\ upload' = upload /\ tasks' = tasks /\ activation' = activation /\ attempts' = attempts
      /\ worker' = [worker EXCEPT ![w] = Idle] /\ worker'[w] = Idle
  BY <1>1 DEF MarkFailed, IngestionTypeOK
<1>3. CASE job[v] = "processing" /\ JobEnds(v, "failed", "failed", chunked \ {v})
  <2>1. /\ VersionsInv' /\ AtMostOneActive' /\ Active' = Active
        /\ version' \in [Versions -> {"none", "processing", "failed", "quarantined"} \cup Settled]
        /\ job' \in [Versions -> {"none", "queued", "processing", "succeeded", "failed", "quarantined"}]
        /\ chunked' \subseteq Versions
        /\ \A x \in Versions \ {v} : job'[x] = job[x]
    BY <1>1, <1>2, <1>3, JobEndKeepsRows
  <2>2. /\ WorkersInv'
        /\ worker' \in [Workers -> {Idle} \cup [at : {"embedding", "storing", "failing"}, v : Versions]]
    BY <1>1, <1>2, <2>1, WorkerLeaves
  <2>3. IngestionTypeOK'
    BY <1>1, <1>2, <2>1, <2>2 DEF IngestionTypeOK
  <2> QED BY <1>3, <2>1, <2>2, <2>3 DEF IInv
<1>4. CASE UNCHANGED <<version, job, chunked>>
  <2>1. RowsKept /\ Active' = Active
    BY <1>2, <1>4 DEF RowsKept, Active
  <2>2. /\ WorkersInv'
        /\ worker' \in [Workers -> {Idle} \cup [at : {"embedding", "storing", "failing"}, v : Versions]]
    BY <1>1, <1>2, <1>4, WorkerLeaves
  <2>3. IngestionTypeOK'
    BY <1>1, <1>2, <1>4, <2>2 DEF IngestionTypeOK
  <2> QED BY <2>1, <2>2, <2>3, RowsKeptKeeps DEF IInv
<1> QED BY <1>3, <1>4 DEF MarkFailed, JobEnds

(* An activation makes one version active and supersedes what was.         *)
LEMMA ActivateEffect ==
  ASSUME IInv, NEW a \in Activators, Activate(a)
  PROVE  /\ IInv' /\ Active' = {activation[a].v}
         /\ chunked' = chunked
         /\ \A u \in Versions :
               /\ version[u] = "superseded" => version'[u] = "superseded"
               /\ version[u] \in Settled <=> version'[u] \in Settled
<1> DEFINE v == activation[a].v
<1>1. IngestionTypeOK /\ VersionsInv /\ WorkersInv /\ AtMostOneActive /\ v \in Versions
  BY BusyHasVersion DEF IInv, Activate
<1>2. /\ version[v] = "ready"
      /\ \A u \in Versions : version'[u] =
            IF u = v THEN "active" ELSE IF version[u] = "active" THEN "superseded" ELSE version[u]
  BY <1>1 DEF Activate, Activatable, Activated, Active
<1>3. job' = job /\ attempts' = attempts /\ chunked' = chunked /\ worker' = worker
  BY DEF Activate
<1>4. IngestionTypeOK'
  <2>1. version' \in [Versions -> {"none", "processing", "failed", "quarantined"} \cup Settled]
    BY <1>1 DEF IngestionTypeOK, Activate, Activated, Settled
  <2>2. activation' = [activation EXCEPT ![a] = Idle]
    BY DEF Activate
  <2> QED BY <1>1, <1>3, <2>1, <2>2 DEF IngestionTypeOK, Activate
<1>5. Active' = {v}
  BY <1>1, <1>2 DEF Active
<1>6. \A u \in Versions :
         /\ version[u] = "superseded" => version'[u] = "superseded"
         /\ version[u] \in Settled <=> version'[u] \in Settled
         /\ version'[u] \in Settled \/ version'[u] = version[u]
  BY <1>1, <1>2 DEF Settled
<1>7. VersionsInv'
  BY <1>1, <1>3, <1>6 DEF VersionsInv, VersionInv, Settled
<1>8. WorkersInv'
  BY <1>1, <1>3 DEF WorkersInv
<1> QED BY <1>3, <1>4, <1>5, <1>6, <1>7, <1>8 DEF IInv, AtMostOneActive

-----------------------------------------------------------------------------
(* Queries read the rows and change none of them.                          *)
LEMMA StepKeeps == IInv /\ [Next]_vars => IInv'
<1> SUFFICES ASSUME IInv, [Next]_vars PROVE IInv'
  OBVIOUS
<1>1. CASE UNCHANGED ingestionVars
  BY <1>1 DEF ingestionVars, IInv, IngestionTypeOK, VersionsInv, VersionInv, WorkersInv,
              AtMostOneActive, Active
<1>2. CASE IngestionNext
  BY <1>2, MovesKeep, CreateKeeps, TakeKeeps, StoreKeeps, FailKeeps, ActivateEffect
  DEF IngestionNext
<1> QED BY <1>1, <1>2 DEF Next, vars

(* The invariant holds of every reachable state.                           *)
THEOREM InvariantHolds == Spec => []IInv
  BY InitIInv, StepKeeps, PTL DEF Spec

(* Every row, task, worker and activation keeps its type.                  *)
THEOREM TypesHold == Spec => []IngestionTypeOK
<1>1. IInv => IngestionTypeOK
  BY DEF IInv
<1> QED BY <1>1, InvariantHolds, PTL

(* Only settled jobs have chunks, and one worker at a time is at a job.    *)
LEMMA InvJobsMatch == IInv => JobsMatchVersions
<1> SUFFICES ASSUME IInv PROVE JobsMatchVersions
  OBVIOUS
<1>1. \A v \in Versions :
         /\ version[v] \in Settled <=> job[v] = "succeeded"
         /\ version[v] \in Settled <=> v \in chunked
         /\ job[v] = "failed" <=> version[v] = "failed"
         /\ attempts[v] = (IF job[v] \in {"none", "queued", "quarantined"} THEN 0 ELSE 1)
  BY DEF IInv, VersionsInv, VersionInv
<1>2. \A w, x \in Workers : worker[w].v = worker[x].v => w = x \/ worker[w] = Idle
  BY DEF IInv, WorkersInv
<1> QED BY <1>1, <1>2 DEF JobsMatchVersions

(* Jobs, versions, chunks and workers agree, whatever tasks are repeated   *)
(* or lost and whatever commits are in doubt.                              *)
THEOREM JobsAgreeWithVersions == Spec => []JobsMatchVersions
  BY InvariantHolds, InvJobsMatch, PTL

(* What a step may not take back from a published document.                *)
StaysPublished ==
    /\ OneActiveVersion'
    /\ Active # {} => Active' # {}
    /\ \A v \in Versions :
          /\ version[v] = "superseded" => version'[v] = "superseded"
          /\ version[v] \in Settled => v \in chunked'

LEMMA OneActive == IInv => OneActiveVersion
<1> SUFFICES ASSUME IInv PROVE OneActiveVersion
  OBVIOUS
<1>1. Active = {} \/ \E v : Active = {v}
  BY DEF IInv, AtMostOneActive
<1>2. Cardinality(Active) \in {0, 1}
  BY <1>1, FS_EmptySet, FS_Singleton
<1> QED BY <1>2 DEF OneActiveVersion

LEMMA OneActiveNext == IInv' => OneActiveVersion'
  BY OneActive, PTL

LEMMA StepStaysPublished ==
  ASSUME IInv, [Next]_vars
  PROVE  StaysPublished
<1>1. IngestionTypeOK /\ OneActiveVersion'
  BY StepKeeps, OneActiveNext DEF IInv
<1>2. \A v \in Versions : version[v] \in Settled <=> v \in chunked
  BY DEF IInv, VersionsInv, VersionInv
<1>3. ASSUME version' = version, chunked' = chunked PROVE StaysPublished
  BY <1>1, <1>2, <1>3 DEF StaysPublished, Active
<1>4. ASSUME RowsKept PROVE StaysPublished
  BY <1>3, <1>4 DEF RowsKept
<1>5. ASSUME NEW v \in Versions, job[v] = "processing", attempts' = attempts,
             \/ JobEnds(v, "ready", "succeeded", chunked \cup {v})
             \/ JobEnds(v, "failed", "failed", chunked \ {v})
      PROVE  StaysPublished
  <2>1. /\ Active' = Active /\ version[v] = "processing"
        /\ \A x \in Versions \ {v} : version'[x] = version[x]
    BY <1>5, JobEndKeepsRows
  <2>2. \A x \in Versions \ {v} : x \in chunked => x \in chunked'
    BY <1>5 DEF JobEnds
  <2> QED BY <1>1, <1>2, <2>1, <2>2 DEF StaysPublished, Settled
<1>6. ASSUME NEW u \in Uploaders, NEW v \in Versions, CreateVersion(u, v) PROVE StaysPublished
  <2>1. /\ version[v] = "none" /\ chunked' = chunked
        /\ \A x \in Versions \ {v} : version'[x] = version[x]
    BY <1>1, <1>6 DEF CreateVersion, IngestionTypeOK
  <2>2. Active \subseteq Active'
    BY <2>1 DEF Active
  <2> QED BY <1>1, <1>2, <2>1, <2>2 DEF StaysPublished
<1>7. ASSUME NEW w \in Workers, Store(w) \/ MarkFailed(w) PROVE StaysPublished
  <2>1. worker[w].v \in Versions /\ attempts' = attempts
    BY <1>1, <1>7, BusyHasVersion DEF Store, MarkFailed
  <2> QED BY <1>4, <1>5, <1>7, <2>1, StoreKeeps, FailKeeps
<1>8. ASSUME NEW a \in Activators, Activate(a) PROVE StaysPublished
  BY <1>1, <1>2, <1>8, ActivateEffect DEF StaysPublished
<1>9. CASE IngestionNext
  BY <1>3, <1>4, <1>6, <1>7, <1>8, <1>9, MovesKeep, TakeKeeps DEF IngestionNext
<1>10. CASE UNCHANGED ingestionVars
  BY <1>3, <1>10 DEF ingestionVars
<1> QED BY <1>9, <1>10 DEF Next, vars

(* A published document has exactly one active version for good, what was  *)
(* superseded is never served again and what was ready keeps its chunks.   *)
THEOREM PublicationIsForGood == Spec => PublishedForGood
<1>1. IInv /\ [Next]_vars =>
        [/\ OneActiveVersion'
         /\ Active # {} => Active' # {}
         /\ \A v \in Versions :
               /\ version[v] = "superseded" => version'[v] = "superseded"
               /\ version[v] \in Settled => v \in chunked']_ingestionVars
  BY StepStaysPublished DEF StaysPublished
<1> QED BY <1>1, InvariantHolds, PTL DEF Spec, PublishedForGood

-----------------------------------------------------------------------------
(* Fractions: a total preorder, to which addition is monotone.             *)
Fraction == Nat \X (Nat \ {0})

LEMMA ProductGrows ==
    ASSUME NEW a \in Nat, NEW b \in Nat, NEW c \in Nat
    PROVE  /\ a * b \in Nat
           /\ a <= b => a * c <= b * c
           /\ c > 0 => (a < b <=> a * c < b * c)
  OBVIOUS

LEMMA FractionTyped ==
    ASSUME NEW p \in Fraction
    PROVE  p[1] \in Nat /\ p[2] \in Nat /\ p[2] > 0
  BY DEF Fraction

LEMMA NotExceededIsTransitive ==
    ASSUME NEW p \in Fraction, NEW q \in Fraction, NEW r \in Fraction,
           ~Exceeds(p, q), ~Exceeds(q, r)
    PROVE  ~Exceeds(p, r)
<1> DEFINE a == p[1]
           b == p[2]
           c == q[1]
           d == q[2]
           e == r[1]
           f == r[2]
<1>1. /\ a \in Nat /\ b \in Nat /\ b > 0
      /\ c \in Nat /\ d \in Nat /\ d > 0
      /\ e \in Nat /\ f \in Nat /\ f > 0
  BY FractionTyped
<1>2. a * d <= c * b /\ c * f <= e * d
  BY <1>1, ProductGrows DEF Exceeds
<1> HIDE DEF a, b, c, d, e, f
<1>3. a * f * d <= e * b * d
  <2>1. (a * d) * f <= (c * b) * f
    BY <1>1, <1>2, ProductGrows
  <2>2. (c * f) * b <= (e * d) * b
    BY <1>1, <1>2, ProductGrows
  <2>3. (a * d) * f = a * f * d /\ (c * b) * f = (c * f) * b /\ (e * d) * b = e * b * d
    BY <1>1
  <2>4. (a * d) * f \in Nat /\ (c * b) * f \in Nat /\ (e * d) * b \in Nat
    BY <1>1, ProductGrows
  <2> QED BY <2>1, <2>2, <2>3, <2>4
<1>4. a * f <= e * b
  <2>1. a * f \in Nat /\ e * b \in Nat
    BY <1>1, ProductGrows
  <2>2. CASE e * b < a * f
    <3>1. (e * b) * d < (a * f) * d
      BY <1>1, <2>1, <2>2, ProductGrows
    <3>2. (e * b) * d \in Nat /\ (a * f) * d \in Nat
      BY <1>1, <2>1, ProductGrows
    <3> QED BY <1>3, <3>1, <3>2
  <2> QED BY <2>1, <2>2
<1>5. a * f \in Nat /\ e * b \in Nat
  BY <1>1, ProductGrows
<1> QED BY <1>4, <1>5 DEF Exceeds, a, b, e, f

(* One of two sums exceeds the other if one of its terms does and the      *)
(* other term is not exceeded.                                             *)
LEMMA SumsKeepOrder ==
    ASSUME NEW p \in Fraction, NEW q \in Fraction, NEW s \in Fraction, NEW t \in Fraction,
           ~Exceeds(s, p), ~Exceeds(t, q)
    PROVE  /\ ~Exceeds(Plus(s, t), Plus(p, q))
           /\ Exceeds(p, s) \/ Exceeds(q, t) => Exceeds(Plus(p, q), Plus(s, t))
<1> DEFINE a == p[1]
           b == p[2]
           c == q[1]
           d == q[2]
           e == s[1]
           f == s[2]
           g == t[1]
           h == t[2]
<1>1. /\ a \in Nat /\ b \in Nat /\ b > 0 /\ c \in Nat /\ d \in Nat /\ d > 0
      /\ e \in Nat /\ f \in Nat /\ f > 0 /\ g \in Nat /\ h \in Nat /\ h > 0
  BY FractionTyped
<1>2. /\ Exceeds(p, s) <=> a * f > e * b
      /\ Exceeds(q, t) <=> c * h > g * d
      /\ Exceeds(s, p) <=> e * b > a * f
      /\ Exceeds(t, q) <=> g * d > c * h
  BY DEF Exceeds
<1>3. /\ Exceeds(Plus(p, q), Plus(s, t))
            <=> (a * d + c * b) * (f * h) > (e * h + g * f) * (b * d)
      /\ Exceeds(Plus(s, t), Plus(p, q))
            <=> (e * h + g * f) * (b * d) > (a * d + c * b) * (f * h)
  BY DEF Exceeds, Plus
<1>4. e * b <= a * f /\ g * d <= c * h
  BY <1>1, <1>2, ProductGrows
<1> HIDE DEF a, b, c, d, e, f, g, h
<1>5. /\ (a * d + c * b) * (f * h) = (a * f) * (d * h) + (c * h) * (b * f)
      /\ (e * h + g * f) * (b * d) = (e * b) * (d * h) + (g * d) * (b * f)
  BY <1>1
<1>6. d * h \in Nat /\ d * h > 0 /\ b * f \in Nat /\ b * f > 0
  BY <1>1, ProductGrows
<1>7. a * f \in Nat /\ c * h \in Nat /\ e * b \in Nat /\ g * d \in Nat
  BY <1>1, ProductGrows
<1>8. /\ (e * b) * (d * h) <= (a * f) * (d * h)
      /\ (g * d) * (b * f) <= (c * h) * (b * f)
      /\ e * b < a * f => (e * b) * (d * h) < (a * f) * (d * h)
      /\ g * d < c * h => (g * d) * (b * f) < (c * h) * (b * f)
  BY <1>4, <1>6, <1>7, ProductGrows
<1>9. /\ (e * b) * (d * h) \in Nat /\ (a * f) * (d * h) \in Nat
      /\ (g * d) * (b * f) \in Nat /\ (c * h) * (b * f) \in Nat
  BY <1>6, <1>7, ProductGrows
<1> QED BY <1>2, <1>3, <1>5, <1>7, <1>8, <1>9

-----------------------------------------------------------------------------
(* A list of a search: each of its candidates once.                        *)
Ranking(list) == \E n \in Nat : list \in Injection(1 .. n, Chunks)

LEMMA RankingTyped ==
    ASSUME NEW list, Ranking(list)
    PROVE  /\ Len(list) \in Nat /\ DOMAIN list = 1 .. Len(list)
           /\ list \in [1 .. Len(list) -> Chunks]
           /\ \A i, j \in 1 .. Len(list) : list[i] = list[j] => i = j
           /\ ToSet(list) = {list[i] : i \in 1 .. Len(list)}
           /\ ToSet(list) \subseteq Chunks
<1>1. PICK n \in Nat : list \in [1 .. n -> Chunks] /\ IsInjective(list)
  BY DEF Ranking, Injection
<1>2. Len(list) = n /\ DOMAIN list = 1 .. n
  BY <1>1
<1>3. \A i, j \in 1 .. n : list[i] = list[j] => i = j
  BY <1>1, <1>2 DEF IsInjective
<1> QED BY <1>1, <1>2, <1>3 DEF ToSet

LEMMA RankInTyped ==
    ASSUME NEW list, Ranking(list), NEW c
    PROVE  /\ RankIn(list, c) \in Nat
           /\ Contains(list, c) <=> c \in ToSet(list)
           /\ Contains(list, c) =>
                 RankIn(list, c) \in 1 .. Len(list) /\ list[RankIn(list, c)] = c
           /\ ~Contains(list, c) => RankIn(list, c) = 0
<1>1. /\ Len(list) \in Nat
      /\ ToSet(list) = {list[i] : i \in 1 .. Len(list)}
  BY RankingTyped
<1>2. Contains(list, c) <=> c \in ToSet(list)
  BY <1>1 DEF Contains
<1>3. ASSUME Contains(list, c)
      PROVE  RankIn(list, c) \in 1 .. Len(list) /\ list[RankIn(list, c)] = c
  BY <1>3 DEF Contains, RankIn
<1>4. ~Contains(list, c) => RankIn(list, c) = 0
  BY DEF RankIn
<1>5. RankIn(list, c) \in Nat
  BY <1>1, <1>3, <1>4
<1> QED BY <1>2, <1>3, <1>4, <1>5

LEMMA ContributionTyped ==
    ASSUME NEW rank \in Nat
    PROVE  Contribution(rank) \in Fraction
  BY DEF Contribution, Fraction, K

LEMMA SumTyped ==
    ASSUME NEW p \in Fraction, NEW q \in Fraction
    PROVE  Plus(p, q) \in Fraction
<1>1. /\ p[1] \in Nat /\ p[2] \in Nat /\ p[2] > 0
      /\ q[1] \in Nat /\ q[2] \in Nat /\ q[2] > 0
  BY FractionTyped
<1>2. p[1] * q[2] \in Nat /\ q[1] * p[2] \in Nat /\ p[2] * q[2] \in Nat
  BY <1>1, ProductGrows
<1>3. p[2] * q[2] > 0
  BY <1>1, ProductGrows
<1>4. p[1] * q[2] + q[1] * p[2] \in Nat /\ p[2] * q[2] \in Nat \ {0}
  BY <1>2, <1>3
<1> QED BY <1>4 DEF Plus, Fraction

LEMMA ScoreTyped ==
    ASSUME NEW first, NEW second, Ranking(first), Ranking(second), NEW c
    PROVE  Score(first, second, c) \in Fraction
  BY RankInTyped, ContributionTyped, SumTyped DEF Score

(* The later a list places a candidate, the less it contributes.           *)
LEMMA LaterContributesLess ==
    ASSUME NEW list, Ranking(list), NEW c, NEW d, Place(list, c) <= Place(list, d)
    PROVE  /\ ~Exceeds(Contribution(RankIn(list, d)), Contribution(RankIn(list, c)))
           /\ Contains(list, c) /\ c # d =>
                 Exceeds(Contribution(RankIn(list, c)), Contribution(RankIn(list, d)))
           /\ Contains(list, d) => Contains(list, c)
<1> DEFINE r == RankIn(list, c)
           s == RankIn(list, d)
<1>1. /\ Len(list) \in Nat /\ r \in Nat /\ s \in Nat
      /\ Contains(list, c) => r \in 1 .. Len(list) /\ list[r] = c
      /\ Contains(list, d) => s \in 1 .. Len(list) /\ list[s] = d
      /\ ~Contains(list, c) => r = 0
      /\ ~Contains(list, d) => s = 0
  BY RankingTyped, RankInTyped
<1>2. Place(list, c) = (IF Contains(list, c) THEN r ELSE Len(list) + 1)
      /\ Place(list, d) = (IF Contains(list, d) THEN s ELSE Len(list) + 1)
  BY DEF Place
<1> HIDE DEF r, s
<1>3. CASE Contains(list, c) /\ Contains(list, d)
  <2>1. r \in Nat /\ s \in Nat /\ r > 0 /\ s > 0 /\ r <= s /\ (c # d => r # s)
    BY <1>1, <1>2, <1>3
  <2>2. Contribution(r) = <<1, 60 + r>> /\ Contribution(s) = <<1, 60 + s>>
    BY <2>1 DEF Contribution, K
  <2>3. /\ Exceeds(Contribution(s), Contribution(r)) <=> 60 + r > 60 + s
        /\ Exceeds(Contribution(r), Contribution(s)) <=> 60 + s > 60 + r
    BY <2>1, <2>2 DEF Exceeds
  <2> QED BY <1>3, <2>1, <2>3 DEF r, s
<1>4. CASE Contains(list, c) /\ ~Contains(list, d)
  <2>1. r \in Nat /\ r > 0 /\ s = 0
    BY <1>1, <1>4
  <2>2. Contribution(r) = <<1, 60 + r>> /\ Contribution(s) = <<0, 1>>
    BY <2>1 DEF Contribution, K
  <2>3. ~Exceeds(Contribution(s), Contribution(r)) /\ Exceeds(Contribution(r), Contribution(s))
    BY <2>1, <2>2 DEF Exceeds
  <2> QED BY <1>4, <2>3 DEF r, s
<1>5. CASE ~Contains(list, c) /\ ~Contains(list, d)
  <2>1. r = 0 /\ s = 0
    BY <1>1, <1>5
  <2>2. ~Exceeds(Contribution(s), Contribution(r))
    BY <2>1 DEF Contribution, Exceeds
  <2> QED BY <1>5, <2>2 DEF r, s
<1>6. Contains(list, d) => Contains(list, c)
  BY <1>1, <1>2
<1> QED BY <1>3, <1>4, <1>5, <1>6

(* A candidate that dominates another has the better score.                *)
LEMMA DominatingScoresMore ==
    ASSUME NEW first, NEW second, Ranking(first), Ranking(second),
           NEW c \in Candidates(first, second), NEW d, Dominates(first, second, c, d)
    PROVE  Exceeds(Score(first, second, c), Score(first, second, d))
<1> DEFINE p == Contribution(RankIn(first, c))
           q == Contribution(RankIn(second, c))
           s == Contribution(RankIn(first, d))
           t == Contribution(RankIn(second, d))
<1>1. p \in Fraction /\ q \in Fraction /\ s \in Fraction /\ t \in Fraction
  BY RankInTyped, ContributionTyped
<1>2. c # d /\ (Contains(first, c) \/ Contains(second, c))
  BY RankInTyped DEF Dominates, Candidates
<1>3. ~Exceeds(s, p) /\ ~Exceeds(t, q) /\ (Exceeds(p, s) \/ Exceeds(q, t))
  BY <1>2, LaterContributesLess DEF Dominates
<1>4. Score(first, second, c) = Plus(p, q) /\ Score(first, second, d) = Plus(s, t)
  BY DEF Score
<1> HIDE DEF p, q, s, t
<1> QED BY <1>1, <1>3, <1>4, SumsKeepOrder

-----------------------------------------------------------------------------
(* The candidates of a finite set can be put in any strict order: each at  *)
(* the place after those that precede it.                                  *)
LEMMA OrderedEnumeration ==
    ASSUME NEW S, IsFiniteSet(S), NEW R,
           \A x \in S : <<x, x>> \notin R,
           \A x, y, z \in S : <<x, y>> \in R /\ <<y, z>> \in R => <<x, z>> \in R,
           \A x, y \in S : x # y => <<x, y>> \in R \/ <<y, x>> \in R
    PROVE  \E f \in [1 .. Cardinality(S) -> S] :
              /\ \A i, j \in 1 .. Cardinality(S) : i # j => f[i] # f[j]
              /\ \A i, j \in 1 .. Cardinality(S) : i < j => <<f[i], f[j]>> \in R
<1> DEFINE n == Cardinality(S)
           Below(x) == {y \in S : <<y, x>> \in R}
           place == [x \in S |-> Cardinality(Below(x)) + 1]
<1>1. n \in Nat
  BY FS_CardinalityType
<1>2. ASSUME NEW x \in S
      PROVE  /\ IsFiniteSet(Below(x)) /\ Cardinality(Below(x)) \in Nat
             /\ Cardinality(Below(x)) < n
  <2>1. Below(x) \in SUBSET S /\ x \notin Below(x)
    OBVIOUS
  <2>2. IsFiniteSet(Below(x)) /\ Cardinality(Below(x)) <= n /\ Cardinality(Below(x)) # n
    BY <2>1, FS_Subset
  <2>3. Cardinality(Below(x)) \in Nat
    BY <2>2, FS_CardinalityType
  <2> QED BY <1>1, <2>2, <2>3
<1>3. ASSUME NEW x \in S, NEW y \in S, <<x, y>> \in R
      PROVE  Cardinality(Below(x)) < Cardinality(Below(y))
  <2>1. Below(x) \in SUBSET Below(y) /\ x \in Below(y) /\ x \notin Below(x)
    BY <1>3
  <2>2. IsFiniteSet(Below(y)) /\ Cardinality(Below(y)) \in Nat /\ Cardinality(Below(x)) \in Nat
    BY <1>2
  <2>3. Cardinality(Below(x)) <= Cardinality(Below(y))
        /\ (Cardinality(Below(y)) = Cardinality(Below(x)) => Below(y) = Below(x))
    BY <2>1, <2>2, FS_Subset
  <2> QED BY <2>1, <2>2, <2>3
<1>4. \A x \in S : place[x] = Cardinality(Below(x)) + 1 /\ place[x] \in 1 .. n
  BY <1>1, <1>2
<1>5. ASSUME NEW x \in S, NEW y \in S, <<x, y>> \in R
      PROVE  place[x] < place[y]
  <2>1. /\ Cardinality(Below(x)) \in Nat /\ Cardinality(Below(y)) \in Nat
        /\ Cardinality(Below(x)) < Cardinality(Below(y))
    BY <1>2, <1>3, <1>5
  <2>2. place[x] = Cardinality(Below(x)) + 1 /\ place[y] = Cardinality(Below(y)) + 1
    BY <1>4
  <2> HIDE DEF place, Below
  <2> QED BY <2>1, <2>2
<1>6. place \in [S -> 1 .. n]
  BY <1>4
<1> HIDE DEF place, n
<1>7. ASSUME NEW x \in S, NEW y \in S, x # y
      PROVE  place[x] # place[y]
  <2>1. place[x] \in Nat /\ place[y] \in Nat
    BY <1>1, <1>6
  <2>2. place[x] < place[y] \/ place[y] < place[x]
    BY <1>5, <1>7
  <2> QED BY <2>1, <2>2
<1>8. place \in Injection(S, 1 .. n)
  BY <1>6, <1>7 DEF Injection, IsInjective
<1>9. IsFiniteSet(1 .. n) /\ Cardinality(1 .. n) = n
  BY <1>1, FS_Interval
<1>10. place \in Surjection(S, 1 .. n)
  BY <1>8, <1>9, FS_Injection DEF n
<1>11. \A i \in 1 .. n : \E x \in S : place[x] = i
  BY <1>10 DEF Surjection
<1> DEFINE f == [i \in 1 .. n |-> CHOOSE x \in S : place[x] = i]
<1>12. \A i \in 1 .. n : f[i] \in S /\ place[f[i]] = i
  BY <1>11
<1>13. f \in [1 .. n -> S]
  BY <1>12
<1> HIDE DEF f
<1>14. \A i, j \in 1 .. n : i # j => f[i] # f[j]
  BY <1>12
<1>15. \A i, j \in 1 .. n : i < j => <<f[i], f[j]>> \in R
  <2> SUFFICES ASSUME NEW i \in 1 .. n, NEW j \in 1 .. n, i < j
               PROVE  <<f[i], f[j]>> \in R
    OBVIOUS
  <2>1. f[i] \in S /\ f[j] \in S /\ place[f[i]] = i /\ place[f[j]] = j /\ f[i] # f[j]
    BY <1>12, <1>14, <1>1
  <2>2. <<f[j], f[i]>> \notin R
    BY <1>1, <1>5, <2>1
  <2> QED BY <2>1, <2>2
<1> QED BY <1>13, <1>14, <1>15 DEF n

(* The order of the fusion is strict and total.                            *)
LEMMA PrecedesIsStrict ==
    ASSUME NEW first, NEW second, Ranking(first), Ranking(second)
    PROVE  /\ \A c \in Nat : ~Precedes(first, second, c, c)
           /\ \A c, d \in Nat :
                 /\ c # d => Precedes(first, second, c, d) \/ Precedes(first, second, d, c)
                 /\ Precedes(first, second, c, d) => ~Precedes(first, second, d, c)
           /\ \A c, d, e \in Nat :
                 Precedes(first, second, c, d) /\ Precedes(first, second, d, e)
                     => Precedes(first, second, c, e)
<1> DEFINE X(c, d) == Exceeds(Score(first, second, c), Score(first, second, d))
           P(c, d) == Precedes(first, second, c, d)
<1>1. \A c, d : P(c, d) <=> X(c, d) \/ (c < d /\ ~X(d, c))
  BY DEF Precedes
<1>2. \A c, d : X(c, d) => ~X(d, c)
  <2> SUFFICES ASSUME NEW c, NEW d, X(c, d) PROVE ~X(d, c)
    OBVIOUS
  <2> DEFINE p == Score(first, second, c)
             q == Score(first, second, d)
  <2>1. /\ p[1] \in Nat /\ p[2] \in Nat /\ q[1] \in Nat /\ q[2] \in Nat
    BY ScoreTyped, FractionTyped
  <2>2. p[1] * q[2] \in Nat /\ q[1] * p[2] \in Nat /\ p[1] * q[2] > q[1] * p[2]
    BY <2>1, ProductGrows DEF Exceeds
  <2> QED BY <2>2 DEF Exceeds
<1>3. \A c, d, e : ~X(c, d) /\ ~X(d, e) => ~X(c, e)
  BY ScoreTyped, NotExceededIsTransitive
<1> HIDE DEF X, P
<1>4. ASSUME NEW c \in Nat, NEW d \in Nat, NEW e \in Nat, P(c, d), P(d, e)
      PROVE  P(c, e)
  <2>1. /\ ~X(d, c) /\ (X(c, d) \/ c < d)
        /\ ~X(e, d) /\ (X(d, e) \/ d < e)
    BY <1>1, <1>2, <1>4
  <2>2. ~X(e, c)
    BY <1>3, <2>1
  <2>3. X(c, d) \/ X(d, e) => X(c, e)
    BY <1>3, <2>1
  <2>4. c < d /\ d < e => c < e
    OBVIOUS
  <2> QED BY <1>1, <2>1, <2>2, <2>3, <2>4
<1>5. ASSUME NEW c \in Nat, NEW d \in Nat
      PROVE  /\ ~P(c, c)
             /\ c # d => P(c, d) \/ P(d, c)
             /\ P(c, d) => ~P(d, c)
  <2>1. ~(c < c) /\ (c # d => c < d \/ d < c) /\ ~(c < d /\ d < c)
    OBVIOUS
  <2> QED BY <1>1, <1>2, <2>1
<1> QED BY <1>4, <1>5 DEF P

-----------------------------------------------------------------------------
(* The candidates in order: each once, the better first.                   *)
LEMMA OrderedTyped ==
    ASSUME NEW first, NEW second, Ranking(first), Ranking(second)
    PROVE  /\ Candidates(first, second) \subseteq Chunks /\ Cardinality(Candidates(first, second)) \in Nat
           /\ Ordered(first, second) \in [1 .. Cardinality(Candidates(first, second)) -> Candidates(first, second)]
           /\ \A i, j \in 1 .. Cardinality(Candidates(first, second)) :
                 i < j => Precedes(first, second, Ordered(first, second)[i],
                                                  Ordered(first, second)[j])
           /\ \A c \in Candidates(first, second) : \E i \in 1 .. Cardinality(Candidates(first, second)) : Ordered(first, second)[i] = c
<1> DEFINE all == Candidates(first, second)
           n == Cardinality(all)
           o == Ordered(first, second)
           R == {pair \in all \X all : Precedes(first, second, pair[1], pair[2])}
           Sorted(f) == \A i, j \in DOMAIN f : i < j => Precedes(first, second, f[i], f[j])
<1>1. all \subseteq Chunks /\ IsFiniteSet(all) /\ n \in Nat
  <2>1. all \in SUBSET Chunks
    BY RankingTyped DEF Candidates
  <2>2. IsFiniteSet(all)
    BY <2>1, RetrievalAssumption, FS_Subset
  <2> QED BY <2>1, <2>2, FS_CardinalityType
<1>2. all \subseteq Nat
  BY <1>1, RetrievalAssumption
<1>3. /\ \A x \in all : <<x, x>> \notin R
      /\ \A x, y, z \in all : <<x, y>> \in R /\ <<y, z>> \in R => <<x, z>> \in R
      /\ \A x, y \in all : x # y => <<x, y>> \in R \/ <<y, x>> \in R
  BY <1>2, PrecedesIsStrict
<1>4. PICK g \in [1 .. n -> all] :
          /\ \A i, j \in 1 .. n : i # j => g[i] # g[j]
          /\ \A i, j \in 1 .. n : i < j => <<g[i], g[j]>> \in R
  <2> HIDE DEF R
  <2> QED BY <1>1, <1>3, OrderedEnumeration
<1>5. \A f \in [1 .. n -> all] :
          Sorted(f) <=> \A i, j \in 1 .. n : i < j => Precedes(first, second, f[i], f[j])
  OBVIOUS
<1>6. Sorted(g)
  BY <1>4, <1>5
<1>7. SetToSeqs(all) = {f \in [1 .. n -> all] : \A i, j \in 1 .. n : i # j => f[i] # f[j]}
  BY DEF SetToSeqs
<1>8. g \in SetToSeqs(all)
  BY <1>4, <1>7
<1>9. o = CHOOSE f \in SetToSeqs(all) : Sorted(f)
  BY DEF Ordered
<1> HIDE DEF Sorted, o, R, n, all
<1>10. o \in SetToSeqs(all) /\ Sorted(o)
  BY <1>6, <1>8, <1>9
<1>11. /\ o \in [1 .. n -> all]
       /\ \A i, j \in 1 .. n : i # j => o[i] # o[j]
  BY <1>7, <1>10
<1>12. o \in Injection(1 .. n, all)
  BY <1>11 DEF Injection, IsInjective
<1>13. Cardinality(1 .. n) = n
  BY <1>1, FS_Interval
<1>14. o \in Surjection(1 .. n, all)
  BY <1>1, <1>12, <1>13, FS_Injection DEF n
<1>15. \A c \in all : \E i \in 1 .. n : o[i] = c
  BY <1>14 DEF Surjection
<1> QED BY <1>1, <1>5, <1>10, <1>11, <1>15 DEF n, o, all

(* The first candidates of a list, as many as a limit allows.              *)
Cut(short, list, n, limit, S) ==
    \E m \in 0 .. n :
        /\ m <= limit /\ (m = n \/ m = limit)
        /\ short \in [1 .. m -> S] /\ Len(short) = m
        /\ \A i \in 1 .. m : short[i] = list[i]

LEMMA ShortenedTyped ==
    ASSUME NEW S, NEW n \in Nat, NEW limit \in Nat, NEW list \in [1 .. n -> S]
    PROVE  Cut(Shortened(list, limit), list, n, limit, S)
<1> DEFINE m == IF n < limit THEN n ELSE limit
<1>1. list \in Seq(S) /\ Len(list) = n
  OBVIOUS
<1>2. m \in 0 .. n /\ m <= limit /\ (m = n \/ m = limit)
  OBVIOUS
<1>3. Shortened(list, limit) = SubSeq(list, 1, m)
  BY <1>1 DEF Shortened
<1> HIDE DEF m
<1>4. /\ SubSeq(list, 1, m) \in Seq(S) /\ Len(SubSeq(list, 1, m)) = m
      /\ \A i \in 1 .. m : SubSeq(list, 1, m)[i] = list[i]
  BY <1>1, <1>2
<1>5. SubSeq(list, 1, m) \in [1 .. m -> S]
  <2>1. SubSeq(list, 1, m) \in [1 .. Len(SubSeq(list, 1, m)) -> S]
    BY <1>4, LenProperties
  <2> QED BY <1>4, <2>1
<1> QED BY <1>2, <1>3, <1>4, <1>5 DEF Cut

(* The threshold is the score of a candidate that one search has first and *)
(* the other fourth: in whatever places, it is reached exactly if both     *)
(* searches have the candidate and the product of its places is at most 4. *)
LEMMA ThresholdIsAgreement ==
    ASSUME NEW a \in Nat, NEW b \in Nat
    PROVE  ~Exceeds(Threshold, Plus(Contribution(a), Contribution(b)))
               <=> a > 0 /\ b > 0 /\ a * b <= 4
<1> DEFINE reached == ~Exceeds(Threshold, Plus(Contribution(a), Contribution(b)))
<1>1. Threshold = <<125, 3904>>
  BY DEF Threshold, Plus, Contribution, K
<1>2. CASE a = 0 /\ b = 0
  <2>1. Plus(Contribution(a), Contribution(b)) = <<0, 1>>
    BY <1>2 DEF Plus, Contribution
  <2> QED BY <1>1, <1>2, <2>1 DEF Exceeds
<1>3. CASE a = 0 /\ b > 0
  <2>1. Plus(Contribution(a), Contribution(b)) = <<1, 60 + b>>
    BY <1>3 DEF Plus, Contribution, K
  <2> QED BY <1>1, <1>3, <2>1 DEF Exceeds
<1>4. CASE a > 0 /\ b = 0
  <2>1. Plus(Contribution(a), Contribution(b)) = <<1, 60 + a>>
    BY <1>4 DEF Plus, Contribution, K
  <2> QED BY <1>1, <1>4, <2>1 DEF Exceeds
<1>5. CASE a > 0 /\ b > 0
  <2>1. Plus(Contribution(a), Contribution(b)) = <<120 + a + b, (60 + a) * (60 + b)>>
    BY <1>5 DEF Plus, Contribution, K
  <2>2. reached <=> 125 * ((60 + a) * (60 + b)) <= 3904 * (120 + a + b)
    BY <1>1, <1>5, <2>1 DEF Exceeds
  <2> SUFFICES reached <=> a * b <= 4
    BY <1>5 DEF Cut
  <2> HIDE DEF reached
  <2>3. CASE a = 1
    BY <1>5, <2>2, <2>3
  <2>4. CASE a = 2
    BY <1>5, <2>2, <2>4
  <2>5. CASE a = 3
    BY <1>5, <2>2, <2>5
  <2>6. CASE a = 4
    BY <1>5, <2>2, <2>6
  <2>7. CASE a >= 5
    <3> DEFINE x == 60 + a
               y == 60 + b
    <3>1. x \in Nat /\ y \in Nat /\ x >= 65 /\ y >= 61
      BY <1>5, <2>7
    <3>2. reached <=> 125 * (x * y) <= 3904 * (x + y)
      BY <2>2
    <3> HIDE DEF x, y
    <3>3. x * y \in Nat /\ 65 * y <= x * y /\ 61 * x <= x * y
      <4>1. 65 * y <= x * y
        BY <3>1, ProductGrows
      <4>2. 61 * x <= y * x /\ y * x = x * y
        BY <3>1, ProductGrows
      <4> QED BY <3>1, <4>1, <4>2, ProductGrows
    <3>4. ~reached
      <4> DEFINE z == x * y
      <4>1. z \in Nat /\ 65 * y <= z /\ 61 * x <= z
        BY <3>3
      <4>2. reached <=> 125 * z <= 3904 * (x + y)
        BY <3>2
      <4> HIDE DEF z
      <4> QED BY <3>1, <4>1, <4>2
    <3>5. 5 * b <= a * b /\ a * b \in Nat
      BY <2>7, ProductGrows
    <3> QED BY <1>5, <3>4, <3>5
  <2>8. a = 1 \/ a = 2 \/ a = 3 \/ a = 4 \/ a >= 5
    BY <1>5 DEF Cut
  <2> QED BY <2>3, <2>4, <2>5, <2>6, <2>7, <2>8
<1> QED BY <1>2, <1>3, <1>4, <1>5 DEF Cut

(* A fused list: as long as the limit allows, the best candidates in order.*)
LEMMA FusedTyped ==
    ASSUME NEW first, NEW second, Ranking(first), Ranking(second), NEW limit \in Nat
    PROVE  \E m \in 0 .. Cardinality(Candidates(first, second)) :
              /\ m <= limit
              /\ Fuse(first, second, limit) \in [1 .. m -> Candidates(first, second)]
              /\ Len(Fuse(first, second, limit)) = m
              /\ \A i \in 1 .. m :
                    Fuse(first, second, limit)[i] = Ordered(first, second)[i]
<1> DEFINE all == Candidates(first, second)
           n == Cardinality(all)
           o == Ordered(first, second)
<1>1. n \in Nat /\ o \in [1 .. n -> all]
  BY OrderedTyped
<1>2. Fuse(first, second, limit) = Shortened(o, limit)
  BY DEF Fuse
<1> HIDE DEF all, n, o
<1>3. Cut(Shortened(o, limit), o, n, limit, all)
  BY <1>1, ShortenedTyped
<1> QED BY <1>2, <1>3 DEF Cut, all, n, o

LEMMA FusionRespectsBoth ==
    ASSUME NEW first, NEW second, Ranking(first), Ranking(second), NEW limit \in Nat,
           NEW ranked, ranked = Fuse(first, second, limit)
    PROVE  /\ \A i, j \in DOMAIN ranked :
                  Dominates(first, second, ranked[i], ranked[j]) => i < j
           /\ \A c \in Candidates(first, second), d \in ToSet(ranked) :
                  Dominates(first, second, c, d) => Contains(ranked, c)
<1> DEFINE all == Candidates(first, second)
           o == Ordered(first, second)
           n == Cardinality(all)
<1>1. /\ all \subseteq Chunks /\ n \in Nat /\ o \in [1 .. n -> all]
      /\ \A i, j \in 1 .. n : i < j => Precedes(first, second, o[i], o[j])
      /\ \A c \in all : \E i \in 1 .. n : o[i] = c
  BY OrderedTyped
<1>2. PICK m \in 0 .. n :
          /\ ranked \in [1 .. m -> all] /\ Len(ranked) = m
          /\ \A i \in 1 .. m : ranked[i] = o[i]
  BY FusedTyped
<1> HIDE DEF o, n
<1>3. ASSUME NEW c \in all, NEW d \in all, Dominates(first, second, c, d)
      PROVE  c # d /\ Precedes(first, second, c, d) /\ ~Precedes(first, second, d, c)
  <2>1. Precedes(first, second, c, d)
    BY <1>3, DominatingScoresMore DEF Precedes
  <2>2. c \in Nat /\ d \in Nat
    BY <1>1, RetrievalAssumption
  <2> QED BY <1>3, <2>1, <2>2, PrecedesIsStrict DEF Dominates
<1>4. ASSUME NEW i \in 1 .. n, NEW j \in 1 .. n, Dominates(first, second, o[i], o[j])
      PROVE  i < j
  <2>1. o[i] \in all /\ o[j] \in all
    BY <1>1
  <2>2. i # j /\ ~Precedes(first, second, o[j], o[i])
    BY <1>3, <1>4, <2>1
  <2>3. ~(j < i)
    BY <1>1, <2>2
  <2> QED BY <1>1, <2>2, <2>3
<1>5. \A i \in 1 .. m : i \in 1 .. n
  BY <1>1, <1>2
<1>6. ASSUME NEW i \in DOMAIN ranked, NEW j \in DOMAIN ranked,
             Dominates(first, second, ranked[i], ranked[j])
      PROVE  i < j
  BY <1>2, <1>4, <1>5, <1>6
<1>7. ASSUME NEW c \in all, NEW d \in ToSet(ranked), Dominates(first, second, c, d)
      PROVE  Contains(ranked, c)
  <2>1. PICK j \in 1 .. m : d = o[j]
    BY <1>2 DEF ToSet
  <2>2. PICK i \in 1 .. n : c = o[i]
    BY <1>1
  <2>3. i < j
    BY <1>4, <1>5, <1>7, <2>1, <2>2
  <2>4. i \in 1 .. m /\ ranked[i] = c
    BY <1>1, <1>2, <2>1, <2>2, <2>3
  <2> QED BY <1>2, <2>4 DEF Contains
<1> QED BY <1>6, <1>7

LEMMA SelectionIsPrefix ==
    ASSUME NEW first, NEW second, Ranking(first), Ranking(second),
           NEW fusedLimit \in Nat, NEW finalLimit \in Nat \ {0},
           NEW ranked, ranked = Fuse(first, second, fusedLimit),
           NEW chosen, chosen = Select(first, second, fusedLimit, finalLimit)
    PROVE  /\ chosen # <<>> <=>
                 ranked # <<>> /\ Agreed(first, second, Head(ranked))
           /\ IsPrefix(chosen, ranked)
           /\ ToSet(chosen) \subseteq Candidates(first, second)
<1> DEFINE all == Candidates(first, second)
           passes == ~Exceeds(Threshold, Score(first, second, Head(ranked)))
<1>1. PICK m \in Nat : ranked \in [1 .. m -> all] /\ Len(ranked) = m
  <2>1. Cardinality(all) \in Nat
    BY OrderedTyped
  <2>2. \E m \in 0 .. Cardinality(all) : ranked \in [1 .. m -> all] /\ Len(ranked) = m
    BY FusedTyped
  <2> QED BY <2>1, <2>2
<1>2. ranked \in Seq(all)
  BY <1>1
<1>3. passes <=> Agreed(first, second, Head(ranked))
  <2> DEFINE c == Head(ranked)
             a == RankIn(first, c)
             b == RankIn(second, c)
  <2>1. /\ a \in Nat /\ b \in Nat
        /\ Contains(first, c) <=> a > 0
        /\ Contains(second, c) <=> b > 0
    BY RankInTyped, RankingTyped
  <2>2. passes <=> a > 0 /\ b > 0 /\ a * b <= 4
    BY <2>1, ThresholdIsAgreement DEF Score
  <2> QED BY <2>1, <2>2 DEF Agreed
<1>4. chosen = IF ranked # <<>> /\ passes THEN Shortened(ranked, finalLimit) ELSE <<>>
  BY DEF Select
<1> HIDE DEF all, passes
<1>5. CASE ranked # <<>> /\ passes
  <2>1. chosen = Shortened(ranked, finalLimit)
    BY <1>4, <1>5
  <2>2. PICK k \in 0 .. m :
            /\ k = m \/ k = finalLimit
            /\ Len(chosen) = k /\ chosen \in [1 .. k -> all]
    <3>1. Cut(Shortened(ranked, finalLimit), ranked, m, finalLimit, all)
      BY <1>1, ShortenedTyped
    <3> QED BY <2>1, <3>1 DEF Cut
  <2>3. m > 0
    BY <1>1, <1>2, <1>5
  <2>4. k > 0 /\ chosen # <<>>
    BY <2>2, <2>3
  <2>5. chosen \in Seq(all)
    BY <2>2
  <2>6. chosen = SubSeq(ranked, 1, k)
    BY <1>1, <2>1, <2>2 DEF Shortened
  <2>7. SubSeq(chosen, 1, Len(chosen)) = SubSeq(ranked, 1, Len(chosen))
    BY <2>2, <2>5, <2>6, SubSeqFull
  <2>8. ToSet(chosen) \subseteq all
    BY <2>2 DEF ToSet
  <2> QED BY <1>1, <1>3, <1>5, <2>2, <2>4, <2>7, <2>8 DEF IsPrefix, all
<1>6. CASE ~(ranked # <<>> /\ passes)
  <2>1. chosen = <<>>
    BY <1>4, <1>6
  <2>2. IsPrefix(chosen, ranked)
    <3>1. Len(chosen) = 0 /\ Len(ranked) >= 0
      BY <1>1, <2>1
    <3>2. SubSeq(chosen, 1, 0) = <<>> /\ SubSeq(ranked, 1, 0) = <<>>
      BY SubSeqEmpty
    <3> QED BY <3>1, <3>2 DEF IsPrefix
  <2>3. ToSet(chosen) = {}
    BY <2>1 DEF ToSet
  <2> QED BY <1>3, <1>6, <2>1, <2>2, <2>3
<1> QED BY <1>5, <1>6

-----------------------------------------------------------------------------
(* A query from its start to its trace: what was active since it began is  *)
(* noted in served, and what it found so far is there.                     *)
RetrievalInv ==
    /\ query \in {"idle", "dense", "lexical", "fused"}
    /\ served \subseteq Versions
    /\ Ranking(dense) /\ Ranking(lexical)
    /\ ToSet(evidence) \subseteq Chunks
    /\ query = "idle" => dense = <<>> /\ lexical = <<>>
    /\ query # "idle" => Active \subseteq served
    /\ EvidenceWasServed

LEMMA NothingIsRanked == Ranking(<<>>) /\ ToSet(<<>>) = {}
<1>1. <<>> \in [1 .. 0 -> Chunks] /\ DOMAIN <<>> = {}
  OBVIOUS
<1>2. <<>> \in Injection(1 .. 0, Chunks)
  BY <1>1 DEF Injection, IsInjective
<1> QED BY <1>1, <1>2 DEF Ranking, ToSet

LEMMA RankingsTyped ==
    ASSUME NEW found \in SUBSET Chunks, NEW limit, NEW list \in Rankings(found, limit)
    PROVE  Ranking(list) /\ ToSet(list) \subseteq found
<1>1. PICK S \in SUBSET found : list \in SetToSeqs(S)
  BY DEF Rankings
<1> DEFINE n == Cardinality(S)
<1>2. n \in Nat
  <2>1. IsFiniteSet(S)
    BY RetrievalAssumption, FS_Subset
  <2> QED BY <2>1, FS_CardinalityType
<1>3. list \in [1 .. n -> S] /\ \A i, j \in 1 .. n : i # j => list[i] # list[j]
  BY <1>1 DEF SetToSeqs
<1> HIDE DEF n
<1>4. list \in Injection(1 .. n, Chunks)
  BY <1>3 DEF Injection, IsInjective
<1>5. ToSet(list) \subseteq S
  BY <1>3 DEF ToSet
<1> QED BY <1>2, <1>4, <1>5 DEF Ranking

LEMMA RetrievalInit == Init => RetrievalInv
<1> SUFFICES ASSUME Init PROVE RetrievalInv
  OBVIOUS
<1>1. /\ query = "idle" /\ dense = <<>> /\ lexical = <<>> /\ evidence = <<>> /\ served = {}
  BY DEF Init
<1> QED BY <1>1, NothingIsRanked DEF RetrievalInv, EvidenceWasServed

(* The steps of a query, while the versions stay as they are.              *)
LEMMA QueryKeeps ==
    ASSUME RetrievalInv, RetrievalNext, UNCHANGED ingestionVars
    PROVE  RetrievalInv'
<1>1. /\ version' = version /\ chunked' = chunked /\ Active' = Active
  BY DEF ingestionVars, Active
<1>2. Active \subseteq Versions
  BY DEF Active
<1>3. CASE StartQuery
  <2>1. /\ dense' = <<>> /\ lexical' = <<>> /\ evidence' = <<>>
        /\ \/ query' = "dense" /\ served' = Active
           \/ query' = query /\ served' = served
    BY <1>3 DEF StartQuery, RetrievalInv
  <2>2. EvidenceWasServed'
    BY <2>1, NothingIsRanked DEF EvidenceWasServed
  <2> QED BY <1>1, <1>2, <1>3, <2>1, <2>2, NothingIsRanked DEF RetrievalInv, StartQuery
<1>4. ASSUME NEW found \in SUBSET Searchable, NEW limit, NEW list \in Rankings(found, limit)
      PROVE  /\ Ranking(list)
             /\ query # "idle" =>
                   \A c \in ToSet(list) : VersionOf[c] \in served /\ VersionOf[c] \in chunked
  <2>1. found \in SUBSET Chunks
    BY DEF Searchable
  <2>2. Ranking(list) /\ ToSet(list) \subseteq Searchable
    BY <2>1, RankingsTyped
  <2> QED BY <2>2 DEF Searchable, RetrievalInv
<1>5. CASE SearchDense
  <2>1. /\ query = "dense" /\ query' = "lexical" /\ dense' \in Rankings(Searchable, DenseLimit)
        /\ lexical' = lexical /\ evidence' = evidence /\ served' = served
    BY <1>5 DEF SearchDense
  <2>2. /\ Ranking(dense')
        /\ \A c \in ToSet(dense') : VersionOf[c] \in served /\ VersionOf[c] \in chunked
    BY <1>4, <2>1
  <2>3. EvidenceWasServed'
    BY <1>1, <2>1, <2>2 DEF RetrievalInv, EvidenceWasServed
  <2> QED BY <1>1, <2>1, <2>2, <2>3 DEF RetrievalInv
<1>6. CASE SearchLexical
  <2>1. PICK S \in SUBSET Searchable : lexical' \in Rankings(S, LexicalLimit)
    BY <1>6 DEF SearchLexical
  <2>2. /\ query = "lexical" /\ query' = "fused"
        /\ dense' = dense /\ evidence' = evidence /\ served' = served
    BY <1>6 DEF SearchLexical
  <2>3. /\ Ranking(lexical')
        /\ \A c \in ToSet(lexical') : VersionOf[c] \in served /\ VersionOf[c] \in chunked
    BY <1>4, <2>1, <2>2
  <2>4. EvidenceWasServed'
    BY <1>1, <2>2, <2>3 DEF RetrievalInv, EvidenceWasServed
  <2> QED BY <1>1, <2>2, <2>3, <2>4 DEF RetrievalInv
<1>7. CASE Conclude
  <2>1. /\ query' = "idle" /\ dense' = <<>> /\ lexical' = <<>> /\ served' = served
        /\ evidence' = Select(dense, lexical, FusedLimit, FinalLimit)
    BY <1>7 DEF Conclude
  <2>2. FusedLimit \in Nat /\ FinalLimit \in Nat \ {0}
    BY RetrievalAssumption
  <2>3. ToSet(evidence') \subseteq ToSet(dense) \cup ToSet(lexical)
    BY <2>1, <2>2, SelectionIsPrefix DEF RetrievalInv, Candidates
  <2>4. ToSet(evidence') \subseteq Chunks
    BY <2>3, RankingTyped DEF RetrievalInv
  <2>5. EvidenceWasServed'
    BY <1>1, <2>1, <2>3, NothingIsRanked DEF RetrievalInv, EvidenceWasServed
  <2> QED BY <2>1, <2>4, <2>5, NothingIsRanked DEF RetrievalInv
<1>8. CASE QueryFails
  <2>1. /\ query' = "idle" /\ dense' = <<>> /\ lexical' = <<>> /\ evidence' = <<>>
        /\ served' = served
    BY <1>8 DEF QueryFails
  <2>2. EvidenceWasServed'
    BY <2>1, NothingIsRanked DEF EvidenceWasServed
  <2> QED BY <2>1, <2>2, NothingIsRanked DEF RetrievalInv
<1> QED BY <1>3, <1>5, <1>6, <1>7, <1>8 DEF RetrievalNext

(* The versions move on under a query: chunks that were found stay.        *)
LEMMA IngestionKeeps ==
    ASSUME IInv, RetrievalInv, IngestionNext, [Next]_vars, Witness,
           UNCHANGED <<query, dense, lexical, evidence>>
    PROVE  RetrievalInv'
<1>1. chunked \subseteq chunked'
  <2>1. \A v \in Versions : version[v] \in Settled => v \in chunked'
    BY StepStaysPublished DEF StaysPublished
  <2>2. \A v \in Versions : version[v] \in Settled <=> v \in chunked
    BY DEF IInv, VersionsInv, VersionInv
  <2>3. chunked \subseteq Versions
    BY DEF IInv, IngestionTypeOK
  <2> QED BY <2>1, <2>2, <2>3
<1>2. /\ served \subseteq served' /\ Active' \subseteq Versions
      /\ served' \subseteq served \cup Active'
      /\ query # "idle" => Active' \subseteq served'
  BY DEF Witness, Active
<1>3. EvidenceWasServed'
  BY <1>1, <1>2 DEF EvidenceWasServed, RetrievalInv
<1> QED BY <1>2, <1>3 DEF RetrievalInv

LEMMA RetrievalStepKeeps ==
    ASSUME IInv, RetrievalInv, [Next]_vars
    PROVE  RetrievalInv'
<1>1. CASE UNCHANGED vars
  BY <1>1 DEF vars, ingestionVars, retrievalVars, RetrievalInv, EvidenceWasServed, Active
<1>2. CASE RetrievalNext /\ UNCHANGED ingestionVars
  BY <1>2, QueryKeeps
<1>3. CASE IngestionNext /\ Witness /\ UNCHANGED <<query, dense, lexical, evidence>>
  BY <1>3, IngestionKeeps
<1> QED BY <1>1, <1>2, <1>3 DEF Next

(* Both searches of a query and its trace, whatever happens to the         *)
(* versions between them.                                                  *)
THEOREM QueriesStaySound == Spec => []RetrievalInv
<1>1. IInv /\ RetrievalInv /\ [Next]_vars => RetrievalInv'
  BY RetrievalStepKeeps
<1> QED BY <1>1, RetrievalInit, InvariantHolds, PTL DEF Spec

(* Every variable of a query, and with it of the whole module, keeps its   *)
(* type.                                                                   *)
THEOREM QueriesTyped == Spec => []TypeOK
<1>1. IInv /\ RetrievalInv => TypeOK
  <2> SUFFICES ASSUME IInv, RetrievalInv PROVE TypeOK
    OBVIOUS
  <2>1. ToSet(dense) \subseteq Chunks /\ ToSet(lexical) \subseteq Chunks
    BY RankingTyped DEF RetrievalInv
  <2> QED BY <2>1 DEF TypeOK, IInv, RetrievalInv
<1> QED BY <1>1, InvariantHolds, QueriesStaySound, PTL

(* What a query finds was active at some time while it ran, wherever an    *)
(* activation came in between, and its chunks are still stored.            *)
THEOREM EvidenceStaysServed == Spec => []EvidenceWasServed
<1>1. RetrievalInv => EvidenceWasServed
  BY DEF RetrievalInv
<1> QED BY <1>1, QueriesStaySound, PTL

(* The fused order contradicts neither search and leaves out nothing that  *)
(* both prefer, and there is evidence exactly when both searches agree on  *)
(* the best candidate: for every limit and any number of chunks.           *)
THEOREM FusionStaysFair == Spec => []FusionIsFair
<1>1. RetrievalInv => FusionIsFair
  <2> SUFFICES ASSUME RetrievalInv PROVE FusionIsFair
    OBVIOUS
  <2>1. Ranking(dense) /\ Ranking(lexical) /\ FusedLimit \in Nat /\ FinalLimit \in Nat \ {0}
    BY RetrievalAssumption DEF RetrievalInv
  <2> DEFINE ranked == Fuse(dense, lexical, FusedLimit)
             chosen == Select(dense, lexical, FusedLimit, FinalLimit)
  <2>2. /\ \A i, j \in DOMAIN ranked :
               Dominates(dense, lexical, ranked[i], ranked[j]) => i < j
        /\ \A c \in Candidates(dense, lexical), d \in ToSet(ranked) :
               Dominates(dense, lexical, c, d) => Contains(ranked, c)
    BY <2>1, FusionRespectsBoth
  <2>3. /\ chosen # <<>> <=> ranked # <<>> /\ Agreed(dense, lexical, Head(ranked))
        /\ IsPrefix(chosen, ranked)
    BY <2>1, SelectionIsPrefix
  <2> QED BY <2>2, <2>3 DEF FusionIsFair
<1> QED BY <1>1, QueriesStaySound, PTL
=============================================================================
