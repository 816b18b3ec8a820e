------------------------------ MODULE Ingestion ------------------------------
(***************************************************************************)
(* The asynchronous ingestion path: an upload-api handler writes the raw   *)
(* document to blob storage and enqueues an RQ job; embedding-worker pods  *)
(* run the job (validate, download, extract and chunk, embed, insert); RQ  *)
(* re-schedules a job whose run raised, until its retries are spent.       *)
(*                                                                         *)
(* A Document stands for one POST that reaches _ingest: the id is a fresh  *)
(* uuid4 per call, so a client that repeats a POST uses another Document   *)
(* with the same tenant and the same extractions.  A chunk is its          *)
(* content_hash.  Redis, blob storage and Postgres are durable; pods stop  *)
(* (SIGTERM, warm shutdown) and die (SIGKILL, node loss) at any step.      *)
(* Time is abstracted: a retry interval, a heartbeat or a job timeout may  *)
(* elapse at any moment (ScaleToZero has the clocks).                      *)
(***************************************************************************)
EXTENDS Naturals, Sequences

CONSTANTS
  Document,       \* ids minted by _ingest
  Tenant,
  Hash,           \* content hashes of chunk texts
  Worker,         \* embedding-worker pods, one SimpleWorker each
  TenantOf,       \* the tenant a document is uploaded for
  Extractions,    \* the sets of chunk hashes extraction + chunking may yield
  EmptyBody,      \* uploads with no content
  OutOfContract,  \* documents whose message the worker's IngestMessage refuses,
                  \* though upload-api's accepted it: two versions in a rollout
  MaxRetries,     \* Retry(max=3)
  NoDoc           \* "no job in hand"

ASSUME TenantOfType == TenantOf \in [Document -> Tenant]
ASSUME ExtractionsType == Extractions \in [Document -> SUBSET SUBSET Hash]
ASSUME UploadKinds == EmptyBody \subseteq Document /\ OutOfContract \subseteq Document
ASSUME MaxRetriesNat == MaxRetries \in Nat
ASSUME NoDocFresh == NoDoc \notin Document

VARIABLES
  request,      \* what the handler of each upload has done or answered
  blobs,        \* documents whose raw bytes are in blob storage
  queue,        \* the Redis list rq:queue:embed-jobs
  job,          \* RQ's status of each document's job
  retriesLeft,  \* RQ's retries_left of each job
  runs,         \* how often process_document was entered for a document
  stage,        \* how far each pod is in process_document
  doc,          \* the document whose job the pod runs
  batch,        \* the hashes of the chunks the pod computed
  stopping,     \* pods that received SIGTERM while busy
  table         \* committed rows of the chunks table

uploadVars == <<request, blobs>>
rqVars     == <<queue, job, retriesLeft, runs>>
podVars    == <<stage, doc, batch, stopping>>
vars       == <<uploadVars, rqVars, podVars, table>>

RequestState == {"none", "rejected", "stored", "accepted", "errored"}
JobState     == {"none", "queued", "started", "scheduled", "finished", "failed"}
Busy         == {"dequeued", "validated", "connected", "downloaded", "chunked",
                 "embedded", "closing"}
Settled      == {"finished", "failed"}

Row == [document : Document, tenant : Tenant, hash : Hash, attempt : Nat]

Init ==
  /\ request = [d \in Document |-> "none"]
  /\ blobs = {}
  /\ queue = <<>>
  /\ job = [d \in Document |-> "none"]
  /\ retriesLeft = [d \in Document |-> MaxRetries]
  /\ runs = [d \in Document |-> 0]
  /\ stage = [w \in Worker |-> "off"]
  /\ doc = [w \in Worker |-> NoDoc]
  /\ batch = [w \in Worker |-> {}]
  /\ stopping = {}
  /\ table = {}

-----------------------------------------------------------------------------
(* upload-api: ingest_document / ingest_file and _ingest.                   *)

Answer(d, r) == request' = [request EXCEPT ![d] = r]

\* 400: no content, or an empty file.
RejectEmpty(d) ==
  /\ request[d] = "none" /\ d \in EmptyBody
  /\ Answer(d, "rejected")
  /\ UNCHANGED <<blobs, rqVars, podVars, table>>

StoreBlob(d) ==
  /\ request[d] = "none" /\ d \notin EmptyBody
  /\ blobs' = blobs \cup {d}
  /\ Answer(d, "stored")
  /\ UNCHANGED <<rqVars, podVars, table>>

\* upload_blob raises, or the pod dies around it: the bytes may have landed.
StoreBlobFails(d) ==
  /\ request[d] = "none" /\ d \notin EmptyBody
  /\ blobs' \in {blobs, blobs \cup {d}}
  /\ Answer(d, "errored")
  /\ UNCHANGED <<rqVars, podVars, table>>

PushJob(d) ==
  /\ queue' = Append(queue, d)
  /\ job' = [job EXCEPT ![d] = "queued"]

\* Faults of Enqueue: the job announced before its bytes are stored; no Retry;
\* to_thread not awaited, so that the 202 does not wait for the push.
EnqueueBeforeBlob(d) ==
  /\ request[d] = "none" /\ d \notin EmptyBody
  /\ PushJob(d)
  /\ Answer(d, "accepted")
  /\ UNCHANGED <<blobs, retriesLeft, runs, podVars, table>>

EnqueueWithoutRetry(d) ==
  /\ request[d] = "stored"
  /\ PushJob(d)
  /\ retriesLeft' = [retriesLeft EXCEPT ![d] = 0]
  /\ Answer(d, "accepted")
  /\ UNCHANGED <<blobs, runs, podVars, table>>

EnqueueNotAwaited(d) ==
  /\ request[d] = "stored"
  /\ Answer(d, "accepted")
  /\ UNCHANGED <<blobs, rqVars, podVars, table>>

\* enqueue(..., retry=Retry(max=3, ...)) and the 202 answer.
Enqueue(d) ==
  /\ request[d] = "stored"
  /\ PushJob(d)
  /\ retriesLeft' = [retriesLeft EXCEPT ![d] = MaxRetries]
  /\ Answer(d, "accepted")
  /\ UNCHANGED <<blobs, runs, podVars, table>>

\* The push reached Redis but its reply, or the handler, was lost: the caller
\* sees an error although the job exists.
EnqueueReplyLost(d) ==
  /\ request[d] = "stored"
  /\ PushJob(d)
  /\ retriesLeft' = [retriesLeft EXCEPT ![d] = MaxRetries]
  /\ Answer(d, "errored")
  /\ UNCHANGED <<blobs, runs, podVars, table>>

\* IngestMessage refuses its fields, Redis is unreachable, or the pod dies first:
\* the blob stays without a job.
EnqueueFails(d) ==
  /\ request[d] = "stored"
  /\ Answer(d, "errored")
  /\ UNCHANGED <<blobs, rqVars, podVars, table>>

-----------------------------------------------------------------------------
(* Pods: the deployment scaled by KEDA, one RQ SimpleWorker per pod.        *)

Held == {doc[w] : w \in Worker}

\* The pod leaves its job, done or not.  A pod told to stop exits instead of
\* looking for another job (RQ warm shutdown).
Release(w) ==
  /\ stage' = [stage EXCEPT ![w] = IF w \in stopping THEN "off" ELSE "idle"]
  /\ doc' = [doc EXCEPT ![w] = NoDoc]
  /\ batch' = [batch EXCEPT ![w] = {}]
  /\ stopping' = stopping \ {w}

StartPod(w) ==
  /\ stage[w] = "off"
  /\ stage' = [stage EXCEPT ![w] = "idle"]
  /\ UNCHANGED <<uploadVars, rqVars, doc, batch, stopping, table>>

\* SIGTERM (scale-down, rollout): at once when idle, after the job when busy.
StopPod(w) ==
  /\ \/ /\ stage[w] = "idle"
        /\ stage' = [stage EXCEPT ![w] = "off"]
        /\ UNCHANGED stopping
     \/ /\ stage[w] \in Busy
        /\ stopping' = stopping \cup {w}
        /\ UNCHANGED stage
  /\ UNCHANGED <<uploadVars, rqVars, doc, batch, table>>

\* SIGKILL after the grace period, OOM or node loss.  The job stays "started";
\* an open transaction is rolled back.
KillPod(w) ==
  /\ stage[w] # "off"
  /\ stage' = [stage EXCEPT ![w] = "off"]
  /\ doc' = [doc EXCEPT ![w] = NoDoc]
  /\ batch' = [batch EXCEPT ![w] = {}]
  /\ stopping' = stopping \ {w}
  /\ UNCHANGED <<uploadVars, rqVars, table>>

-----------------------------------------------------------------------------
(* RQ: dequeue, failure handling, scheduler, maintenance.                   *)

Dequeue(w) ==
  /\ stage[w] = "idle" /\ queue # <<>>
  /\ LET d == Head(queue) IN
       /\ queue' = Tail(queue)
       /\ job' = [job EXCEPT ![d] = "started"]
       /\ runs' = [runs EXCEPT ![d] = @ + 1]
       /\ doc' = [doc EXCEPT ![w] = d]
  /\ stage' = [stage EXCEPT ![w] = "dequeued"]
  /\ UNCHANGED <<uploadVars, retriesLeft, batch, stopping, table>>

\* Fault: retries without a bound.
HandleFailureForever(d) ==
  /\ retriesLeft' = [retriesLeft EXCEPT ![d] = @ - 1]
  /\ job' = [job EXCEPT ![d] = "scheduled"]
  /\ UNCHANGED <<queue, runs>>

\* A run that raised: scheduled again while retries are left, else dead.
HandleFailure(d) ==
  /\ IF retriesLeft[d] > 0
     THEN /\ retriesLeft' = [retriesLeft EXCEPT ![d] = @ - 1]
          /\ job' = [job EXCEPT ![d] = "scheduled"]
     ELSE /\ job' = [job EXCEPT ![d] = "failed"]
          /\ UNCHANGED retriesLeft
  /\ UNCHANGED <<queue, runs>>

\* Fault: work() without with_scheduler=True.
RunSchedulerMissing(d) ==
  /\ job[d] = "scheduled" /\ stopping = Worker \cup {NoDoc}
  /\ UNCHANGED vars

\* The scheduler that work(with_scheduler=True) forks in every pod moves a due
\* job back to the list; it stops at SIGTERM and dies with its pod.
RunScheduler(d) ==
  /\ job[d] = "scheduled"
  /\ \E w \in Worker \ stopping : stage[w] # "off"
  /\ PushJob(d)
  /\ UNCHANGED <<uploadVars, retriesLeft, runs, podVars, table>>

\* Faults: a live pod's job taken for abandoned; a retry that costs nothing.
ReapHeld(d) ==
  /\ job[d] = "started"
  /\ \E w \in Worker : stage[w] = "idle"
  /\ HandleFailure(d)
  /\ UNCHANGED <<uploadVars, podVars, table>>

ReapForFree(d) ==
  /\ job[d] = "started" /\ d \notin Held
  /\ \E w \in Worker : stage[w] = "idle"
  /\ PushJob(d)
  /\ UNCHANGED <<uploadVars, retriesLeft, runs, podVars, table>>

\* Maintenance of an idle worker finds a started job whose heartbeat expired.
ReapAbandoned(d) ==
  /\ job[d] = "started" /\ d \notin Held
  /\ \E w \in Worker : stage[w] = "idle"
  /\ HandleFailure(d)
  /\ UNCHANGED <<uploadVars, podVars, table>>

-----------------------------------------------------------------------------
(* embedding-worker: process_document and _process.                         *)

Advance(w, from, to) ==
  /\ stage[w] = from
  /\ stage' = [stage EXCEPT ![w] = to]

\* Fault: the payload is used unvalidated.
ValidateNothing(w) ==
  /\ Advance(w, "dequeued", "validated")
  /\ UNCHANGED <<uploadVars, rqVars, doc, batch, stopping, table>>

\* IngestMessage.model_validate.
Validate(w) ==
  /\ Advance(w, "dequeued", "validated")
  /\ doc[w] \notin OutOfContract
  /\ UNCHANGED <<uploadVars, rqVars, doc, batch, stopping, table>>

CreatePool(w) ==
  /\ Advance(w, "validated", "connected")
  /\ UNCHANGED <<uploadVars, rqVars, doc, batch, stopping, table>>

DownloadBlob(w) ==
  /\ Advance(w, "connected", "downloaded")
  /\ doc[w] \in blobs
  /\ UNCHANGED <<uploadVars, rqVars, doc, batch, stopping, table>>

\* extract + chunk_document; a document without chunks returns early.
ExtractAndChunk(w) ==
  /\ stage[w] = "downloaded"
  /\ \E hs \in Extractions[doc[w]] :
       /\ batch' = [batch EXCEPT ![w] = hs]
       /\ Advance(w, "downloaded", IF hs = {} THEN "closing" ELSE "chunked")
  /\ UNCHANGED <<uploadVars, rqVars, doc, stopping, table>>

EmbedBatch(w) ==
  /\ Advance(w, "chunked", "embedded")
  /\ UNCHANGED <<uploadVars, rqVars, doc, batch, stopping, table>>

HasRow(t, h) == \E r \in table : r.tenant = t /\ r.hash = h

NewRows(w, hs) ==
  {[document |-> doc[w], tenant |-> TenantOf[doc[w]], hash |-> h,
    attempt |-> runs[doc[w]]] : h \in hs}

\* Faults of the insert: no ON CONFLICT clause; one statement and commit per row.
InsertEverything(w) ==
  /\ Advance(w, "embedded", "closing")
  /\ table' = table \cup NewRows(w, batch[w])
  /\ UNCHANGED <<uploadVars, rqVars, doc, batch, stopping>>

InsertRowByRow(w) ==
  /\ stage[w] = "embedded"
  /\ LET missing == {h \in batch[w] : ~HasRow(TenantOf[doc[w]], h)} IN
       \/ /\ missing = {}
          /\ Advance(w, "embedded", "closing")
          /\ UNCHANGED table
       \/ /\ \E h \in missing : table' = table \cup NewRows(w, {h})
          /\ UNCHANGED stage
  /\ UNCHANGED <<uploadVars, rqVars, doc, batch, stopping>>

\* One atomic executemany; ON CONFLICT (tenant_id, content_hash) DO NOTHING.
\* attempt stands for id/created_at: which run wrote the row.
InsertChunks(w) ==
  /\ Advance(w, "embedded", "closing")
  /\ table' = table \cup NewRows(w, {h \in batch[w] : ~HasRow(TenantOf[doc[w]], h)})
  /\ UNCHANGED <<uploadVars, rqVars, doc, batch, stopping>>

\* pool.close() and a normal return: the job is finished.
Finish(w) ==
  /\ stage[w] = "closing"
  /\ job' = [job EXCEPT ![doc[w]] = "finished"]
  /\ Release(w)
  /\ UNCHANGED <<uploadVars, queue, retriesLeft, runs, table>>

\* Fault: process_document logs the exception and does not raise it again.
RaiseSwallowed(w) ==
  /\ stage[w] \in Busy
  /\ job' = [job EXCEPT ![doc[w]] = "finished"]
  /\ Release(w)
  /\ UNCHANGED <<uploadVars, queue, retriesLeft, runs, table>>

\* Any step may raise (a fault, the 300 s job timeout, a failing close after
\* the commit).  is_poison, which is to dead-letter a message out of contract at
\* once, changes the log line only: every exception is re-raised to RQ, which retries.
Raise(w) ==
  /\ stage[w] \in Busy
  /\ HandleFailure(doc[w])
  /\ Release(w)
  /\ UNCHANGED <<uploadVars, table>>

-----------------------------------------------------------------------------
Upload(d) ==
  \/ RejectEmpty(d) \/ StoreBlob(d) \/ StoreBlobFails(d)
  \/ Enqueue(d) \/ EnqueueReplyLost(d) \/ EnqueueFails(d)

Step(w) ==
  \/ Validate(w) \/ CreatePool(w) \/ DownloadBlob(w) \/ ExtractAndChunk(w)
  \/ EmbedBatch(w) \/ InsertChunks(w) \/ Finish(w) \/ Raise(w)

Next ==
  \/ \E d \in Document : Upload(d) \/ RunScheduler(d) \/ ReapAbandoned(d)
  \/ \E w \in Worker : \/ StartPod(w) \/ StopPod(w) \/ KillPod(w)
                       \/ Dequeue(w) \/ Step(w)

Spec == Init /\ [][Next]_vars

\* Pods always make progress with a job in hand; a pod may be stopped between any
\* two of its steps, but not for ever in the window between its start and its next
\* look at the queue.  Which job a scheduler or a maintenance run takes up is its
\* own choice.  Nothing is assumed of StartPod: minReplicaCount is 0, and whether
\* KEDA starts a pod depends on the list (ScaleToZero).
Fairness ==
  /\ \A w \in Worker : WF_vars(Step(w))
  /\ SF_vars(\E w \in Worker : Dequeue(w))
  /\ SF_vars(\E d \in Document : RunScheduler(d))
  /\ SF_vars(\E d \in Document : ReapAbandoned(d))

FairSpec == Spec /\ Fairness

-----------------------------------------------------------------------------
TypeOK ==
  /\ request \in [Document -> RequestState]
  /\ blobs \subseteq Document
  /\ queue \in Seq(Document)
  /\ job \in [Document -> JobState]
  /\ retriesLeft \in [Document -> 0 .. MaxRetries]
  /\ runs \in [Document -> Nat]
  /\ stage \in [Worker -> Busy \cup {"off", "idle"}]
  /\ doc \in [Worker -> Document \cup {NoDoc}]
  /\ batch \in [Worker -> SUBSET Hash]
  /\ stopping \subseteq Worker
  /\ table \subseteq Row

-----------------------------------------------------------------------------
(* Safety.                                                                  *)

\* A pod has a job in hand exactly while it is in process_document.
PodHoldsJob == \A w \in Worker : stage[w] \in Busy <=> doc[w] # NoDoc

\* The Redis list holds exactly the queued jobs, each once; a pod only holds a
\* started job, and no job is in two pods' hands.  RQ moves a job between the
\* list, its registries and the pods in separate handlers; none of them may
\* lose or fork it.
JobsAccounted ==
  /\ \A d \in Document : job[d] = "queued" <=> \E i \in 1 .. Len(queue) : queue[i] = d
  /\ \A i, j \in 1 .. Len(queue) : queue[i] = queue[j] => i = j
  /\ PodHoldsJob
  /\ \A w \in Worker : doc[w] # NoDoc => job[doc[w]] = "started"
  /\ \A v, w \in Worker : doc[v] = doc[w] /\ doc[v] # NoDoc => v = w

\* upload-api stores the bytes before it announces them (_ingest), so every job
\* that exists finds its blob.
JobHasBlob == \A d \in Document : job[d] # "none" => d \in blobs

\* Retry(max=3): a job is run at most MaxRetries + 1 times, crashes included,
\* and is dead-lettered only when all of them are used up.
RetryBudget ==
  \A d \in Document :
    /\ runs[d] <= MaxRetries + 1
    /\ job[d] = "failed" => runs[d] = MaxRetries + 1

\* Content-hash dedup: a tenant has each chunk text once, whatever is
\* redelivered, re-uploaded or shared between documents.
NoDuplicateEvidence ==
  \A r, s \in table : r.tenant = s.tenant /\ r.hash = s.hash => r = s

Searchable(d, hs) == \A h \in hs : HasRow(TenantOf[d], h)

\* A finished job's document is searchable in full for its tenant.
FinishedIsSearchable ==
  \A d \in Document :
    job[d] = "finished" => \E hs \in Extractions[d] : Searchable(d, hs)

\* No reader sees part of a document: the rows of one run appear together, on
\* top of those its tenant already had.
NoPartialDocument ==
  \A r \in table : \E hs \in Extractions[r.document] :
    r.hash \in hs /\ Searchable(r.document, hs)

\* A message that fails validation never reaches the table nor a finished job.
OutOfContractLeavesNoTrace ==
  /\ \A d \in OutOfContract : job[d] # "finished"
  /\ \A r \in table : r.document \notin OutOfContract

-----------------------------------------------------------------------------
(* What makes the safety properties inductive.                              *)

\* _ingest goes in one direction: bytes, then job, then answer.
UploadOrder ==
  \A d \in Document :
    /\ request[d] \in {"none", "rejected", "stored"} => job[d] = "none"
    /\ request[d] = "stored" \/ job[d] # "none" => d \in blobs /\ d \notin EmptyBody

\* Every run is paid for: one run per retry used, and one for the first attempt.
RetryAccount ==
  \A d \in Document :
    /\ job[d] = "none" => runs[d] = 0
    /\ job[d] \in {"none", "queued", "scheduled"} => runs[d] + retriesLeft[d] = MaxRetries
    /\ job[d] \in {"started", "finished", "failed"} => runs[d] + retriesLeft[d] = MaxRetries + 1
    /\ job[d] = "failed" => retriesLeft[d] = 0

\* What a pod knows at each stage of _process.
WorkInHand ==
  \A w \in Worker :
    /\ stage[w] \in Busy \ {"dequeued"} => doc[w] \notin OutOfContract
    /\ stage[w] \in {"chunked", "embedded", "closing"} => batch[w] \in Extractions[doc[w]]
    /\ stage[w] = "closing" => Searchable(doc[w], batch[w])

\* The inductive invariant: every property above follows from it.
IInv ==
  /\ TypeOK /\ JobsAccounted /\ UploadOrder /\ RetryAccount /\ WorkInHand
  /\ NoDuplicateEvidence /\ FinishedIsSearchable /\ NoPartialDocument
  /\ OutOfContractLeavesNoTrace

-----------------------------------------------------------------------------
(* The contract, and liveness.                                              *)

\* What the caller was told: nothing before the handler answered.
Told ==
  [d \in Document |-> CASE request[d] \in {"none", "stored"} -> "none"
                        [] request[d] = "accepted" -> "accepted"
                        [] OTHER -> "refused"]

\* Where the job is between its enqueue and its last run does not matter.
Fate ==
  [d \in Document |-> CASE job[d] = "none" -> "unknown"
                        [] job[d] = "finished" -> "indexed"
                        [] job[d] = "failed" -> "dead"
                        [] OTHER -> "pending"]

Evidence == {<<r.tenant, r.hash>> : r \in table}

Contract == INSTANCE IngestContract WITH
  answer <- Told, fate <- Fate, evidence <- Evidence

\* The queue, the retries and the pods implement the contract.
ImplementsContract == Contract!Spec

\* ... and give each job the life that ScaleToZero gives it.
Life == INSTANCE JobLife

ImplementsJobLife == Life!Spec

PodUp == \E w \in Worker : stage[w] # "off"

\* As long as pods keep coming, however briefly each of them lives and wherever it
\* is stopped or killed, every document that was ever enqueued is settled: no job
\* stays in a registry, a list or a dead pod's hands.  That pods keep coming is
\* KEDA's part, and scale_lone and scale_stranded show when it does not do it.
SettlesEveryJob ==
  []<>PodUp => \A d \in Document : job[d] # "none" ~> job[d] \in Settled
=============================================================================
