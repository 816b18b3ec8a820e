--------------------------- MODULE IngestionProofs ---------------------------
(***************************************************************************)
(* Machine-checked proofs about Ingestion, for every set of documents,     *)
(* tenants, hashes and pods and every retry bound.                         *)
(***************************************************************************)
EXTENDS Ingestion, SequenceTheorems, TLAPS

USE DEF uploadVars, rqVars, podVars

\* What RQ's failure handling does to the job, in one fact: one retry is used
\* and the job is scheduled, or none is left and it is dead.
LEMMA FailureEffect ==
  ASSUME TypeOK, NEW d \in Document, HandleFailure(d)
  PROVE  /\ queue' = queue /\ runs' = runs
         /\ retriesLeft' \in [Document -> 0 .. MaxRetries]
         /\ \/ /\ retriesLeft[d] > 0
               /\ retriesLeft' = [retriesLeft EXCEPT ![d] = @ - 1]
               /\ job' = [job EXCEPT ![d] = "scheduled"]
            \/ /\ retriesLeft[d] = 0
               /\ retriesLeft' = retriesLeft
               /\ job' = [job EXCEPT ![d] = "failed"]
<1> USE MaxRetriesNat DEF TypeOK, HandleFailure
<1>1. retriesLeft[d] \in 0 .. MaxRetries OBVIOUS
<1>2. CASE retriesLeft[d] > 0
  <2>1. /\ retriesLeft' = [retriesLeft EXCEPT ![d] = @ - 1]
        /\ job' = [job EXCEPT ![d] = "scheduled"]
    BY <1>2
  <2>2. retriesLeft[d] - 1 \in 0 .. MaxRetries BY <1>1, <1>2
  <2> QED BY <1>2, <2>1, <2>2
<1>3. CASE ~(retriesLeft[d] > 0)
  BY <1>1, <1>3
<1> QED BY <1>2, <1>3

\* Types, and with them PodHoldsJob: a busy pod's doc is a document, which is
\* what types the rows it inserts.
LEMMA TypeAndHold == Spec => [](TypeOK /\ PodHoldsJob)
<1> DEFINE I == TypeOK /\ PodHoldsJob
<1>1. Init => I
  BY MaxRetriesNat DEF Init, TypeOK, RequestState, JobState, PodHoldsJob, Busy
<1>2. I /\ [Next]_vars => I'
  <2> SUFFICES ASSUME TypeOK, PodHoldsJob, [Next]_vars PROVE TypeOK' /\ PodHoldsJob'
    OBVIOUS
  <2> USE TenantOfType, ExtractionsType, UploadKinds, MaxRetriesNat, NoDocFresh
      DEF RequestState, JobState, Busy
  <2>1. ASSUME NEW d \in Document, Upload(d) PROVE TypeOK' /\ PodHoldsJob'
    <3> USE DEF TypeOK, PodHoldsJob
    <3>1. CASE RejectEmpty(d) BY <3>1 DEF RejectEmpty, Answer
    <3>2. CASE StoreBlob(d) BY <3>2 DEF StoreBlob, Answer
    <3>3. CASE StoreBlobFails(d) BY <3>3 DEF StoreBlobFails, Answer
    <3>4. CASE Enqueue(d) BY <3>4 DEF Enqueue, PushJob, Answer
    <3>5. CASE EnqueueReplyLost(d) BY <3>5 DEF EnqueueReplyLost, PushJob, Answer
    <3>6. CASE EnqueueFails(d) BY <3>6 DEF EnqueueFails, Answer
    <3> QED BY <2>1, <3>1, <3>2, <3>3, <3>4, <3>5, <3>6 DEF Upload
  <2>2. ASSUME NEW d \in Document, RunScheduler(d) PROVE TypeOK' /\ PodHoldsJob'
    BY <2>2 DEF RunScheduler, PushJob, TypeOK, PodHoldsJob
  <2>3. ASSUME NEW d \in Document, ReapAbandoned(d) PROVE TypeOK' /\ PodHoldsJob'
    <3>1. HandleFailure(d) BY <2>3 DEF ReapAbandoned
    <3>2. job' \in [Document -> JobState]
      BY <3>1, FailureEffect DEF TypeOK
    <3> QED BY <2>3, <3>1, <3>2, FailureEffect DEF ReapAbandoned, TypeOK, PodHoldsJob
  <2>4. ASSUME NEW w \in Worker, StartPod(w) \/ StopPod(w) \/ KillPod(w)
        PROVE TypeOK' /\ PodHoldsJob'
    <3>1. CASE StartPod(w) BY <3>1 DEF StartPod, TypeOK, PodHoldsJob
    <3>2. CASE StopPod(w) BY <3>2 DEF StopPod, TypeOK, PodHoldsJob
    <3>3. CASE KillPod(w) BY <3>3 DEF KillPod, TypeOK, PodHoldsJob
    <3> QED BY <2>4, <3>1, <3>2, <3>3
  <2>5. ASSUME NEW w \in Worker, Dequeue(w) PROVE TypeOK' /\ PodHoldsJob'
    <3>1. Head(queue) \in Document /\ Tail(queue) \in Seq(Document)
      BY <2>5 DEF Dequeue, TypeOK
    <3> QED BY <2>5, <3>1 DEF Dequeue, TypeOK, PodHoldsJob
  <2>6. ASSUME NEW w \in Worker, Step(w) PROVE TypeOK' /\ PodHoldsJob'
    <3>1. CASE Validate(w) \/ CreatePool(w) \/ DownloadBlob(w) \/ EmbedBatch(w)
      BY <3>1 DEF Validate, CreatePool, DownloadBlob, EmbedBatch, Advance,
                  TypeOK, PodHoldsJob
    <3>2. CASE ExtractAndChunk(w)
      <4>1. doc[w] \in Document
        BY <3>2 DEF ExtractAndChunk, TypeOK, PodHoldsJob
      <4> QED BY <3>2, <4>1 DEF ExtractAndChunk, Advance, TypeOK, PodHoldsJob
    <3>3. CASE InsertChunks(w)
      <4>1. /\ doc[w] \in Document
            /\ TenantOf[doc[w]] \in Tenant /\ runs[doc[w]] \in Nat
            /\ batch[w] \subseteq Hash
        BY <3>3 DEF InsertChunks, Advance, TypeOK, PodHoldsJob
      <4>2. table' \subseteq Row
        BY <3>3, <4>1 DEF InsertChunks, NewRows, Row, TypeOK
      <4> QED BY <3>3, <4>2 DEF InsertChunks, Advance, TypeOK, PodHoldsJob
    <3>4. CASE Finish(w)
      BY <3>4 DEF Finish, Release, TypeOK, PodHoldsJob
    <3>5. CASE Raise(w)
      <4>1. doc[w] \in Document /\ HandleFailure(doc[w])
        BY <3>5 DEF Raise, TypeOK, PodHoldsJob
      <4>2. job' \in [Document -> JobState]
        BY <4>1, FailureEffect DEF TypeOK
      <4> QED BY <3>5, <4>1, <4>2, FailureEffect DEF Raise, Release, TypeOK, PodHoldsJob
    <3> QED BY <2>6, <3>1, <3>2, <3>3, <3>4, <3>5 DEF Step
  <2>7. CASE UNCHANGED vars BY <2>7 DEF vars, TypeOK, PodHoldsJob
  <2> QED BY <2>1, <2>2, <2>3, <2>4, <2>5, <2>6, <2>7 DEF Next
<1> QED BY <1>1, <1>2, PTL DEF Spec

\* Every variable keeps its type: in particular retries_left never goes below
\* zero and every row names a document, a tenant and a hash that exist.
THEOREM TypeCorrect == Spec => []TypeOK
BY TypeAndHold, PTL

-----------------------------------------------------------------------------
(* Where a job is.  OnceInQueue and Hands are the two halves of            *)
(* JobsAccounted that the steps of RQ and of the pods disturb.             *)

InQueue(q, d) == \E i \in 1 .. Len(q) : q[i] = d

OnceInQueue ==
  /\ \A d \in Document : job[d] = "queued" <=> InQueue(queue, d)
  /\ \A i, j \in 1 .. Len(queue) : queue[i] = queue[j] => i = j

Hands ==
  /\ \A w \in Worker : doc[w] # NoDoc => job[doc[w]] = "started"
  /\ \A v, w \in Worker : doc[v] = doc[w] /\ doc[v] # NoDoc => v = w

LEMMA AccountedParts == JobsAccounted <=> PodHoldsJob /\ OnceInQueue /\ Hands
BY DEF JobsAccounted, OnceInQueue, Hands, InQueue

\* Pushing a job that is not in the list keeps the list exact.
LEMMA PushKeepsQueue ==
  ASSUME TypeOK, OnceInQueue, NEW d \in Document, job[d] # "queued", PushJob(d)
  PROVE  OnceInQueue'
<1>1. /\ queue' = Append(queue, d) /\ job' = [job EXCEPT ![d] = "queued"]
      /\ queue \in Seq(Document)
  BY DEF PushJob, TypeOK
<1>2. /\ Len(queue') = Len(queue) + 1 /\ Len(queue) \in Nat
      /\ \A i \in 1 .. Len(queue) : queue'[i] = queue[i]
      /\ queue'[Len(queue) + 1] = d
  BY <1>1, AppendProperties, LenProperties
<1>3. \A i \in 1 .. Len(queue) : queue[i] # d
  BY DEF OnceInQueue, InQueue
<1>4. ASSUME NEW x \in Document PROVE job'[x] = "queued" <=> InQueue(queue', x)
  <2>1. CASE x = d
    BY <1>1, <1>2, <2>1 DEF InQueue, TypeOK
  <2>2. CASE x # d
    <3>1. job'[x] = job[x] BY <1>1, <2>2 DEF TypeOK
    <3>2. InQueue(queue', x) <=> InQueue(queue, x)
      BY <1>2, <2>2 DEF InQueue
    <3> QED BY <3>1, <3>2 DEF OnceInQueue
  <2> QED BY <2>1, <2>2
<1>5. ASSUME NEW i \in 1 .. Len(queue'), NEW j \in 1 .. Len(queue'), queue'[i] = queue'[j]
      PROVE i = j
  BY <1>2, <1>3, <1>5 DEF OnceInQueue
<1> QED BY <1>4, <1>5 DEF OnceInQueue

\* Popping the head of the list and marking it started keeps the list exact.
LEMMA PopKeepsQueue ==
  ASSUME TypeOK, OnceInQueue, queue # <<>>,
         queue' = Tail(queue), job' = [job EXCEPT ![Head(queue)] = "started"]
  PROVE  Head(queue) \in Document /\ job[Head(queue)] = "queued" /\ OnceInQueue'
<1> DEFINE h == Head(queue)
<1>1. /\ queue \in Seq(Document) /\ Len(queue) \in Nat /\ Len(queue) >= 1
      /\ h = queue[1] /\ h \in Document
      /\ Len(queue') = Len(queue) - 1
      /\ \A i \in 1 .. Len(queue') : queue'[i] = queue[i + 1]
  BY HeadTailProperties, LenProperties, EmptySeq DEF TypeOK
<1>2. job[h] = "queued"
  BY <1>1 DEF OnceInQueue, InQueue
<1>3. \A i \in 1 .. Len(queue') : queue'[i] # h
  BY <1>1 DEF OnceInQueue
<1>4. ASSUME NEW x \in Document PROVE job'[x] = "queued" <=> InQueue(queue', x)
  <2>1. CASE x = h
    BY <1>1, <1>3, <2>1 DEF InQueue, TypeOK
  <2>2. CASE x # h
    <3>1. job'[x] = job[x] BY <2>2 DEF TypeOK
    <3>2. InQueue(queue, x) => InQueue(queue', x)
      <4> SUFFICES ASSUME NEW i \in 1 .. Len(queue), queue[i] = x
                   PROVE InQueue(queue', x)
        BY DEF InQueue
      <4>1. i - 1 \in 1 .. Len(queue') /\ queue'[i - 1] = x
        BY <1>1, <2>2
      <4> QED BY <4>1 DEF InQueue
    <3>3. InQueue(queue', x) => InQueue(queue, x)
      BY <1>1 DEF InQueue
    <3> QED BY <3>1, <3>2, <3>3 DEF OnceInQueue
  <2> QED BY <2>1, <2>2
<1>5. ASSUME NEW i \in 1 .. Len(queue'), NEW j \in 1 .. Len(queue'), queue'[i] = queue'[j]
      PROVE i = j
  BY <1>1, <1>5 DEF OnceInQueue
<1> QED BY <1>1, <1>2, <1>4, <1>5 DEF OnceInQueue

\* Failure handling takes a started job out of every pod's reach without
\* touching the list.
LEMMA FailureKeepsPlaces ==
  ASSUME TypeOK, OnceInQueue, UploadOrder, NEW d \in Document, job[d] = "started",
         HandleFailure(d), UNCHANGED uploadVars
  PROVE  OnceInQueue' /\ UploadOrder'
<1>1. /\ queue' = queue /\ job \in [Document -> JobState]
      /\ \/ job' = [job EXCEPT ![d] = "scheduled"]
         \/ job' = [job EXCEPT ![d] = "failed"]
  BY FailureEffect DEF TypeOK
<1>2. OnceInQueue'
  BY <1>1 DEF OnceInQueue, InQueue
<1>3. UploadOrder'
  BY <1>1 DEF UploadOrder
<1> QED BY <1>2, <1>3

LEMMA PlacesInvariant == Spec => [](OnceInQueue /\ Hands /\ UploadOrder)
<1> DEFINE I == OnceInQueue /\ Hands /\ UploadOrder
<1>1. Init => I
  BY NoDocFresh DEF Init, OnceInQueue, InQueue, Hands, UploadOrder
<1>2. TypeOK /\ PodHoldsJob /\ I /\ [Next]_vars => I'
  <2> SUFFICES ASSUME TypeOK, PodHoldsJob, OnceInQueue, Hands, UploadOrder, [Next]_vars
               PROVE  OnceInQueue' /\ Hands' /\ UploadOrder'
    OBVIOUS
  <2> USE NoDocFresh
  <2>0. job \in [Document -> JobState] /\ doc \in [Worker -> Document \cup {NoDoc}]
    BY DEF TypeOK
  <2>1. ASSUME NEW d \in Document, Upload(d) PROVE OnceInQueue' /\ Hands' /\ UploadOrder'
    <3>1. CASE Enqueue(d) \/ EnqueueReplyLost(d)
      <4>1. PushJob(d) /\ request[d] = "stored" /\ doc' = doc /\ blobs' = blobs
        BY <3>1 DEF Enqueue, EnqueueReplyLost
      <4>2. job[d] = "none" /\ d \in blobs /\ d \notin EmptyBody
        BY <4>1 DEF UploadOrder
      <4>3. OnceInQueue'
        BY <4>1, <4>2, PushKeepsQueue
      <4>4. Hands'
        BY <4>1, <4>2, <2>0 DEF Hands, PushJob
      <4>5. request' \in {[request EXCEPT ![d] = "accepted"], [request EXCEPT ![d] = "errored"]}
        BY <3>1 DEF Enqueue, EnqueueReplyLost, Answer
      <4>6. UploadOrder'
        BY <4>1, <4>2, <4>5, <2>0 DEF UploadOrder, PushJob, TypeOK
      <4> QED BY <4>3, <4>4, <4>6
    <3>2. CASE RejectEmpty(d) \/ StoreBlob(d) \/ StoreBlobFails(d) \/ EnqueueFails(d)
      <4>1. UNCHANGED <<queue, job, doc>>
        BY <3>2 DEF RejectEmpty, StoreBlob, StoreBlobFails, EnqueueFails
      <4>2. OnceInQueue' /\ Hands'
        BY <4>1 DEF OnceInQueue, InQueue, Hands
      <4>3. UploadOrder'
        <5>1. CASE StoreBlob(d)
          BY <5>1, <4>1 DEF UploadOrder, TypeOK, StoreBlob, Answer
        <5>2. CASE StoreBlobFails(d)
          BY <5>2, <4>1 DEF UploadOrder, TypeOK, StoreBlobFails, Answer
        <5>3. CASE RejectEmpty(d) \/ EnqueueFails(d)
          BY <5>3, <4>1 DEF UploadOrder, TypeOK, RejectEmpty, EnqueueFails, Answer
        <5> QED BY <3>2, <5>1, <5>2, <5>3
      <4> QED BY <4>2, <4>3
    <3> QED BY <2>1, <3>1, <3>2 DEF Upload
  <2>2. ASSUME NEW d \in Document, RunScheduler(d)
        PROVE OnceInQueue' /\ Hands' /\ UploadOrder'
    <3>1. PushJob(d) /\ job[d] = "scheduled" /\ UNCHANGED <<request, blobs, doc>>
      BY <2>2 DEF RunScheduler
    <3>2. OnceInQueue'
      BY <3>1, PushKeepsQueue
    <3>3. Hands' /\ UploadOrder'
      BY <3>1, <2>0 DEF Hands, UploadOrder, PushJob
    <3> QED BY <3>2, <3>3
  <2>3. ASSUME NEW d \in Document, ReapAbandoned(d)
        PROVE OnceInQueue' /\ Hands' /\ UploadOrder'
    <3>1. /\ job[d] = "started" /\ d \notin Held /\ HandleFailure(d)
          /\ UNCHANGED <<request, blobs, doc>>
      BY <2>3 DEF ReapAbandoned
    <3>2. Hands'
      <4>1. \A w \in Worker : doc[w] # d
        BY <3>1 DEF Held
      <4> QED BY <3>1, <4>1, <2>0, FailureEffect DEF Hands
    <3> QED BY <3>1, <3>2, FailureKeepsPlaces
  <2>4. ASSUME NEW w \in Worker, StartPod(w) \/ StopPod(w) \/ KillPod(w)
        PROVE OnceInQueue' /\ Hands' /\ UploadOrder'
    <3>1. /\ UNCHANGED <<request, blobs, queue, job>>
          /\ doc' \in {doc, [doc EXCEPT ![w] = NoDoc]}
      BY <2>4 DEF StartPod, StopPod, KillPod
    <3>2. Hands'
      BY <3>1, <2>0 DEF Hands
    <3> QED BY <3>1, <3>2 DEF OnceInQueue, InQueue, UploadOrder
  <2>5. ASSUME NEW w \in Worker, Dequeue(w) PROVE OnceInQueue' /\ Hands' /\ UploadOrder'
    <3> DEFINE h == Head(queue)
    <3>1. /\ queue # <<>> /\ queue' = Tail(queue)
          /\ job' = [job EXCEPT ![h] = "started"]
          /\ doc' = [doc EXCEPT ![w] = h]
          /\ UNCHANGED <<request, blobs>>
          /\ stage[w] = "idle"
      BY <2>5 DEF Dequeue
    <3>2. h \in Document /\ job[h] = "queued" /\ OnceInQueue'
      BY <3>1, PopKeepsQueue
    <3>3. \A v \in Worker : doc[v] # h
      BY <3>2 DEF Hands
    <3>4. Hands'
      BY <3>1, <3>2, <3>3, <2>0 DEF Hands
    <3>5. UploadOrder'
      BY <3>1, <3>2, <2>0 DEF UploadOrder
    <3> QED BY <3>2, <3>4, <3>5
  <2>6. ASSUME NEW w \in Worker, Step(w) PROVE OnceInQueue' /\ Hands' /\ UploadOrder'
    <3>1. CASE Validate(w) \/ CreatePool(w) \/ DownloadBlob(w) \/ ExtractAndChunk(w)
               \/ EmbedBatch(w) \/ InsertChunks(w)
      <4>1. UNCHANGED <<request, blobs, queue, job, doc>>
        BY <3>1 DEF Validate, CreatePool, DownloadBlob, ExtractAndChunk, EmbedBatch,
                    InsertChunks
      <4> QED BY <4>1 DEF OnceInQueue, InQueue, Hands, UploadOrder
    <3>2. CASE Finish(w) \/ Raise(w)
      <4>1. /\ doc[w] \in Document /\ job[doc[w]] = "started"
            /\ UNCHANGED <<request, blobs, queue>>
            /\ doc' = [doc EXCEPT ![w] = NoDoc]
        BY <3>2, FailureEffect, <2>0
           DEF Finish, Raise, Release, PodHoldsJob, Hands, Busy, HandleFailure
      <4>2. \A v \in Worker \ {w} : doc[v] # doc[w]
        BY <4>1 DEF Hands
      <4>3. \E s \in JobState \ {"none", "queued"} : job' = [job EXCEPT ![doc[w]] = s]
        BY <3>2, <4>1 DEF Finish, Raise, HandleFailure, JobState
      <4>4. Hands'
        BY <4>1, <4>2, <4>3, <2>0 DEF Hands
      <4>5. OnceInQueue'
        BY <4>1, <4>3, <2>0 DEF OnceInQueue, InQueue
      <4>6. UploadOrder'
        BY <4>1, <4>3, <2>0 DEF UploadOrder
      <4> QED BY <4>4, <4>5, <4>6
    <3> QED BY <2>6, <3>1, <3>2 DEF Step
  <2>7. CASE UNCHANGED vars
    BY <2>7 DEF vars, OnceInQueue, InQueue, Hands, UploadOrder
  <2> QED BY <2>1, <2>2, <2>3, <2>4, <2>5, <2>6, <2>7 DEF Next
<1> QED BY <1>1, <1>2, TypeAndHold, PTL DEF Spec

\* No job is lost, listed twice or run by two pods at once, whatever pods stop,
\* die or raise.
THEOREM JobsStayAccounted == Spec => []JobsAccounted
BY TypeAndHold, PlacesInvariant, AccountedParts, PTL

\* Every job's blob exists.
THEOREM JobsHaveBlobs == Spec => []JobHasBlob
<1>1. UploadOrder => JobHasBlob
  BY DEF UploadOrder, JobHasBlob
<1> QED BY <1>1, PlacesInvariant, PTL

-----------------------------------------------------------------------------
(* The retry budget.                                                        *)

LEMMA RetryInvariant == Spec => []RetryAccount
<1>1. Init => RetryAccount
  <2> SUFFICES ASSUME Init, NEW d \in Document
               PROVE  /\ job[d] = "none" /\ runs[d] = 0
                      /\ runs[d] + retriesLeft[d] = MaxRetries
    BY DEF RetryAccount
  <2>1. job[d] = "none" /\ runs[d] = 0 /\ retriesLeft[d] = MaxRetries
    BY DEF Init
  <2> QED BY <2>1, MaxRetriesNat
<1>2. TypeOK /\ PodHoldsJob /\ OnceInQueue /\ Hands /\ UploadOrder /\ RetryAccount
        /\ [Next]_vars => RetryAccount'
  <2> SUFFICES ASSUME TypeOK, PodHoldsJob, OnceInQueue, Hands, UploadOrder, RetryAccount,
                      [Next]_vars
               PROVE  RetryAccount'
    OBVIOUS
  <2> USE MaxRetriesNat DEF JobState
  <2>0. /\ job \in [Document -> JobState] /\ runs \in [Document -> Nat]
        /\ retriesLeft \in [Document -> 0 .. MaxRetries]
        /\ doc \in [Worker -> Document \cup {NoDoc}]
    BY DEF TypeOK
  <2>1. ASSUME NEW d \in Document, job[d] = "started", HandleFailure(d)
        PROVE RetryAccount'
    <3>1. CASE /\ retriesLeft[d] > 0
               /\ retriesLeft' = [retriesLeft EXCEPT ![d] = @ - 1]
               /\ job' = [job EXCEPT ![d] = "scheduled"]
      <4>1. runs' = runs BY <2>1, FailureEffect
      <4>2. runs[d] + retriesLeft[d] = MaxRetries + 1
        BY <2>1 DEF RetryAccount
      <4>3. runs[d] + retriesLeft'[d] = MaxRetries
        BY <4>2, <3>1, <2>0
      <4> QED BY <3>1, <4>1, <4>3, <2>0 DEF RetryAccount
    <3>2. CASE /\ retriesLeft[d] = 0 /\ retriesLeft' = retriesLeft
               /\ job' = [job EXCEPT ![d] = "failed"]
      BY <3>2, <2>0, <2>1, FailureEffect DEF RetryAccount
    <3> QED BY <2>1, <3>1, <3>2, FailureEffect
  <2>2. ASSUME UNCHANGED <<job, runs, retriesLeft>> PROVE RetryAccount'
    BY <2>2 DEF RetryAccount
  <2>3. ASSUME NEW d \in Document, Upload(d) PROVE RetryAccount'
    <3>1. CASE Enqueue(d) \/ EnqueueReplyLost(d)
      <4>1. /\ job[d] = "none" /\ job' = [job EXCEPT ![d] = "queued"]
            /\ retriesLeft' = [retriesLeft EXCEPT ![d] = MaxRetries] /\ runs' = runs
        BY <3>1 DEF Enqueue, EnqueueReplyLost, PushJob, UploadOrder
      <4> QED BY <4>1, <2>0 DEF RetryAccount
    <3>2. CASE RejectEmpty(d) \/ StoreBlob(d) \/ StoreBlobFails(d) \/ EnqueueFails(d)
      BY <3>2, <2>2 DEF RejectEmpty, StoreBlob, StoreBlobFails, EnqueueFails
    <3> QED BY <2>3, <3>1, <3>2 DEF Upload
  <2>4. ASSUME NEW d \in Document, RunScheduler(d) PROVE RetryAccount'
    BY <2>4, <2>0 DEF RunScheduler, PushJob, RetryAccount
  <2>5. ASSUME NEW d \in Document, ReapAbandoned(d) PROVE RetryAccount'
    BY <2>5, <2>1 DEF ReapAbandoned
  <2>6. ASSUME NEW w \in Worker, StartPod(w) \/ StopPod(w) \/ KillPod(w) PROVE RetryAccount'
    BY <2>6, <2>2 DEF StartPod, StopPod, KillPod
  <2>7. ASSUME NEW w \in Worker, Dequeue(w) PROVE RetryAccount'
    <3> DEFINE h == Head(queue)
    <3>1. /\ queue # <<>> /\ queue' = Tail(queue)
          /\ job' = [job EXCEPT ![h] = "started"]
          /\ runs' = [runs EXCEPT ![h] = @ + 1] /\ retriesLeft' = retriesLeft
      BY <2>7 DEF Dequeue
    <3>2. h \in Document /\ job[h] = "queued"
      BY <3>1, PopKeepsQueue
    <3> QED BY <3>1, <3>2, <2>0 DEF RetryAccount
  <2>8. ASSUME NEW w \in Worker, Step(w) PROVE RetryAccount'
    <3>1. CASE Validate(w) \/ CreatePool(w) \/ DownloadBlob(w) \/ ExtractAndChunk(w)
               \/ EmbedBatch(w) \/ InsertChunks(w)
      BY <3>1, <2>2 DEF Validate, CreatePool, DownloadBlob, ExtractAndChunk, EmbedBatch,
                        InsertChunks
    <3>2. CASE Finish(w) \/ Raise(w)
      <4>1. doc[w] \in Document /\ job[doc[w]] = "started"
        BY <3>2, <2>0 DEF Finish, Raise, PodHoldsJob, Hands, Busy
      <4>2. CASE Finish(w)
        BY <4>1, <4>2, <2>0 DEF Finish, RetryAccount
      <4>3. CASE Raise(w)
        BY <4>1, <4>3, <2>1 DEF Raise
      <4> QED BY <3>2, <4>2, <4>3
    <3> QED BY <2>8, <3>1, <3>2 DEF Step
  <2>9. CASE UNCHANGED vars BY <2>9, <2>2 DEF vars
  <2> QED BY <2>3, <2>4, <2>5, <2>6, <2>7, <2>8, <2>9 DEF Next
<1> QED BY <1>1, <1>2, TypeAndHold, PlacesInvariant, PTL DEF Spec

\* process_document runs at most MaxRetries + 1 times for a document, and a job
\* is dead-lettered only after all of those runs.
THEOREM RetriesAreBounded == Spec => []RetryBudget
<1>1. TypeOK /\ RetryAccount => RetryBudget
  <2> SUFFICES ASSUME TypeOK, RetryAccount, NEW d \in Document
               PROVE  /\ runs[d] <= MaxRetries + 1
                      /\ job[d] = "failed" => runs[d] = MaxRetries + 1
    BY DEF RetryBudget
  <2>1. job[d] \in JobState /\ runs[d] \in Nat /\ retriesLeft[d] \in Nat
    BY DEF TypeOK
  <2>2. runs[d] + retriesLeft[d] \in {MaxRetries, MaxRetries + 1}
    BY <2>1 DEF RetryAccount, JobState
  <2>3. runs[d] <= MaxRetries + 1
    BY <2>1, <2>2, MaxRetriesNat
  <2>4. ASSUME job[d] = "failed" PROVE runs[d] = MaxRetries + 1
    <3>1. runs[d] + retriesLeft[d] = MaxRetries + 1 /\ retriesLeft[d] = 0
      BY <2>4 DEF RetryAccount
    <3> QED BY <3>1, <2>1
  <2> QED BY <2>3, <2>4
<1> QED BY <1>1, TypeAndHold, RetryInvariant, PTL

-----------------------------------------------------------------------------
(* The chunks table.                                                        *)

\* Only _insert_chunks writes the table.
LEMMA OnlyInsertWrites ==
  ASSUME [Next]_vars
  PROVE  table' = table \/ \E w \in Worker : InsertChunks(w)
BY DEF Next, vars, Upload, Step, RejectEmpty, StoreBlob, StoreBlobFails, Enqueue,
       EnqueueReplyLost, EnqueueFails, RunScheduler, ReapAbandoned, StartPod, StopPod,
       KillPod, Dequeue, Validate, CreatePool, DownloadBlob, ExtractAndChunk, EmbedBatch,
       Finish, Raise

\* A row once there stays, so what was searchable stays so.
LEMMA SearchableStays ==
  ASSUME table \subseteq table', NEW d, NEW hs, Searchable(d, hs)
  PROVE  Searchable(d, hs)'
BY DEF Searchable, HasRow

\* One executemany: the batch becomes searchable as a whole, new rows belong to
\* the document and come from its batch, and no key is inserted twice.
LEMMA InsertEffect ==
  ASSUME TypeOK, PodHoldsJob, NEW w \in Worker, InsertChunks(w)
  PROVE  /\ table \subseteq table'
         /\ Searchable(doc[w], batch[w])'
         /\ \A r \in table' \ table : /\ r.document = doc[w] /\ r.tenant = TenantOf[doc[w]]
                                      /\ r.hash \in batch[w] /\ r.attempt = runs[doc[w]]
                                      /\ ~HasRow(r.tenant, r.hash)
<1> DEFINE d == doc[w]
           t == TenantOf[d]
           New == {x \in batch[w] : ~HasRow(t, x)}
           Mk(h) == [document |-> d, tenant |-> t, hash |-> h, attempt |-> runs[d]]
<1>1. table' = table \cup {Mk(h) : h \in New} /\ UNCHANGED <<doc, batch>>
  BY DEF InsertChunks, NewRows
<1>2. ASSUME NEW r \in table' \ table
      PROVE  /\ r.document = d /\ r.tenant = t
             /\ r.hash \in batch[w] /\ r.attempt = runs[d] /\ ~HasRow(r.tenant, r.hash)
  <2>1. PICK h \in New : r = Mk(h)
    BY <1>1
  <2>2. r.document = d /\ r.tenant = t /\ r.hash = h /\ r.attempt = runs[d]
    BY <2>1
  <2> QED BY <2>2
<1>3. ASSUME NEW h \in batch[w] PROVE \E r \in table' : r.tenant = t /\ r.hash = h
  <2>1. CASE HasRow(t, h)
    BY <1>1, <2>1 DEF HasRow
  <2>2. CASE ~HasRow(t, h)
    <3>1. Mk(h) \in table' BY <1>1, <2>2
    <3>2. Mk(h).tenant = t /\ Mk(h).hash = h OBVIOUS
    <3> QED BY <3>1, <3>2
  <2> QED BY <2>1, <2>2
<1>4. Searchable(d, batch[w])'
  BY <1>1, <1>3 DEF Searchable, HasRow
<1> QED BY <1>1, <1>2, <1>4

LEMMA DedupInvariant == Spec => []NoDuplicateEvidence
<1>1. Init => NoDuplicateEvidence
  BY DEF Init, NoDuplicateEvidence
<1>2. TypeOK /\ PodHoldsJob /\ NoDuplicateEvidence /\ [Next]_vars => NoDuplicateEvidence'
  <2> SUFFICES ASSUME TypeOK, PodHoldsJob, NoDuplicateEvidence, [Next]_vars,
                      NEW r \in table', NEW s \in table',
                      r.tenant = s.tenant, r.hash = s.hash
               PROVE  r = s
    BY DEF NoDuplicateEvidence
  <2>1. CASE table' = table
    BY <2>1 DEF NoDuplicateEvidence
  <2>2. ASSUME NEW w \in Worker, InsertChunks(w) PROVE r = s
    <3>1. CASE r \in table /\ s \in table
      BY <3>1 DEF NoDuplicateEvidence
    <3>2. CASE r \in table /\ s \notin table
      BY <3>2, <2>2, InsertEffect DEF HasRow
    <3>3. CASE r \notin table /\ s \in table
      BY <3>3, <2>2, InsertEffect DEF HasRow
    <3>4. CASE r \notin table /\ s \notin table
      <4> DEFINE d == doc[w]
                 Mk(h) == [document |-> d, tenant |-> TenantOf[d], hash |-> h,
                           attempt |-> runs[d]]
      <4>1. ASSUME NEW x \in table' \ table PROVE x = Mk(x.hash)
        <5>1. \E h \in batch[w] : x = Mk(h)
          BY <2>2 DEF InsertChunks, NewRows
        <5>2. PICK h \in batch[w] : x = Mk(h)
          BY <5>1
        <5>3. x.hash = h
          BY <5>2
        <5> QED BY <5>2, <5>3
      <4>2. r = Mk(r.hash) /\ s = Mk(s.hash)
        BY <3>4, <4>1
      <4>3. r.hash = s.hash OBVIOUS
      <4> HIDE DEF Mk
      <4> QED BY <4>2, <4>3
    <3> QED BY <3>1, <3>2, <3>3, <3>4
  <2> QED BY <2>1, <2>2, OnlyInsertWrites
<1> QED BY <1>1, <1>2, TypeAndHold, PTL DEF Spec

\* A tenant never has the same chunk text twice, whatever is redelivered,
\* uploaded again or shared between documents.
THEOREM EvidenceIsUnique == Spec => []NoDuplicateEvidence
BY DedupInvariant, PTL

LEMMA WorkInvariant == Spec => []WorkInHand
<1>1. Init => WorkInHand
  BY DEF Init, WorkInHand, Busy
<1>2. TypeOK /\ PodHoldsJob /\ WorkInHand /\ [Next]_vars => WorkInHand'
  <2> SUFFICES ASSUME TypeOK, PodHoldsJob, WorkInHand, [Next]_vars PROVE WorkInHand'
    OBVIOUS
  <2> USE DEF Busy
  <2>0. /\ stage \in [Worker -> Busy \cup {"off", "idle"}]
        /\ doc \in [Worker -> Document \cup {NoDoc}]
        /\ batch \in [Worker -> SUBSET Hash]
    BY DEF TypeOK
  <2>1. ASSUME UNCHANGED <<stage, doc, batch, table>> PROVE WorkInHand'
    BY <2>1 DEF WorkInHand, Searchable, HasRow
  <2>2. ASSUME NEW w \in Worker, table' = table,
               \A v \in Worker \ {w} : /\ stage'[v] = stage[v] /\ doc'[v] = doc[v]
                                       /\ batch'[v] = batch[v],
               stage'[w] \in {"off", "idle", "dequeued"}
        PROVE  WorkInHand'
    BY <2>2 DEF WorkInHand, Searchable, HasRow
  <2>3. ASSUME NEW d \in Document, Upload(d) \/ RunScheduler(d) \/ ReapAbandoned(d)
        PROVE  WorkInHand'
    BY <2>3, <2>1 DEF Upload, RejectEmpty, StoreBlob, StoreBlobFails, Enqueue,
       EnqueueReplyLost, EnqueueFails, RunScheduler, ReapAbandoned
  <2>4. ASSUME NEW w \in Worker, StartPod(w) \/ StopPod(w) \/ KillPod(w) \/ Dequeue(w)
        PROVE  WorkInHand'
    <3>1. CASE StartPod(w) BY <3>1, <2>0, <2>2 DEF StartPod
    <3>2. CASE StopPod(w)
      <4>1. CASE stage[w] = "idle" /\ stage' = [stage EXCEPT ![w] = "off"]
        BY <3>2, <4>1, <2>0, <2>2 DEF StopPod
      <4>2. CASE stage' = stage
        BY <3>2, <4>2, <2>1 DEF StopPod
      <4> QED BY <3>2, <4>1, <4>2 DEF StopPod
    <3>3. CASE KillPod(w) BY <3>3, <2>0, <2>2 DEF KillPod
    <3>4. CASE Dequeue(w) BY <3>4, <2>0, <2>2 DEF Dequeue
    <3> QED BY <2>4, <3>1, <3>2, <3>3, <3>4
  <2>5. ASSUME NEW w \in Worker, Step(w) PROVE WorkInHand'
    <3>1. CASE Validate(w)
      BY <3>1, <2>0 DEF Validate, Advance, WorkInHand, Searchable, HasRow
    <3>2. CASE CreatePool(w)
      BY <3>2, <2>0 DEF CreatePool, Advance, WorkInHand, Searchable, HasRow
    <3>3. CASE DownloadBlob(w)
      BY <3>3, <2>0 DEF DownloadBlob, Advance, WorkInHand, Searchable, HasRow
    <3>4. CASE ExtractAndChunk(w)
      <4>1. PICK hs \in Extractions[doc[w]] :
              /\ batch' = [batch EXCEPT ![w] = hs]
              /\ stage' = [stage EXCEPT ![w] = IF hs = {} THEN "closing" ELSE "chunked"]
        BY <3>4 DEF ExtractAndChunk, Advance
      <4>2. stage[w] = "downloaded" /\ UNCHANGED <<doc, table>>
        BY <3>4 DEF ExtractAndChunk
      <4>3. CASE hs = {}
        BY <4>1, <4>2, <4>3, <2>0 DEF WorkInHand, Searchable, HasRow
      <4>4. CASE hs # {}
        BY <4>1, <4>2, <4>4, <2>0 DEF WorkInHand, Searchable, HasRow
      <4> QED BY <4>3, <4>4
    <3>5. CASE EmbedBatch(w)
      BY <3>5, <2>0 DEF EmbedBatch, Advance, WorkInHand, Searchable, HasRow
    <3>6. CASE InsertChunks(w)
      <4>1. /\ stage[w] = "embedded" /\ stage' = [stage EXCEPT ![w] = "closing"]
            /\ UNCHANGED <<doc, batch>>
        BY <3>6 DEF InsertChunks, Advance
      <4>2. table \subseteq table' /\ Searchable(doc[w], batch[w])'
        BY <3>6, InsertEffect
      <4>3. \A v \in Worker \ {w} :
              stage[v] = "closing" => Searchable(doc[v], batch[v])'
        BY <4>2, <4>1, SearchableStays DEF WorkInHand, Searchable, HasRow
      <4> QED BY <4>1, <4>2, <4>3, <2>0 DEF WorkInHand
    <3>7. CASE Finish(w) \/ Raise(w)
      <4>1. Release(w) /\ table' = table
        BY <3>7 DEF Finish, Raise
      <4> QED BY <4>1, <2>0, <2>2 DEF Release
    <3> QED BY <2>5, <3>1, <3>2, <3>3, <3>4, <3>5, <3>6, <3>7 DEF Step
  <2>6. CASE UNCHANGED vars BY <2>6, <2>1 DEF vars
  <2> QED BY <2>3, <2>4, <2>5, <2>6 DEF Next
<1> QED BY <1>1, <1>2, TypeAndHold, PTL DEF Spec

\* A job becomes finished only when its pod closes a completed run.
LEMMA OnlyFinishFinishes ==
  ASSUME TypeOK, PodHoldsJob, OnceInQueue, [Next]_vars, NEW d \in Document,
         job'[d] = "finished", job[d] # "finished"
  PROVE  \E w \in Worker : Finish(w) /\ doc[w] = d
<1>0. /\ job \in [Document -> JobState] /\ doc \in [Worker -> Document \cup {NoDoc}]
  BY DEF TypeOK
<1>1. ~UNCHANGED job OBVIOUS
<1>2. ASSUME NEW c \in Document, HandleFailure(c) PROVE FALSE
  BY <1>2, <1>0, FailureEffect
<1>3. ASSUME NEW c \in Document, PushJob(c) PROVE FALSE
  BY <1>3, <1>0 DEF PushJob
<1>4. ASSUME NEW c \in Document, Upload(c) \/ RunScheduler(c) \/ ReapAbandoned(c) PROVE FALSE
  BY <1>4, <1>1, <1>2, <1>3 DEF Upload, RejectEmpty, StoreBlob, StoreBlobFails, Enqueue,
     EnqueueReplyLost, EnqueueFails, RunScheduler, ReapAbandoned
<1>5. ASSUME NEW w \in Worker, Dequeue(w) PROVE FALSE
  <2>1. Head(queue) \in Document /\ job' = [job EXCEPT ![Head(queue)] = "started"]
    BY <1>5, PopKeepsQueue DEF Dequeue
  <2> QED BY <2>1, <1>0
<1>6. ASSUME NEW w \in Worker, StartPod(w) \/ StopPod(w) \/ KillPod(w) PROVE FALSE
  BY <1>6, <1>1 DEF StartPod, StopPod, KillPod
<1>7. ASSUME NEW w \in Worker, Step(w) PROVE Finish(w) /\ doc[w] = d
  <2>1. CASE Finish(w) BY <2>1, <1>0 DEF Finish
  <2>2. CASE Raise(w)
    <3>1. doc[w] \in Document
      BY <2>2, <1>0 DEF Raise, PodHoldsJob
    <3> QED BY <3>1, <2>2, <1>2 DEF Raise
  <2>3. CASE ~Finish(w) /\ ~Raise(w)
    BY <1>7, <2>3, <1>1 DEF Step, Validate, CreatePool, DownloadBlob, ExtractAndChunk,
       EmbedBatch, InsertChunks
  <2> QED BY <2>1, <2>2, <2>3
<1>8. ~UNCHANGED vars BY <1>1 DEF vars
<1> QED BY <1>4, <1>5, <1>6, <1>7, <1>8 DEF Next

\* What a closing pod knows of its document, from WorkInHand.
LEMMA ClosingKnows ==
  ASSUME TypeOK, PodHoldsJob, WorkInHand, NEW w \in Worker, stage[w] = "closing"
  PROVE  /\ doc[w] \in Document \ OutOfContract
         /\ batch[w] \in Extractions[doc[w]]
         /\ Searchable(doc[w], batch[w])
BY NoDocFresh DEF TypeOK, PodHoldsJob, WorkInHand, Busy

LEMMA FinishedInvariant == Spec => [](FinishedIsSearchable /\ OutOfContractLeavesNoTrace)
<1> DEFINE I == FinishedIsSearchable /\ OutOfContractLeavesNoTrace
<1>1. Init => I
  BY UploadKinds DEF Init, FinishedIsSearchable, OutOfContractLeavesNoTrace
<1>2. TypeOK /\ PodHoldsJob /\ OnceInQueue /\ WorkInHand /\ I /\ [Next]_vars => I'
  <2> SUFFICES ASSUME TypeOK, PodHoldsJob, OnceInQueue, WorkInHand, FinishedIsSearchable,
                      OutOfContractLeavesNoTrace, [Next]_vars
               PROVE  FinishedIsSearchable' /\ OutOfContractLeavesNoTrace'
    OBVIOUS
  <2>1. table \subseteq table'
    BY OnlyInsertWrites, InsertEffect
  <2>2. ASSUME NEW d \in Document, job'[d] = "finished"
        PROVE  d \notin OutOfContract /\ \E hs \in Extractions[d] : Searchable(d, hs)'
    <3>1. CASE job[d] = "finished"
      <4>1. PICK hs \in Extractions[d] : Searchable(d, hs)
        BY <3>1 DEF FinishedIsSearchable
      <4>2. Searchable(d, hs)'
        BY <4>1, <2>1, SearchableStays
      <4> QED BY <3>1, <4>2, UploadKinds DEF OutOfContractLeavesNoTrace
    <3>2. CASE job[d] # "finished"
      <4>1. PICK w \in Worker : Finish(w) /\ doc[w] = d
        BY <2>2, <3>2, OnlyFinishFinishes
      <4>2. /\ d \notin OutOfContract /\ batch[w] \in Extractions[d]
            /\ Searchable(d, batch[w]) /\ table' = table
        BY <4>1, ClosingKnows DEF Finish
      <4> QED BY <4>2 DEF Searchable, HasRow
    <3> QED BY <3>1, <3>2
  <2>3. ASSUME NEW r \in table' PROVE r.document \notin OutOfContract
    <3>1. CASE r \in table
      BY <3>1 DEF OutOfContractLeavesNoTrace
    <3>2. CASE r \notin table
      <4>1. PICK w \in Worker : InsertChunks(w)
        BY <3>2, OnlyInsertWrites
      <4>2. r.document = doc[w] /\ stage[w] = "embedded"
        BY <3>2, <4>1, InsertEffect DEF InsertChunks, Advance
      <4> QED BY <4>2 DEF WorkInHand, Busy
    <3> QED BY <3>1, <3>2
  <2> QED BY <2>2, <2>3, UploadKinds DEF FinishedIsSearchable, OutOfContractLeavesNoTrace
<1> QED BY <1>1, <1>2, TypeAndHold, PlacesInvariant, WorkInvariant, PTL DEF Spec

\* A finished job's document is searchable in full for its tenant.
THEOREM FinishedDocumentsAreSearchable == Spec => []FinishedIsSearchable
BY FinishedInvariant, PTL

\* A message that fails validation leaves no row and no finished job.
THEOREM PoisonLeavesNoTrace == Spec => []OutOfContractLeavesNoTrace
BY FinishedInvariant, PTL

\* The rows of a run appear together: no reader sees part of a document.
THEOREM DocumentsAppearWhole == Spec => []NoPartialDocument
<1>1. Init => NoPartialDocument
  BY DEF Init, NoPartialDocument
<1>2. TypeOK /\ PodHoldsJob /\ WorkInHand /\ NoPartialDocument /\ [Next]_vars
        => NoPartialDocument'
  <2> SUFFICES ASSUME TypeOK, PodHoldsJob, WorkInHand, NoPartialDocument, [Next]_vars,
                      NEW r \in table'
               PROVE  \E hs \in Extractions[r.document] :
                        r.hash \in hs /\ Searchable(r.document, hs)'
    BY DEF NoPartialDocument
  <2>1. CASE r \in table
    <3>1. table \subseteq table'
      BY OnlyInsertWrites, InsertEffect
    <3>2. PICK hs \in Extractions[r.document] :
            r.hash \in hs /\ Searchable(r.document, hs)
      BY <2>1 DEF NoPartialDocument
    <3> QED BY <3>1, <3>2, SearchableStays
  <2>2. CASE r \notin table
    <3>1. PICK w \in Worker : InsertChunks(w)
      BY <2>2, OnlyInsertWrites
    <3>2. /\ r.document = doc[w] /\ r.hash \in batch[w]
          /\ Searchable(doc[w], batch[w])'
      BY <2>2, <3>1, InsertEffect
    <3>3. batch[w] \in Extractions[doc[w]] /\ UNCHANGED <<doc, batch>>
      BY <3>1 DEF InsertChunks, Advance, WorkInHand
    <3>4. Searchable(r.document, batch[w])'
      BY <3>2, <3>3 DEF Searchable, HasRow
    <3> QED BY <3>2, <3>3, <3>4 DEF Searchable, HasRow
  <2> QED BY <2>1, <2>2
<1> QED BY <1>1, <1>2, TypeAndHold, WorkInvariant, PTL DEF Spec

\* Everything that is said of the rows, the jobs, the retries and the pods' work
\* holds together at every step: what TLC checks on a small instance as one
\* invariant is one for any documents, pods, retries and extractions.
THEOREM EverythingHolds == Spec => []IInv
BY TypeCorrect, PlacesInvariant, JobsStayAccounted, RetryInvariant, EvidenceIsUnique,
   WorkInvariant, FinishedDocumentsAreSearchable, PoisonLeavesNoTrace, DocumentsAppearWhole,
   PTL DEF IInv

-----------------------------------------------------------------------------
(* Ingestion implements IngestContract.                                     *)

LEMMA ToldStays == ASSUME request' = request PROVE Told' = Told
BY DEF Told

LEMMA EvidenceStays == ASSUME table' = table PROVE Evidence' = Evidence
BY DEF Evidence

\* A handler's answer changes what that caller was told and nothing else.
LEMMA AnswerRefines ==
  ASSUME TypeOK, NEW d \in Document, request[d] \in {"none", "stored"},
         NEW r \in {"rejected", "accepted", "errored"}, Answer(d, r)
  PROVE  /\ Told[d] = "none"
         /\ Told' = [Told EXCEPT ![d] = IF r = "accepted" THEN "accepted" ELSE "refused"]
<1>1. request' = [request EXCEPT ![d] = r] /\ request \in [Document -> RequestState]
  BY DEF Answer, TypeOK
<1>2. Told'[d] = IF r = "accepted" THEN "accepted" ELSE "refused"
  BY <1>1 DEF Told
<1>3. \A x \in Document \ {d} : Told'[x] = Told[x]
  BY <1>1 DEF Told
<1>4. Told[d] = "none"
  BY DEF Told
<1> QED BY <1>2, <1>3, <1>4 DEF Told

\* Moves of a job between the list, the pods and the scheduler are invisible;
\* the others change its fate as their status says.
LEMMA JobRefines ==
  ASSUME TypeOK, NEW d \in Document, NEW s \in JobState, job' = [job EXCEPT ![d] = s]
  PROVE  /\ s = "finished" => Fate' = [Fate EXCEPT ![d] = "indexed"]
         /\ s = "failed" => Fate' = [Fate EXCEPT ![d] = "dead"]
         /\ s \in {"queued", "started", "scheduled"} => Fate' = [Fate EXCEPT ![d] = "pending"]
<1>1. job \in [Document -> JobState] BY DEF TypeOK
<1>2. \A x \in Document \ {d} : Fate'[x] = Fate[x]
  BY <1>1 DEF Fate
<1>3. CASE s = "finished"
  <2>1. Fate'[d] = "indexed" BY <1>1, <1>3 DEF Fate
  <2> QED BY <2>1, <1>2, <1>3 DEF Fate
<1>4. CASE s = "failed"
  <2>1. Fate'[d] = "dead" BY <1>1, <1>4 DEF Fate
  <2> QED BY <2>1, <1>2, <1>4 DEF Fate
<1>5. CASE s \in {"queued", "started", "scheduled"}
  <2>1. Fate'[d] = "pending" BY <1>1, <1>5 DEF Fate
  <2> QED BY <2>1, <1>2, <1>5 DEF Fate
<1> QED BY <1>3, <1>4, <1>5

LEMMA FateOfJob ==
  ASSUME NEW d \in Document
  PROVE  /\ job[d] = "none" => Fate[d] = "unknown"
         /\ job[d] \in {"queued", "started", "scheduled"} => Fate[d] = "pending"
         /\ Fate \in [Document -> {"unknown", "indexed", "dead", "pending"}]
BY DEF Fate

\* A step that moves a pending job to another pending state is a stutter.
LEMMA PendingMoves ==
  ASSUME TypeOK, NEW d \in Document, NEW s \in {"queued", "started", "scheduled"},
         job[d] \in {"queued", "started", "scheduled"}, job' = [job EXCEPT ![d] = s]
  PROVE  Fate' = Fate
<1>1. Fate' = [Fate EXCEPT ![d] = "pending"]
  BY JobRefines DEF JobState
<1>2. Fate[d] = "pending" /\ Fate \in [Document -> {"unknown", "indexed", "dead", "pending"}]
  BY FateOfJob
<1> QED BY <1>1, <1>2

\* The insert of a batch publishes one whole extraction.
LEMMA InsertRefines ==
  ASSUME TypeOK, PodHoldsJob, NEW w \in Worker, InsertChunks(w)
  PROVE  Evidence' = Evidence \cup ({TenantOf[doc[w]]} \X batch[w])
<1> DEFINE t == TenantOf[doc[w]]
<1>1. ASSUME NEW r \in table' PROVE <<r.tenant, r.hash>> \in Evidence \cup ({t} \X batch[w])
  <2>1. CASE r \in table BY <2>1 DEF Evidence
  <2>2. CASE r \notin table
    <3>1. r.tenant = t /\ r.hash \in batch[w] BY <2>2, InsertEffect
    <3> QED BY <3>1
  <2> QED BY <2>1, <2>2
<1>2. ASSUME NEW h \in batch[w] PROVE <<t, h>> \in Evidence'
  <2>1. Searchable(doc[w], batch[w])' /\ UNCHANGED <<doc, batch>>
    BY InsertEffect DEF InsertChunks
  <2>2. \E r \in table' : r.tenant = t /\ r.hash = h
    BY <2>1 DEF Searchable, HasRow
  <2> QED BY <2>2 DEF Evidence
<1>3. Evidence \subseteq Evidence'
  BY InsertEffect DEF Evidence
<1> QED BY <1>1, <1>2, <1>3 DEF Evidence

\* The queue, the registries, the retries and the pods implement the contract:
\* what a caller is told, what becomes of a document and what can be searched
\* change only as IngestContract allows.
THEOREM IngestionImplementsContract == Spec => ImplementsContract
<1>1. Init => Contract!Init
  BY DEF Init, Contract!Init, Told, Fate, Evidence
<1>2. /\ TypeOK /\ PodHoldsJob /\ OnceInQueue /\ Hands /\ UploadOrder /\ WorkInHand
      /\ [Next]_vars
      => [Contract!Next]_Contract!vars
  <2> SUFFICES ASSUME TypeOK, PodHoldsJob, OnceInQueue, Hands, UploadOrder, WorkInHand,
                      [Next]_vars
               PROVE  [Contract!Next]_Contract!vars
    OBVIOUS
  <2>0. /\ job \in [Document -> JobState] /\ doc \in [Worker -> Document \cup {NoDoc}]
    BY DEF TypeOK
  <2>1. ASSUME UNCHANGED <<Told, Fate, Evidence>> PROVE [Contract!Next]_Contract!vars
    BY <2>1 DEF Contract!vars
  <2>2. ASSUME UNCHANGED <<request, job, table>> PROVE [Contract!Next]_Contract!vars
    BY <2>2, <2>1 DEF Told, Fate, Evidence
  <2>3. ASSUME NEW d \in Document,
               \/ Contract!Accept(d) \/ Contract!Refuse(d)
               \/ Contract!Publish(d) \/ Contract!Settle(d)
        PROVE  [Contract!Next]_Contract!vars
    BY <2>3 DEF Contract!Next
  <2>4. ASSUME NEW d \in Document, job[d] = "started", HandleFailure(d),
               UNCHANGED <<request, table>>
        PROVE  [Contract!Next]_Contract!vars
    <3>1. CASE job' = [job EXCEPT ![d] = "scheduled"]
      <4>1. Fate' = Fate
        BY <2>4, <3>1, PendingMoves
      <4> QED BY <4>1, <2>1, <2>4 DEF Told, Evidence
    <3>2. CASE job' = [job EXCEPT ![d] = "failed"]
      <4>1. Fate' = [Fate EXCEPT ![d] = "dead"] /\ Fate[d] = "pending"
        BY <2>4, <3>2, JobRefines, FateOfJob DEF JobState
      <4>2. Contract!Settle(d)
        BY <2>4, <4>1 DEF Contract!Settle, Told, Evidence
      <4> QED BY <4>2, <2>3
    <3> QED BY <2>4, <3>1, <3>2, FailureEffect
  <2>5. ASSUME NEW d \in Document, Upload(d) PROVE [Contract!Next]_Contract!vars
    <3>1. CASE StoreBlob(d)
      <4>1. Told' = Told
        BY <3>1 DEF StoreBlob, Answer, Told, TypeOK
      <4> QED BY <3>1, <4>1, <2>1 DEF StoreBlob, Fate, Evidence
    <3>2. CASE RejectEmpty(d) \/ StoreBlobFails(d) \/ EnqueueFails(d)
      <4>1. PICK r \in {"rejected", "errored"} :
              /\ Answer(d, r) /\ request[d] \in {"none", "stored"}
              /\ UNCHANGED <<job, table>>
        BY <3>2 DEF RejectEmpty, StoreBlobFails, EnqueueFails
      <4>2. Told[d] = "none" /\ Told' = [Told EXCEPT ![d] = "refused"]
        BY <4>1, AnswerRefines
      <4>3. Contract!Refuse(d)
        BY <4>1, <4>2 DEF Contract!Refuse, Fate, Evidence
      <4> QED BY <4>3, <2>3
    <3>3. CASE Enqueue(d) \/ EnqueueReplyLost(d)
      <4>1. /\ request[d] = "stored" /\ job' = [job EXCEPT ![d] = "queued"]
            /\ table' = table
        BY <3>3 DEF Enqueue, EnqueueReplyLost, PushJob
      <4>2. Fate' = [Fate EXCEPT ![d] = "pending"] /\ Evidence' = Evidence
        BY <4>1, JobRefines, EvidenceStays DEF JobState
      <4>3. d \notin EmptyBody
        BY <4>1 DEF UploadOrder
      <4>4. CASE Enqueue(d)
        <5>1. Told[d] = "none" /\ Told' = [Told EXCEPT ![d] = "accepted"]
          BY <4>1, <4>4, AnswerRefines DEF Enqueue
        <5>2. Contract!Accept(d)
          BY <4>2, <4>3, <5>1 DEF Contract!Accept
        <5> QED BY <5>2, <2>3
      <4>5. CASE EnqueueReplyLost(d)
        <5>1. Told[d] = "none" /\ Told' = [Told EXCEPT ![d] = "refused"]
          BY <4>1, <4>5, AnswerRefines DEF EnqueueReplyLost
        <5>2. Contract!Refuse(d)
          BY <4>2, <4>3, <5>1 DEF Contract!Refuse
        <5> QED BY <5>2, <2>3
      <4> QED BY <3>3, <4>4, <4>5
    <3> QED BY <2>5, <3>1, <3>2, <3>3 DEF Upload
  <2>6. ASSUME NEW d \in Document, RunScheduler(d) PROVE [Contract!Next]_Contract!vars
    <3>1. Fate' = Fate
      BY <2>6, PendingMoves DEF RunScheduler, PushJob
    <3> QED BY <2>6, <3>1, <2>1 DEF RunScheduler, Told, Evidence
  <2>7. ASSUME NEW d \in Document, ReapAbandoned(d) PROVE [Contract!Next]_Contract!vars
    BY <2>7, <2>4 DEF ReapAbandoned
  <2>8. ASSUME NEW w \in Worker, StartPod(w) \/ StopPod(w) \/ KillPod(w)
        PROVE  [Contract!Next]_Contract!vars
    BY <2>8, <2>2 DEF StartPod, StopPod, KillPod
  <2>9. ASSUME NEW w \in Worker, Dequeue(w) PROVE [Contract!Next]_Contract!vars
    <3>1. /\ Head(queue) \in Document /\ job[Head(queue)] = "queued"
          /\ job' = [job EXCEPT ![Head(queue)] = "started"]
          /\ UNCHANGED <<request, table>>
      BY <2>9, PopKeepsQueue DEF Dequeue
    <3>2. Fate' = Fate
      BY <3>1, PendingMoves
    <3> QED BY <3>1, <3>2, <2>1 DEF Told, Evidence
  <2>10. ASSUME NEW w \in Worker, Step(w) PROVE [Contract!Next]_Contract!vars
    <3>1. CASE Validate(w) \/ CreatePool(w) \/ DownloadBlob(w) \/ ExtractAndChunk(w)
               \/ EmbedBatch(w)
      BY <3>1, <2>2 DEF Validate, CreatePool, DownloadBlob, ExtractAndChunk, EmbedBatch
    <3> DEFINE d == doc[w]
    <3>2. ASSUME stage[w] \in Busy
          PROVE  d \in Document /\ job[d] = "started" /\ Fate[d] = "pending"
      BY <3>2, <2>0, FateOfJob DEF PodHoldsJob, Hands
    <3>3. CASE InsertChunks(w)
      <4>1. /\ d \in Document /\ Fate[d] = "pending" /\ d \notin OutOfContract
            /\ batch[w] \in Extractions[d] /\ UNCHANGED <<request, job>>
        BY <3>2, <3>3 DEF InsertChunks, Advance, WorkInHand, Busy
      <4>2. Evidence' = Evidence \cup Contract!EvidenceOf(d, batch[w])
        BY <3>3, InsertRefines DEF Contract!EvidenceOf
      <4>3. Contract!Publish(d)
        BY <4>1, <4>2 DEF Contract!Publish, Told, Fate
      <4> QED BY <4>1, <4>3, <2>3
    <3>4. CASE Finish(w)
      <4>1. /\ d \in Document \ OutOfContract /\ batch[w] \in Extractions[d]
            /\ Searchable(d, batch[w]) /\ Fate[d] = "pending"
        BY <3>2, <3>4, ClosingKnows DEF Finish, Busy
      <4>2. job' = [job EXCEPT ![d] = "finished"] /\ UNCHANGED <<request, table>>
        BY <3>4 DEF Finish
      <4>3. Fate' = [Fate EXCEPT ![d] = "indexed"]
        BY <4>1, <4>2, JobRefines DEF JobState
      <4>4. Contract!EvidenceOf(d, batch[w]) \subseteq Evidence
        BY <4>1 DEF Contract!EvidenceOf, Searchable, HasRow, Evidence
      <4>5. Contract!Settle(d)
        BY <4>1, <4>2, <4>3, <4>4 DEF Contract!Settle, Told, Evidence
      <4> QED BY <4>1, <4>5, <2>3
    <3>5. CASE Raise(w)
      BY <3>2, <3>5, <2>4 DEF Raise
    <3> QED BY <2>10, <3>1, <3>3, <3>4, <3>5 DEF Step
  <2>11. CASE UNCHANGED vars BY <2>11, <2>2 DEF vars
  <2> QED BY <2>5, <2>6, <2>7, <2>8, <2>9, <2>10, <2>11 DEF Next
<1> QED BY <1>1, <1>2, TypeAndHold, PlacesInvariant, WorkInvariant, PTL DEF Spec, ImplementsContract, Contract!Spec

-----------------------------------------------------------------------------
(* Ingestion implements JobLife.                                            *)

LEMMA FailureLives ==
  ASSUME TypeOK, NEW d \in Document, job[d] = "started", HandleFailure(d)
  PROVE  Life!Next
<1>1. retriesLeft[d] \in Nat
  BY MaxRetriesNat DEF TypeOK
<1>2. CASE retriesLeft[d] > 0
  <2>1. Life!Retry(d)
    BY <1>2 DEF HandleFailure, Life!Retry, Life!Move
  <2> QED BY <2>1 DEF Life!Next
<1>3. CASE ~(retriesLeft[d] > 0)
  <2>1. retriesLeft[d] = 0
    BY <1>1, <1>3
  <2>2. Life!DeadLetter(d)
    BY <1>3, <2>1 DEF HandleFailure, Life!DeadLetter, Life!Move
  <2> QED BY <2>2 DEF Life!Next
<1> QED BY <1>2, <1>3

\* Whichever pods stop, die or raise and however often the list is read, a job
\* runs only out of the list, pays for each failed run and is settled once: the
\* same life that the clocks of ScaleToZero leave it.
THEOREM IngestionImplementsJobLife == Spec => ImplementsJobLife
<1>1. Init => Life!Init
  BY DEF Init, Life!Init
<1>2. /\ TypeOK /\ PodHoldsJob /\ OnceInQueue /\ Hands /\ UploadOrder /\ RetryAccount
      /\ [Next]_vars
      => [Life!Next]_(Life!vars)
  <2> SUFFICES ASSUME TypeOK, PodHoldsJob, OnceInQueue, Hands, UploadOrder, RetryAccount,
                      [Next]_vars
               PROVE  Life!Next \/ UNCHANGED <<job, retriesLeft>>
    BY DEF Life!vars
  <2>1. ASSUME NEW d \in Document, Upload(d) PROVE Life!Next \/ UNCHANGED <<job, retriesLeft>>
    <3>1. CASE Enqueue(d) \/ EnqueueReplyLost(d)
      <4>1. /\ request[d] = "stored" /\ job' = [job EXCEPT ![d] = "queued"]
            /\ retriesLeft' = [retriesLeft EXCEPT ![d] = MaxRetries]
        BY <3>1 DEF Enqueue, EnqueueReplyLost, PushJob
      <4>2. job[d] = "none"
        BY <4>1 DEF UploadOrder
      <4>3. retriesLeft[d] = MaxRetries
        <5>1. runs[d] = 0 /\ runs[d] + retriesLeft[d] = MaxRetries
          BY <4>2 DEF RetryAccount
        <5>2. retriesLeft[d] \in Nat
          BY MaxRetriesNat DEF TypeOK
        <5> QED BY <5>1, <5>2
      <4>4. retriesLeft' = retriesLeft
        BY <4>1, <4>3 DEF TypeOK
      <4>5. Life!Enqueue(d)
        BY <4>1, <4>2, <4>4 DEF Life!Enqueue, Life!Move
      <4> QED BY <4>5 DEF Life!Next
    <3>2. CASE RejectEmpty(d) \/ StoreBlob(d) \/ StoreBlobFails(d) \/ EnqueueFails(d)
      BY <3>2 DEF RejectEmpty, StoreBlob, StoreBlobFails, EnqueueFails, rqVars
    <3> QED BY <2>1, <3>1, <3>2 DEF Upload
  <2>2. ASSUME NEW d \in Document, RunScheduler(d) PROVE Life!Next
    <3>1. Life!Requeue(d)
      BY <2>2 DEF RunScheduler, PushJob, Life!Requeue, Life!Move
    <3> QED BY <3>1 DEF Life!Next
  <2>3. ASSUME NEW d \in Document, ReapAbandoned(d) PROVE Life!Next
    BY <2>3, FailureLives DEF ReapAbandoned
  <2>4. ASSUME NEW w \in Worker, StartPod(w) \/ StopPod(w) \/ KillPod(w)
        PROVE  UNCHANGED <<job, retriesLeft>>
    BY <2>4 DEF StartPod, StopPod, KillPod, rqVars
  <2>5. ASSUME NEW w \in Worker, Dequeue(w) PROVE Life!Next
    <3> DEFINE h == Head(queue)
    <3>1. /\ queue # <<>> /\ queue' = Tail(queue) /\ job' = [job EXCEPT ![h] = "started"]
          /\ UNCHANGED retriesLeft
      BY <2>5 DEF Dequeue
    <3>2. h \in Document /\ job[h] = "queued"
      BY <3>1, PopKeepsQueue
    <3> HIDE DEF h
    <3>3. Life!Run(h)
      BY <3>1, <3>2 DEF Life!Run, Life!Move
    <3> QED BY <3>2, <3>3 DEF Life!Next
  <2>6. ASSUME NEW w \in Worker, Step(w) PROVE Life!Next \/ UNCHANGED <<job, retriesLeft>>
    <3>1. CASE Validate(w) \/ CreatePool(w) \/ DownloadBlob(w) \/ ExtractAndChunk(w)
               \/ EmbedBatch(w) \/ InsertChunks(w)
      BY <3>1 DEF Validate, CreatePool, DownloadBlob, ExtractAndChunk, EmbedBatch,
                  InsertChunks, rqVars
    <3>2. CASE Finish(w) \/ Raise(w)
      <4>1. doc[w] \in Document /\ job[doc[w]] = "started"
        BY <3>2 DEF Finish, Raise, PodHoldsJob, Hands, Busy, TypeOK
      <4>2. CASE Finish(w)
        <5>1. Life!Finish(doc[w])
          BY <4>1, <4>2 DEF Finish, Life!Finish, Life!Move
        <5> QED BY <4>1, <5>1 DEF Life!Next
      <4>3. CASE Raise(w)
        BY <4>1, <4>3, FailureLives DEF Raise
      <4> QED BY <3>2, <4>2, <4>3
    <3> QED BY <2>6, <3>1, <3>2 DEF Step
  <2>7. CASE UNCHANGED vars
    BY <2>7 DEF vars, rqVars
  <2> QED BY <2>1, <2>2, <2>3, <2>4, <2>5, <2>6, <2>7 DEF Next
<1> QED
  BY <1>1, <1>2, TypeAndHold, PlacesInvariant, RetryInvariant, PTL
     DEF Spec, ImplementsJobLife, Life!Spec
=============================================================================
