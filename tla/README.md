# Verification of the rag-retrieval-service

TLA+ modules, TLC configurations and TLAPS proofs for the service in `src/`
(Python, RQ on Redis, Postgres with pgvector, KEDA on Kubernetes). The modules
are translated from the code; `PROJECT.json` maps each definition to its lines.

## 1. The system

A document enters through `upload-api`, which writes its bytes to blob storage
and enqueues a job. `embedding-worker` pods, scaled by KEDA from the length of
the queue, run the job: validate, download, extract, chunk, embed, insert into
the `chunks` table. `retrieval-api` answers queries from a read replica of that
table; `mcp-server` offers both as tools. A load test and three evals measure
`retrieval-api` from outside.

```
 caller -> upload-api -> blob storage
                     \-> Redis list rq:queue:embed-jobs <- RQ scheduler (in each pod)
                            |  (length watched by KEDA)
                            v
                    embedding-worker -> extraction, chunking, embeddings
                            v
                     chunks (primary) ~> replica -> retrieval-api -> reranker, LLM
                                                        ^
                                   mcp-server / caller / loadtest, evals
```

| Component | State | Operations | What makes it correct |
|---|---|---|---|
| upload-api (`upload_api/main.py`) | none of its own; blobs, Redis list | `ingest_document`, `ingest_file`, `_ingest` | bytes before job; a 202 means the job exists |
| embedding-worker (`embedding_worker/`) | job in hand, stage, batch | `process_document`, `_process`, `_insert_chunks` | a finished job's document is searchable in full; no partial document |
| RQ + Redis (library) | list, registries, retries left | enqueue, dequeue, retry, scheduler, maintenance | no job lost, forked or run beyond its budget; every job settles |
| KEDA + Deployment (`k8s/ingestion/`) | replicas, poll and cool-down clocks | poll, activate, scale to zero, kill | queued work gets a pod |
| chunks table (`common/schema.sql`, `tasks.py`) | rows, open transactions | `executemany` with ON CONFLICT | one row per tenant and text; a document's rows appear at once |
| chunking (`common/chunking.py`) | loop variables | `chunk_document` and its helpers | no text lost, cited under its own heading and pages, within size |
| extraction (`common/extraction/`) | none | `extract` | an input of the models |
| retrieval, rerank, assembly (`common/`) | one query's lists | `retrieve`, `rerank`, `assemble` | the tenant's own rows once, in an order unanimity respects; degrade loses nothing; budget held |
| embeddings client (`common/embeddings.py`) | sub-batch, attempt, vectors so far | `embed_batch`, `aclose` | each chunk is stored with the vector of its own text |
| retrieval-api (`retrieval_api/main.py`) | connection pool, shared clients, phase of `lifespan` | `lifespan`, `answer_query`, `search`, `readyz` | every query ends and every caller who waits is told; pool and clients outlive their use; a shutdown ends and leaves nothing open |
| mcp-server (`mcp_server/`) | none | three tools | its time-outs and tokens fit the APIs behind it |
| load test and evals (`scripts/loadtest.py`, `evals/`) | lanes, attempts, results | one POST after another, retry, report | a report counts each request once and rightly, whatever the service does |
| auth, config, db, Azure clients, otel | settings, cached clients | start-up, per-request check | seen through their effects on the handlers |

Hard behaviours, listed line by line as `hazards` in `PROJECT.json`: crashes
and reaped jobs between commit and acknowledgement; ambiguous failures of blob
and enqueue; concurrent transactions over shared chunks; retries whose
scheduler lives in the pods that KEDA removes; OCR that reads the same bytes
differently on a retry; SELECTs without a common snapshot; clients built
late by handlers that outlast SIGTERM; callers that give up on handlers that go
on; boundaries of windows, sub-batches, page spans, ranks, slices and budgets.

## 2. Modules and plan

| Module | Models | State |
|---|---|---|
| `IngestContract` | what ingestion promises its callers | done |
| `Ingestion` (`MCIngestion`, `IngestionProofs`) | upload, RQ, pods and the job; implements `IngestContract` | done, proved |
| `ScaleToZero` (`MCScaleToZero`, `ScaleToZeroProofs`) | the clocks of KEDA, retries and grace that `Ingestion` abstracts | done, proved |
| `JobLife` | what RQ makes of a job, whoever runs, kills or schedules it; implemented by `Ingestion` and by `ScaleToZero` | done |
| `ChunkTable` | the one-step insert of a document | done |
| `InsertTransactions` (`MCInsertTransactions`, `InsertTransactionsProofs`) | `_insert_chunks` as concurrent transactions; implements `ChunkTable` | done, proved |
| `Chunking` (`MCChunking`, `ChunkingProofs`) | `chunk_document` | done, proved |
| `Indexing` (`MCIndexing`, `IndexingProofs`) | chunks, their vectors in sub-batches, and the rows made of both; extends `Chunking` | done, proved |
| `Retrieval` (`MCRetrieval`, `RetrievalProofs`) | one query from embedding to answer | done, proved |
| `QueryContract` | what `retrieval-api` promises those who POST to it, and what it does not | done |
| `QueryService` (`MCQueryService`, `QueryServiceProofs`) | several queries on one retrieval-api process: its pool, clients, attempts, readiness, start, shutdown and death; mcp-server's time-outs and tokens; implements `QueryContract` | done, proved |
| `Harness` (`MCHarness`, `HarnessProofs`) | the load test and the evals, over a service that keeps `QueryContract` and no more | done, proved |

Composition: `Ingestion!InsertChunks` is one step because
`InsertTransactions` implements `ChunkTable`, whose `Insert` is that step.
`Extractions` of `Ingestion` stands for what extraction and `Chunking` yield.
`Indexing` goes on where `Chunking` ends, with the same chunks; its five steps
are `EmbedBatch` of `Ingestion`, which succeeds or raises.
`ScaleToZero` has the job states of `Ingestion`, for one pod, with time: each of the
two implements `JobLife`, so neither lets a job do what the other rules out.
`QueryService` has one step where `Retrieval` has the statements between two awaits.
`Retrieval` reads a table that `Replicate` grows by whole transactions.
`Harness` takes its steps of the service from `QueryContract` and
`QueryService` implements `QueryContract`: what holds of the scripts holds of them against
`QueryService`.

What the plan has left, in order:

1. `ScaleToZero` with more than one pod.
2. `_compress` as an operator checked against its reference definition.

## 3. How state and actions correspond to the code

**Ingestion.** A `Document` is one POST that reaches `_ingest`; its id is a
fresh uuid, so a repeated POST is another `Document` with the same tenant and
extractions. `request` is how far its handler got; `blobs`, `queue` and `table`
are the durable stores; `job`, `retriesLeft` and `runs` are RQ's record of the
job; `stage`, `doc`, `batch` and `stopping` belong to a pod. Every `await` of
`_process` is an action (`Validate`, `CreatePool`, `DownloadBlob`,
`ExtractAndChunk`, `EmbedBatch`, `InsertChunks`, `Finish`), between any two of
which the pod may get SIGTERM (`StopPod`), die (`KillPod`) or raise (`Raise`).
`HandleFailure` is what RQ does with a run that raised, used also for jobs that
an idle worker finds abandoned (`ReapAbandoned`). An enqueue has three outcomes:
done, done with the reply lost, not done. `is_poison` says of a message out of
contract "dead-letter it immediately" (tasks.py:38), but only the log line depends
on it: the exception is raised into RQ's `Retry(max=3)` and `Raise` treats it like
any other. It takes a producer whose `IngestMessage` is another than the worker's;
`OutOfContractLeavesNoTrace` says that nothing is left of it but a dead job.

**ScaleToZero.** The same jobs with durations in ticks: `Poll` is KEDA's,
`due` the retry's, `grace` the pod's. `Tick` waits for whatever happens at once.

**InsertTransactions.** One action per statement: `Begin`, `InsertRow` (waits
for a transaction that has the key in hand, skips a committed key), `Commit`,
`Rollback` by an interruption or as a deadlock's victim.

**Chunking.** A text is a sequence of one-token elements: words, white space,
headings. The loops of `_split_by_heading`, `_heading_chunks` and
`_fixed_chunks` are the actions; `stack`, `sections`, `offset`, `start_index`
and the two chunk lists are the variables. `strip` moves the ends of a range to
the first and last visible position. Tokens that straddle elements and the
tokenizer's own merging are abstracted.

**Retrieval.** One action per await of the handler; the statements between two
awaits are part of the action before. Scores are exact integers, multiplied by `Scale`,
a common denominator of all of them; a row's age enters as `Decay`, two to the
number of its half-lives, by which its boost is divided. What similarity, text match and the cross-encoder decide
is any order the statement can return. `Ordered` puts a finite set in the order
of a relation: the place of an element is the number of those before it.
`SortedBy` (Python's stable `sorted`) and `Keeping` (a filter) read a list in
such an order, without recursion, so that they can be proved about. `Slice` is Python's `s[:n]` for negative
`n` too. `RerankerOrders` is the reply of the reranker, a service outside `src/`: it
is taken to score each text it was sent once, which `rerank` does not check. `_compress` is abstracted to the number of tokens it may leave.

**Indexing.** `stage` is the call of `_process` that runs. `embed_batch` goes
through `chunks` by `MaxInputs`, each request with up to `EmbedAttempts`
attempts; a vector is the number of the chunk whose text it was made from. A
response may hold fewer vectors than inputs: nothing in `embed_batch` looks,
and `zip(strict=True)` in `_insert_chunks` is what stands against it.

**QueryContract.** Two variables: what a caller knows of a POST and which POSTs
have handlers at work. A POST is taken or turned away; a handler ends, and its
caller is told if he still waits; a caller stops waiting and the handler does
not notice; the process ends with all its handlers.

**QueryService.** `handler` is the await a query's handler is at, `caller` what
its caller knows; the two are separate because a caller that gives up
(`GatewayTimeout`) leaves the handler running. `conns` are the queries between
the ends of `async with pool.acquire()`, which spans the SELECTs and every
attempt of the reranker but neither embedding nor generation. `gatewayAuth` and
`apiAuth` say whether `load_secrets` found the issuer, in mcp-server and in
retrieval-api; `Header` is what the request carries, nothing for an agent's.
`ProbeSucceeds` and `ProbeFails` are the kubelet's calls of `readyz`; a probe
occupies its connection for no time. `/v1/search` ends in the first attempt of
`generate`. `phase` is where `lifespan` is: `Start` is its part before the
yield, `Sigterm` ends the Service's traffic, `CloseAll` is one await after the
yield, the first of them when uvicorn has waited for its handlers and
`pool.close()` for its connections; `Die` is a kill, or an `aclose` that
raises. `open` are the pool, the clients and the credential they get their tokens from; a handler
builds the client it needs first (`AoaiBuilt`, `ProviderBuilt`), also
one that outlasts SIGTERM. A process that is gone is followed by the next `Start`.

**Harness.** A script is a record: how many lanes, how many requests in each,
how many attempts a request has, whether a failure ends it
(`raise_for_status` in the evals) or is recorded (the load test), and after how
many requests the judge is called, whose failure ends it too (`JudgeFails`). `at` is where each lane is. A POST
is a lane, a request and an attempt, and what becomes of it is
`QueryContract`'s. `LoadTest`, `Layer1`, `RerankDelta` and `AssemblyTable`
translate the arguments of the scripts.

## 4. Runs

| Run | Expect | Shows |
|---|---|---|
| `ingest` | pass | an upload beside one that shares its chunks, one out of contract or one with an empty body; two pods that stop and die anywhere: the inductive invariant `IInv`, `JobsAccounted`, `JobHasBlob`, `RetryBudget`, `NoDuplicateEvidence`, `NoPartialDocument`, `FinishedIsSearchable`, `OutOfContractLeavesNoTrace`; `ImplementsContract`, and `SettlesEveryJob`: if pods keep coming back, every enqueued job ends finished or dead |
| `scale_drains` | pass | `ImplementsJobLife` through cool-downs, drained pods and kills; `BacklogIsDrained`, for a list above the activation length |
| `scale_stranded` | violation | `ScheduledRetryRuns`: a retry that waits when the pods go is never enqueued |
| `scale_lone` | violation | `LoneUploadStarts`: one queued job does not exceed `activationListLength` 1 |
| `indexing` | pass | `TypeOK` (chunks within size), `IndicesConsecutive`, `EveryWordCited`, `NeighboursTogether`, `PagesCover`, `NestingWhenUnskipped`, and `RowsCarryTheirOwnVector` through sub-batches, repeated requests and short responses |
| `chunking_nesting` | violation | `NestingPreserved`: the second of two `##` headings without a `#` is filed under the first |
| `inserts` | pass | `IInv`, `ImplementsChunkTable`, `EveryJobEnds` |
| `query` | pass | `TypeOK` (budget held), `EvidenceOwnAndOnce`, `UnanimityKept`, `RerankLosesNothing`, `ContextIsBestPrefix` |
| `query_service` | pass | `TypeOK` (attempts bounded), `PoolAccounted`, `ServedWithScope`, `NothingUsedAfterClose`, `LeavesNothingOpen`, `ImplementsQueryContract`; under fairness `EveryHandlerEnds`, `PodComesBack`, `ShutdownEnds` |
| `query_agents` | violation | `AgentsWithScopeAreServed`: docs/API.md:75 offers the tools by scope; mcp-server sends no token, and retrieval-api refuses the agent it has let in |
| `harness` | pass | `TypeOK` (attempts bounded), `ReportIsComplete`, `OneAtATime`; `ScriptEnds`, with nothing assumed of the service |
| `query_freshness` | violation | `FreshnessNeverReorders`: the boost is worth about thirty rank steps |

Each property of a passing run has a mutant in `PROJECT.json`: an operator in
the module that changes one definition as a plausible bug would and under
which TLC finds the property violated.

## 5. Bounds and why they are enough

- Ingestion: two documents of one tenant that share a chunk are the smallest
  case of dedup across documents; one of them has two possible extractions
  (OCR), the other may have none. `Companions` lets one document be uploaded
  beside `a`: the overlapping one, the one out of contract or the empty one, since jobs meet only in
  the queue, in a pod and in the table, and two are enough for each. Two pods race for jobs and die
  independently; one retry separates first run, last run and dead letter.
  One tenant: tenants meet only in
  `HasRow`, and the proofs hold for any number. `runs` is bounded by the retries.
- ScaleToZero: the violations use the deployed periods in ticks of five
  seconds. `scale_drains` uses compressed periods in the same order (interval
  shorter than cool-down, a run that can outlast cool-down plus grace), and four
  documents, two more than activation takes.
- Chunking and Indexing: every text of up to `MaxLen` = 5 elements over words,
  white space and three heading levels: two sections, one of them larger than a
  window of 1, 2 or 3, and a heading path of every shape three levels allow.
  Settings without overlap, with a partial one, and with one as large as the
  window. Page maps: none, a break in the middle, and a gap in texts of up to
  three elements. Two chunks to a sub-batch, so that up to five chunks fill one, two or
  three sub-batches, the last in part; two attempts, the first and the last.
- InsertTransactions: three jobs, the smallest circle that is not a pair, rows
  in rotated order and one repeated within a document; one retry.
- Retrieval: four rows, one of another tenant; `CandidateK` = 2 over
  three own rows lets the two lists differ, tie and be cut; the deployed
  `rrf_k` = 60; one row two half-lives old, the others new; `TopK` negative, zero, cutting and generous; the reranker disabled, without an address and served; a budget that
  two chunks fill exactly and a third alone exceeds.
- QueryService: one connection for an application's and an agent's query: the
  one that waits, the one that holds, and the probe between them; two attempts
  (the first and the last) and two probes until the pod is taken out. Starts and
  kills have no bound, so that a query may meet any number of processes.
  `query_agents` needs one attempt and one probe only.
- Harness: three requests on one lane and on two (one more than the lanes
  divide evenly, which the load test drops), three fixtures at once, one fixture
  in two and in three modes, the judge after each of the three; three attempts,
  as deployed.

`CHECK_DEADLOCK FALSE` is set only where a run of the system ends: an indexed
document, answered queries, inserted jobs, a script that has reported. Everything else
goes on for ever.

## 6. Fairness

- `Ingestion`: a pod that has a job goes on (weak, per pod: a worker is a
  running process). Nothing starts a pod: KEDA does only when the list is longer
  than `activationListLength`, and whether it is in the end depends on uploads
  nobody has to make. `SettlesEveryJob` therefore has the condition that a pod is
  up again and again; `scale_stranded` and `scale_lone` show what becomes of a
  job when none is.
  Dequeue, the scheduler and the maintenance are strongly fair as a whole: pods
  may be stopped between any two steps, but not for ever in just the moment
  before they look; which job they take is not said. No fairness on uploads,
  failures, stops or kills.
- `ScaleToZero`: time passes, KEDA polls, a run ends; maintenance is strongly
  fair because the pod that does it comes and goes. The counterexamples of
  `scale_stranded` and `scale_lone` hold under that fairness.
- `InsertTransactions`: a statement that can proceed does, and Postgres' deadlock
  check runs (weak, per job). Interruptions are never forced.
- `QueryService`: every await of a handler ends, in time or by a fault (weak, per
  query: the calls of the models have time-outs and bounded attempts; the SELECTs
  have none, as `create_pool` sets no `command_timeout`, so that they end is an
  assumption about the database and its connections); the pool serves its waiters
  in turn (strong on `Acquire`: a connection that comes and goes is not always
  another's); a process that is gone is replaced and `lifespan`'s awaits end
  (weak); a probe succeeds in the end if it could again and again (strong:
  neither a rollout nor a failing database comes before it for ever). No
  caller has to call, none gives up in fairness, nobody has to stop the
  process and nothing has to kill it.
- `Harness`: a lane's await ends, by an answer or by the client's time-out (weak,
  per lane), and the report is written, for which the judge's calls have to end.
  Nothing is assumed of the service.
- `Chunking`, `Indexing` and `Retrieval` have safety properties only.

## 7. What is proved

By TLAPS, for every value of the constants that satisfies the named
assumptions, with no bound on documents, texts, pods, tenants, hashes, jobs,
retries, queries, connections, scripts or requests. The assumptions:
`TenantOfType`, `ExtractionsType`, `UploadKinds`, `MaxRetriesNat`, `NoDocFresh` (Ingestion),
`RowsType`, `MaxRetriesNat` (InsertTransactions), `InputAssumption` (Chunking), `EmbedAssumption`
(Indexing), `CallersAssumption`, `LimitsAssumption` (QueryService),
`ScriptType`, `AttemptsNat` (Harness), `ParameterAssumption`, `ScaleAssumption`
(Retrieval), `DocumentType`, `IntervalType`, `DurationsType`, `ScalingType`,
`NoDocFresh` (ScaleToZero). They say what kind of thing a constant is, that
limits are at least one and, `ScaleAssumption`, that `Scale` is a common
denominator, so that no score is rounded.

**IngestionProofs.** The properties are not inductive alone; the argument is in
layers, each proved on top of those before:

1. `TypeAndHold`: types, and a pod is busy exactly while it has a job. Without
   the latter `Finish` could assign to the job `NoDoc`.
2. `PlacesInvariant`: the list holds the queued jobs once each, no two pods
   hold one job, and uploads go bytes, job, answer. Each of the three is needed
   for the next: a job is pushed only when it is in no other place, which for a
   fresh upload is `UploadOrder`. Gives `JobsStayAccounted` and `JobsHaveBlobs`.
3. `RetryInvariant`: runs plus retries left is `MaxRetries` while a job waits
   and one more once it was started. Gives `RetriesAreBounded`.
4. `DedupInvariant`: only `InsertChunks` writes, and only keys not there.
   Gives `EvidenceIsUnique`.
5. `WorkInvariant`: what a pod knows at each stage; at the end its batch is
   searchable, because rows never go away. Gives
   `FinishedDocumentsAreSearchable`, `PoisonLeavesNoTrace`, `DocumentsAppearWhole`.
6. `EverythingHolds`: all of these together, which is `IInv`.
7. `IngestionImplementsContract`: under the mapping `Told`, `Fate`, `Evidence`
   every step is a step of `IngestContract` or stutters.
8. `IngestionImplementsJobLife`: a run goes on only with its own job, which
   `PlacesInvariant` says is the started one, and a fresh job has all its retries by
   `RetryInvariant`; therefore every step is one of `JobLife`, or leaves the jobs alone.

**InsertTransactionsProofs.** `TransactionsInvariant`: keys have one writer, and
every row sent so far is in the transaction's hand or committed.
`TransactionsImplementChunkTable`: therefore `Commit` adds exactly the
document's keys that were missing, which is `ChunkTable!Insert`; everything
else stutters or gives up.

**ChunkingProofs.** Six theorems over one model, in layers:

1. `TypesInv`: `TypeOK` and where each loop can be. Gives `ChunksFit`.
2. `SectionsInv`: each section holds just the words under its heading, and the
   sections together reach as far as the loop over headings has come.
3. `ChunksInv`: any two words that are close enough to be kept together (a word
   and itself among them) are together in a chunk, if their section is gone
   through, or in a chunk found in the current one, if they lie before the
   offset of the next window. Gives `NothingIsLost` and `OverlapHolds`: what is
   left when the loops are over is nothing.
4. `IndexInv` counts the chunks found together with those kept. Gives `ChunksCountUp`.
5. `PagesInv`: a chunk lies within its section and cites its section's first and
   last page. Gives `PagesAreCited`, for pages in order, which the extraction's
   spans are and `PagesCover` alone does not say.
6. `PathsInv`: while no level is skipped the stack has one heading of each
   level, each of them the last of its level or of a higher one. Gives
   `NestingIsPreserved`; `chunking_nesting` shows that the condition is needed.

**IndexingProofs.** `VectorsMatchTheirTexts`. Since a response may be short, the
invariant `VInv` says: there are never more vectors than chunks gone through,
and if there are as many then each is in its place. `IndexingImplementsChunking`
carries the six theorems above over to `Indexing`.

**QueryServiceProofs.** For any number of queries and any pool.
`ConnectionsAccounted`: a connection is out exactly while its handler is in
`retrieve` or `rerank`, and never more than `PoolSize` are. `DoorsHold`:
whoever is past a door showed the scope while that door had an issuer.
`ClientsOutliveTheirUse` and `NothingLeftOpen` rest on one invariant: a handler
that is active has what it needs open; once the pool is closed no handler is
active, so that no client is built again; and at each phase of `lifespan` only what its later
awaits close is still open. `QueryServiceImplementsContract`: the callers, with
the active handlers as `running`, see a step of `QueryContract` or none.

**HarnessProofs.** `HInv`: where a lane is divides its POSTs, into those done
with, the one it is at, and those not sent yet; a result is what the POSTs of
its request say. Gives `LanesAreSequential` and `ReportsAreComplete`.

**RetrievalProofs.** For any rows, tenants, requests, rankings, `rrf_k`,
`candidate_k`, `top_k` and budget.

1. The lists. `OrderedArranges`: in a strict order of a finite set the number of
   those before an element runs through 0, 1, ... once each, so `Ordered` lists
   the set in that order. From it `SortedBySorts` and `KeepingKeeps`: nothing is
   lost, nothing doubled, higher scores first. `SliceIsPrefix` for any integer.
2. `QInv`: types, which lists are still empty at which await (`Progress`), and
   that each ranking holds rows the tenant has (`RankingsOwn`). The last is why
   the three SELECTs need no common snapshot: rows are only added, so what an
   earlier SELECT found a later one still finds. Gives `TypeCorrect`.
3. `FetchedRows`: the candidates are the first `candidate_k` of what the
   retrievers found. Gives `EvidenceIsOwnAndOnce`.
4. `FusedRespects`: a row that every ranking of another puts before it has
   strictly more points, since points fall with the rank and no ranking that
   lacks the other can take from the sum. So it survives the cut with the
   other, its boost is no smaller (`BoostFalls`), and it comes first.
   Gives `UnanimityHolds`; `query_freshness` shows that "at least as fresh" is needed.
5. `CutOf` says what may be returned of the candidates, and each of the three
   ways out (pass-through, cross-encoder, degrade) returns that. Gives
   `RerankingLosesNothing`. `NothingFound` returns all of no candidates.
6. `ContextInv` adds to `ContextIsBestPrefix` that the loop has looked at just
   the chunks it packed, as it stops at the first that does not fit. Gives `ContextIsPrefix`.
   With 3 it gives `ContextIsOwnAndOnce`: what the LLM reads.

**ScaleToZeroProofs.** For any documents, intervals and periods. `SInv`: the types,
and `JobsInPlace`, which says that the list is the queued jobs, once each, so that
what KEDA measures leaves out waiting retries, killed runs and the one at work, and
that a pod at work has a started job in hand. Gives `ListIsTheQueued`.
`NothingElseWakes`: at zero pods with a list that does not activate the trigger
every step leaves jobs, list and pods alone, but for an upload. From the same step
`SleepIsForEver`: once no upload is to come, every job keeps its state, so that a
retry that waits then never runs; `scale_stranded` shows that the deployed values
get there. No run lists these properties; they are stated in `ScaleToZero`.
`ClocksImplementJobLife`: with intervals for `MaxRetries` retries the clocks add
nothing to the life of a job but the time it takes; a run that ends is one of the
started job by `JobsInPlace`.

**Only model-checked.** All liveness (`SettlesEveryJob`, `BacklogIsDrained`,
`EveryJobEnds`, `EveryHandlerEnds`, `PodComesBack`,
`ShutdownEnds`, `ScriptEnds`), since fairness and ENABLED are out of the
prover's reach. Every safety property of a passing run is a theorem.

## 8. Not modelled, and why

- upload-api's own `lifespan` and probes, the liveness probes, telemetry and
  infrastructure code: no state that later steps read, or a constant.
- The clocks of HTTP and LLM retries (their attempts are counted), other pods of
  retrieval-api, signatures of tokens and the cache of keys, Envoy's check.
- Loss of Redis' memory, an operator's requeue of a dead job, a change of the
  chunking settings between two runs of a job.
- What the load test and the evals compute from their results: percentiles,
  recall, the judge's scores, tables and plots.
- `smoke.py`, `ingest_corpus.py`, `keda_burst.py` and `pg_bootstrap.py`: one-off
  clients of the APIs and of the cluster; what they expect of the service is
  quoted where a run refutes it.
- Hazards without a property, because the code promises nothing there: chunks of
  two extractions under one document after a retry, handlers multiplied by a caller
  that repeats a call it gave up, requests let through unchecked by a process that
  did not find its issuer (the models have all three), an answer from an empty
  context; and the blank lines between packed chunks, which `assemble` does not
  count against the budget.
- A reply of the reranker that lacks or repeats a text.
- The contents of texts, vectors, scores and answers; the tokenizer.
- Who is credited with a chunk that two documents share: the first one stays,
  and the code says nothing of it.
