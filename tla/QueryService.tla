----------------------------- MODULE QueryService -----------------------------
(***************************************************************************)
(* Concurrent queries on one retrieval-api pod: applications call it with  *)
(* their token, mcp-server calls it for agents with a time-out and no      *)
(* token.  The handlers share the database pool; each holds a connection   *)
(* through retrieval and all attempts of the reranker, not while it embeds *)
(* or generates.  A caller that gives up does not stop its handler.        *)
(* They also share clients that are built when first needed; the process   *)
(* starts, drains its handlers when it is told to stop, closes the pool    *)
(* and the clients one after the other, and may be killed at any step.     *)
(* The content of a query is Retrieval's; here it is one step per await.   *)
(***************************************************************************)
EXTENDS Naturals, FiniteSets

CONSTANTS
  App,             \* queries of applications
  Agent,           \* queries of agents, through mcp-server
  PoolSize,        \* max_size of create_pool
  RerankAttempts,  \* transient_retry(attempts=3)
  LlmAttempts,     \* stop_after_attempt(5)
  FailureThreshold \* failed probes until the pod is taken out of the Service

Query == App \cup Agent

ASSUME CallersAssumption == App \cap Agent = {} /\ IsFiniteSet(Query)
ASSUME LimitsAssumption ==
  /\ PoolSize \in Nat \ {0} /\ RerankAttempts \in Nat \ {0}
  /\ LlmAttempts \in Nat \ {0} /\ FailureThreshold \in Nat \ {0}

VARIABLES
  gatewayAuth, apiAuth,  \* auth0_domain is set, in mcp-server and in retrieval-api
  token,    \* the token a caller has
  caller,   \* what the caller of a query knows
  handler,  \* the await the query's handler is at
  attempt,  \* attempts made of the reranker or of the LLM
  conns,    \* the queries that hold a connection of the pool
  open,     \* what the process has open: the pool, the shared clients
  phase,    \* of the process, from lifespan's start-up to its last aclose
  ready,    \* the pod is in the Service's endpoints
  misses    \* probes failed in a row

settings == <<gatewayAuth, apiAuth, token>>
podVars  == <<phase, ready, misses>>
vars     == <<settings, caller, handler, attempt, conns, open, podVars>>

\* "none" is also a token that verify_jwt rejects.
Tokens == {"none", "other scope", "query:read"}
Active == {"authorize", "embed", "acquire", "retrieve", "rerank", "generate"}

\* The SDK clients get their tokens from the credential, each connection of the
\* pool its password.
Resources == {"pool", "llm", "embeddings", "credential"}
Clients   == Resources \ {"credential"}

\* "left" and "dead": the process is gone, after its last aclose or before it.
Closing == {"pool closed", "llm closed", "embeddings closed"}
Down    == {"left", "dead"}

\* mcp-server's own load_secrets leaves auth0_domain empty when the vault does
\* not answer; retrieval-api has not begun.
Init ==
  /\ gatewayAuth \in BOOLEAN /\ apiAuth = FALSE
  /\ token \in [Query -> Tokens]
  /\ caller = [q \in Query |-> "idle"]
  /\ handler = [q \in Query |-> "none"]
  /\ attempt = [q \in Query |-> 0]
  /\ conns = {}
  /\ open = {} /\ phase = "dead"
  /\ ready = FALSE /\ misses = 0

Told(q, outcome) == caller' = [caller EXCEPT ![q] = outcome]
Goes(q, from, to) == handler[q] = from /\ handler' = [handler EXCEPT ![q] = to]

-----------------------------------------------------------------------------
(* Callers. *)

\* Mutant of MayCall: the token is verified, its scope is not.
MayCallAnyScope(auth, t) == auth => t \in {"other scope", "query:read"}

\* authorize, require_scope: everything is let through when auth0_domain is empty.
MayCall(auth, t) == auth => t = "query:read"

\* query_knowledge and search_knowledge refuse a caller before they call the API.
GatewayRefuses(q) ==
  /\ q \in Agent /\ caller[q] = "idle" /\ ~MayCall(gatewayAuth, token[q])
  /\ Told(q, "refused")
  /\ UNCHANGED <<settings, handler, attempt, conns, open, podVars>>

\* The POST reaches the pod.
Post(q) ==
  /\ caller[q] = "idle" /\ ready
  /\ q \in Agent => MayCall(gatewayAuth, token[q])
  /\ Told(q, "waiting")
  /\ Goes(q, "none", "authorize")
  /\ UNCHANGED <<settings, attempt, conns, open, podVars>>

\* No endpoint to connect to.
PostFails(q) ==
  /\ caller[q] = "idle" /\ ~ready
  /\ q \in Agent => MayCall(gatewayAuth, token[q])
  /\ Told(q, "no reply")
  /\ UNCHANGED <<settings, handler, attempt, conns, open, podVars>>

\* httpx.AsyncClient(timeout=60): the tool call fails, the handler goes on.
GatewayTimeout(q) ==
  /\ q \in Agent /\ caller[q] = "waiting"
  /\ Told(q, "no reply")
  /\ UNCHANGED <<settings, handler, attempt, conns, open, podVars>>

-----------------------------------------------------------------------------
(* The handlers answer_query and search. *)

\* Mutant of Reply: a handler that ends without a response.
ReplyDropped(q, outcome) ==
  /\ handler' = [handler EXCEPT ![q] = "ended"]
  /\ UNCHANGED caller

\* Mutant of Reply: a late answer for a caller that has given up.
ReplyAnyway(q, outcome) ==
  /\ handler' = [handler EXCEPT ![q] = "ended"]
  /\ Told(q, outcome)

\* The handler is over; its caller learns how if it is still there.
Reply(q, outcome) ==
  /\ handler' = [handler EXCEPT ![q] = "ended"]
  /\ caller' = IF caller[q] = "waiting" THEN [caller EXCEPT ![q] = outcome] ELSE caller

\* What the request carries: mcp-server does not pass its caller's token on.
Header(q) == IF q \in Agent THEN "none" ELSE token[q]

\* _aoai: _client is tested and set without an await in between.
AoaiBuilt == open' = open \cup {"embeddings", "credential"}

\* The first await of the handler is the embedding request, on its client.
Authorize(q) ==
  /\ MayCall(apiAuth, Header(q))
  /\ Goes(q, "authorize", "embed")
  /\ AoaiBuilt
  /\ UNCHANGED <<settings, caller, attempt, conns, podVars>>

Unauthorized(q) ==
  /\ handler[q] = "authorize" /\ ~MayCall(apiAuth, Header(q))
  /\ Reply(q, "refused")
  /\ UNCHANGED <<settings, attempt, conns, open, podVars>>

Embed(q) ==
  /\ Goes(q, "embed", "acquire")
  /\ UNCHANGED <<settings, caller, attempt, conns, open, podVars>>

\* Mutant of Acquire: a connection whenever one is asked for.
AcquireAlways(q) ==
  /\ Goes(q, "acquire", "retrieve")
  /\ conns' = conns \cup {q}
  /\ UNCHANGED <<settings, caller, attempt, open, podVars>>

\* pool.acquire() waits without a limit for a free connection.
Acquire(q) ==
  /\ Goes(q, "acquire", "retrieve")
  /\ Cardinality(conns) < PoolSize
  /\ conns' = conns \cup {q}
  /\ UNCHANGED <<settings, caller, attempt, open, podVars>>

\* _provider, the same for the LLM; aclose forgets the provider with its client.
ProviderBuilt == open' = open \cup {"llm", "credential"}

\* Mutant of RetrievalEnds: a connection acquired by hand and not released here.
RetrievalEndsHolding(q) ==
  /\ handler' = [handler EXCEPT ![q] = "generate"]
  /\ attempt' = [attempt EXCEPT ![q] = 1]
  /\ ProviderBuilt
  /\ UNCHANGED <<caller, conns>>

\* The end of the async with.  /v1/answer goes on to the LLM; /v1/search replies.
RetrievalEnds(q) ==
  /\ conns' = conns \ {q}
  /\ \/ /\ handler' = [handler EXCEPT ![q] = "generate"]
        /\ attempt' = [attempt EXCEPT ![q] = 1]
        /\ ProviderBuilt
        /\ UNCHANGED caller
     \/ Reply(q, "answered") /\ UNCHANGED <<attempt, open>>

\* The SELECTs; then the reranker, or nothing more to retrieve.
Select(q) ==
  /\ handler[q] = "retrieve"
  /\ \/ /\ handler' = [handler EXCEPT ![q] = "rerank"]
        /\ attempt' = [attempt EXCEPT ![q] = 1]
        /\ UNCHANGED <<caller, conns, open>>
     \/ RetrievalEnds(q)
  /\ UNCHANGED <<settings, podVars>>

\* Mutant of RerankAgain: every fault is retried, transient or not, for ever.
RerankForever(q) ==
  /\ handler[q] = "rerank"
  /\ attempt' = [attempt EXCEPT ![q] = @ + 1]
  /\ UNCHANGED <<settings, caller, handler, conns, open, podVars>>

\* A transient fault of the reranker, with attempts left.
RerankAgain(q) ==
  /\ handler[q] = "rerank" /\ attempt[q] < RerankAttempts
  /\ attempt' = [attempt EXCEPT ![q] = @ + 1]
  /\ UNCHANGED <<settings, caller, handler, conns, open, podVars>>

\* Ranked, or degraded to the fused order after a lasting or the last fault.
RerankEnds(q) ==
  /\ handler[q] = "rerank"
  /\ RetrievalEnds(q)
  /\ UNCHANGED <<settings, podVars>>

GenerateAgain(q) ==
  /\ handler[q] = "generate" /\ attempt[q] < LlmAttempts
  /\ attempt' = [attempt EXCEPT ![q] = @ + 1]
  /\ UNCHANGED <<settings, caller, handler, conns, open, podVars>>

Answered(q) ==
  /\ handler[q] = "generate"
  /\ Reply(q, "answered")
  /\ UNCHANGED <<settings, attempt, conns, open, podVars>>

\* A step raises, the LLM's last attempt included: 500, the connection is
\* released.  A failing reranker is caught, a rank it makes up is not.
Raise(q) ==
  /\ handler[q] \in Active \ {"authorize"}
  /\ Reply(q, "failed")
  /\ conns' = conns \ {q}
  /\ UNCHANGED <<settings, attempt, open, podVars>>

-----------------------------------------------------------------------------
(* The process: lifespan under uvicorn, and the kubelet around it.         *)

\* lifespan up to its yield.  Telemetry that cannot be set up is left out; what
\* load_secrets cannot read stays empty; create_pool opens a connection, whose
\* password comes from the credential.  A start that raises is tried again by
\* the next process.
Start ==
  /\ phase \in Down
  /\ phase' = "serving"
  /\ apiAuth' \in BOOLEAN
  /\ open' = {"pool", "credential"}
  /\ UNCHANGED <<gatewayAuth, token, caller, handler, attempt, conns, ready, misses>>

\* The kubelet's probe of readyz, which needs a connection like any query.
ProbeSucceeds ==
  /\ phase = "serving" /\ Cardinality(conns) < PoolSize
  /\ misses' = 0 /\ ready' = TRUE
  /\ UNCHANGED <<settings, caller, handler, attempt, conns, open, phase>>

\* No connection within the probe's time, or the database does not answer.
ProbeFails ==
  /\ phase = "serving" /\ misses < FailureThreshold
  /\ misses' = misses + 1
  /\ ready' = (ready /\ misses' < FailureThreshold)
  /\ UNCHANGED <<settings, caller, handler, attempt, conns, open, phase>>

\* SIGTERM (rollout, scale-down): uvicorn takes no more connections.
Sigterm ==
  /\ phase = "serving"
  /\ phase' = "draining"
  /\ ready' = FALSE /\ misses' = 0
  /\ UNCHANGED <<settings, caller, handler, attempt, conns, open>>

\* Mutant of Drained: a shutdown that gives its handlers no time.
DrainedAtOnce == phase = "draining"

\* uvicorn waits for its requests before it resumes lifespan, and pool.close()
\* for the pool's connections.
Drained ==
  /\ phase = "draining" /\ conns = {}
  /\ \A q \in Query : handler[q] \notin Active

Closes(client, next) ==
  /\ phase' = next
  /\ open' = open \ {client}
  /\ UNCHANGED <<settings, caller, handler, attempt, conns, ready, misses>>

\* Mutant of CloseAll: the credential before the clients that use it.
CloseAllBackwards ==
  \/ Drained /\ Closes("pool", "pool closed")
  \/ phase = "pool closed" /\ Closes("credential", "llm closed")
  \/ phase = "llm closed" /\ Closes("embeddings", "embeddings closed")
  \/ phase = "embeddings closed" /\ Closes("llm", "left")

\* lifespan after its yield: one await after the other, each idempotent.
CloseAll ==
  \/ Drained /\ Closes("pool", "pool closed")
  \/ phase = "pool closed" /\ Closes("llm", "llm closed")
  \/ phase = "llm closed" /\ Closes("embeddings", "embeddings closed")
  \/ phase = "embeddings closed" /\ Closes("credential", "left")

\* SIGKILL at the end of the grace period, out of memory, the loss of the node;
\* or an aclose that raises, after which lifespan closes nothing more.
Die ==
  /\ phase \notin Down
  /\ phase' = "dead"
  /\ handler' = [q \in Query |-> IF handler[q] \in Active THEN "ended" ELSE handler[q]]
  /\ caller' = [q \in Query |->
                  IF handler[q] \in Active /\ caller[q] = "waiting" THEN "no reply" ELSE caller[q]]
  /\ conns' = {} /\ open' = {}
  /\ ready' = FALSE /\ misses' = 0
  /\ UNCHANGED <<settings, attempt>>

Step(q) ==
  \/ Authorize(q) \/ Unauthorized(q) \/ Embed(q) \/ Select(q)
  \/ RerankAgain(q) \/ RerankEnds(q) \/ GenerateAgain(q) \/ Answered(q) \/ Raise(q)

Next ==
  \/ \E q \in Query : \/ GatewayRefuses(q) \/ Post(q) \/ PostFails(q) \/ GatewayTimeout(q)
                      \/ Step(q) \/ Acquire(q)
  \/ ProbeSucceeds \/ ProbeFails \/ Start \/ Sigterm \/ CloseAll \/ Die

Spec == Init /\ [][Next]_vars

\* Calls of the models end: the reranker's client and the SDKs have time-outs, and
\* attempts are bounded.  The SELECTs have none (create_pool sets no
\* command_timeout), nor has lifespan: that the database answers or drops the
\* connection is assumed of it.  The pool serves its waiters in turn; a process
\* that is gone is replaced, and the kubelet keeps probing it: neither a rollout
\* nor a failing database comes before the probe for ever.  No caller has to call,
\* nobody has to stop the process, and the kubelet need not kill it.
FairSpec ==
  /\ Spec
  /\ \A q \in Query : WF_vars(Step(q)) /\ SF_vars(Acquire(q))
  /\ SF_vars(ProbeSucceeds) /\ WF_vars(Start) /\ WF_vars(CloseAll)

-----------------------------------------------------------------------------
(* Properties. *)

HandlersOK ==
  /\ caller \in [Query -> {"idle", "waiting", "answered", "refused", "failed", "no reply"}]
  /\ handler \in [Query -> Active \cup {"none", "ended"}]
  /\ conns \subseteq Query

AttemptsOK ==
  /\ attempt \in [Query -> Nat]
  /\ \A q \in Query : /\ handler[q] = "rerank" => attempt[q] <= RerankAttempts
                      /\ handler[q] = "generate" => attempt[q] <= LlmAttempts

ProcessOK ==
  /\ gatewayAuth \in BOOLEAN /\ apiAuth \in BOOLEAN
  /\ token \in [Query -> Tokens]
  /\ open \subseteq Resources
  /\ phase \in {"serving", "draining"} \cup Closing \cup Down

\* Every variable keeps its type; attempts stay within their limits.
TypeOK == HandlersOK /\ AttemptsOK /\ ProcessOK /\ ready \in BOOLEAN /\ misses \in 0 .. FailureThreshold

\* A connection is held exactly from acquire to the end of retrieve, on every
\* path out of it: degraded, failed, answered, killed, or abandoned by the caller;
\* and the pool never has more out than max_size.
PoolAccounted ==
  /\ conns = {q \in Query : handler[q] \in {"retrieve", "rerank"}}
  /\ Cardinality(conns) <= PoolSize

\* While retrieval-api knows its issuer, a query gets past the door only with a
\* token of its own that carries the scope; with mcp-server's door as with its own.
ServedWithScope ==
  \A q \in Query :
    /\ apiAuth /\ handler[q] \in Active \ {"authorize"} => Header(q) = "query:read"
    /\ q \in Agent /\ gatewayAuth /\ handler[q] # "none" => token[q] = "query:read"

\* docs/API.md: "The MCP server exposes the same retrieval as tools (Auth0 JWT,
\* per-tool scope)".  An agent in whose token mcp-server finds the scope of the tool
\* is not turned away by the API behind it, which sees mcp-server's request only.
AgentsWithScopeAreServed ==
  \A q \in Agent : gatewayAuth /\ token[q] = "query:read" => caller[q] # "refused"

\* What a handler needs open at each of its awaits.
Needs(await) ==
  CASE await = "embed" -> {"embeddings"}
    [] await \in {"acquire", "retrieve", "rerank"} -> {"pool"}
    [] await = "generate" -> {"llm"}
    [] OTHER -> {}

\* lifespan: "dependents before the credential they use".  No handler is at an
\* await of a client that has been closed, and no client is open without the
\* credential, whatever is built late by a handler that outlasts SIGTERM.
NothingUsedAfterClose ==
  /\ \A q \in Query : Needs(handler[q]) \subseteq open
  /\ open \cap Clients # {} => "credential" \in open

\* A process that gets to the end of lifespan leaves nothing open: no handler has
\* rebuilt a client that was closed already, and none was forgotten.
LeavesNothingOpen == phase = "left" => open = {}

\* The pod at work seen by its callers only: see QueryContract.
Contract == INSTANCE QueryContract WITH
  running <- {q \in Query : handler[q] \in Active}

\* Doors, pool, retries, shutdown and kills keep what callers are promised.
ImplementsQueryContract == Contract!ContractSpec

\* Every query taken up comes to an end and a caller who has not given up is told
\* how, however many share the pool and however slow the reranker is.
EveryHandlerEnds ==
  \A q \in Query : handler[q] \in Active ~> handler[q] = "ended" /\ caller[q] # "waiting"

\* A pod that is not in the Service, because slow queries held its connections or
\* because it was stopped or killed, comes back.
PodComesBack == ~ready ~> ready

\* A process told to stop gets to its end, killed or not: no handler and no
\* connection that is never given back keeps it from draining.
ShutdownEnds == phase = "draining" ~> phase \in Down
=============================================================================
