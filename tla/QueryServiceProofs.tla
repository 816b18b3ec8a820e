-------------------------- MODULE QueryServiceProofs --------------------------
(* The safety of QueryService, for any callers, pool and limits, and that it  *)
(* implements QueryContract.                                                  *)
EXTENDS QueryService, FiniteSetTheorems, TLAPS

\* How a client is built is always looked into.
USE DEF AoaiBuilt, ProviderBuilt

\* Every action keeps its variables' types; the guards of RerankAgain and
\* GenerateAgain keep the attempts within their limits.
THEOREM QueryTypeCorrect == Spec => []TypeOK
<1>1. Init => TypeOK
  <2>1. Init => HandlersOK
    BY DEF Init, HandlersOK
  <2>2. Init => AttemptsOK
    BY DEF Init, AttemptsOK
  <2>3. Init => ProcessOK /\ ready \in BOOLEAN
    BY DEF Init, ProcessOK, Down
  <2>4. Init => misses \in 0 .. FailureThreshold
    BY LimitsAssumption DEF Init
  <2> QED
    BY <2>1, <2>2, <2>3, <2>4 DEF TypeOK
<1>2. HandlersOK /\ [Next]_vars => HandlersOK'
  <2> SUFFICES ASSUME HandlersOK, [Next]_vars PROVE HandlersOK'
    OBVIOUS
  <2> USE DEF HandlersOK, Active
  <2>1. ASSUME NEW q \in Query, GatewayRefuses(q) \/ PostFails(q) \/ GatewayTimeout(q)
        PROVE HandlersOK'
    BY <2>1 DEF GatewayRefuses, PostFails, GatewayTimeout, Told
  <2>2. ASSUME NEW q \in Query, Post(q) PROVE HandlersOK'
    BY <2>2 DEF Post, Told, Goes
  <2>3. ASSUME NEW q \in Query, Authorize(q) \/ Embed(q) \/ Acquire(q) PROVE HandlersOK'
    BY <2>3 DEF Authorize, Embed, Acquire, Goes
  <2>4. ASSUME NEW q \in Query, Unauthorized(q) \/ Answered(q) PROVE HandlersOK'
    BY <2>4 DEF Unauthorized, Answered, Reply
  <2>5. ASSUME NEW q \in Query, Raise(q) PROVE HandlersOK'
    BY <2>5 DEF Raise, Reply
  <2>6. ASSUME NEW q \in Query, RetrievalEnds(q) PROVE HandlersOK'
    BY <2>6 DEF RetrievalEnds, Reply
  <2>7. ASSUME NEW q \in Query, Select(q) \/ RerankEnds(q) PROVE HandlersOK'
    BY <2>6, <2>7 DEF Select, RerankEnds
  <2>8. ASSUME NEW q \in Query, RerankAgain(q) \/ GenerateAgain(q) PROVE HandlersOK'
    BY <2>8 DEF RerankAgain, GenerateAgain
  <2>9. CASE Die
    BY <2>9 DEF Die
  <2>10. CASE ProbeSucceeds \/ ProbeFails \/ Start \/ Sigterm \/ CloseAll \/ UNCHANGED vars
    BY <2>10 DEF ProbeSucceeds, ProbeFails, Start, Sigterm, CloseAll, Closes, vars
  <2> QED
    BY <2>1, <2>2, <2>3, <2>4, <2>5, <2>6, <2>7, <2>8, <2>9, <2>10 DEF Next, Step
<1>3. HandlersOK /\ AttemptsOK /\ [Next]_vars => AttemptsOK'
  <2> SUFFICES ASSUME HandlersOK, AttemptsOK, [Next]_vars PROVE AttemptsOK'
    OBVIOUS
  <2>a. handler \in [Query -> Active \cup {"none", "ended"}]
    BY DEF HandlersOK
  <2>b. /\ RerankAttempts \in Nat /\ LlmAttempts \in Nat
        /\ 1 <= RerankAttempts /\ 1 <= LlmAttempts
    BY LimitsAssumption
  <2>1. ASSUME NEW q \in Query, NEW to, to \notin {"rerank", "generate"},
               handler' = [handler EXCEPT ![q] = to], UNCHANGED attempt
        PROVE AttemptsOK'
    BY <2>1, <2>a DEF AttemptsOK
  <2>2. ASSUME NEW q \in Query, NEW to \in {"rerank", "generate"},
               handler' = [handler EXCEPT ![q] = to], attempt' = [attempt EXCEPT ![q] = 1]
        PROVE AttemptsOK'
    BY <2>2, <2>a, <2>b DEF AttemptsOK
  <2>3. CASE UNCHANGED <<handler, attempt>>
    BY <2>3 DEF AttemptsOK
  <2>4. ASSUME NEW q \in Query, Post(q) \/ Authorize(q) \/ Embed(q) \/ Acquire(q)
        PROVE AttemptsOK'
    BY <2>1, <2>4 DEF Post, Authorize, Embed, Acquire, Goes
  <2>5. ASSUME NEW q \in Query, Unauthorized(q) \/ Answered(q) \/ Raise(q) PROVE AttemptsOK'
    BY <2>1, <2>5 DEF Unauthorized, Answered, Raise, Reply
  <2>6. ASSUME NEW q \in Query, RetrievalEnds(q) PROVE AttemptsOK'
    BY <2>1, <2>2, <2>6 DEF RetrievalEnds, Reply
  <2>7. ASSUME NEW q \in Query, Select(q) \/ RerankEnds(q) PROVE AttemptsOK'
    BY <2>2, <2>6, <2>7 DEF Select, RerankEnds
  <2>8. ASSUME NEW q \in Query, RerankAgain(q) PROVE AttemptsOK'
    BY <2>8, <2>b DEF RerankAgain, AttemptsOK
  <2>9. ASSUME NEW q \in Query, GenerateAgain(q) PROVE AttemptsOK'
    BY <2>9, <2>b DEF GenerateAgain, AttemptsOK
  <2>10. ASSUME NEW q \in Query, GatewayRefuses(q) \/ PostFails(q) \/ GatewayTimeout(q)
         PROVE UNCHANGED <<handler, attempt>>
    BY <2>10 DEF GatewayRefuses, PostFails, GatewayTimeout
  <2>11. CASE Die
    BY <2>11, <2>a DEF Die, AttemptsOK, Active
  <2>12. ProbeSucceeds \/ ProbeFails \/ Start \/ Sigterm \/ CloseAll \/ UNCHANGED vars
           => UNCHANGED <<handler, attempt>>
    BY DEF ProbeSucceeds, ProbeFails, Start, Sigterm, CloseAll, Closes, vars
  <2> QED
    BY <2>3, <2>4, <2>5, <2>7, <2>8, <2>9, <2>10, <2>11, <2>12 DEF Next, Step
<1>4. ProcessOK /\ [Next]_vars => ProcessOK'
  <2> SUFFICES ASSUME ProcessOK, [Next]_vars PROVE ProcessOK'
    OBVIOUS
  <2> USE DEF ProcessOK, settings, podVars
  <2>1. ASSUME NEW q \in Query,
               \/ GatewayRefuses(q) \/ Post(q) \/ PostFails(q) \/ GatewayTimeout(q) \/ Acquire(q)
               \/ Unauthorized(q) \/ Embed(q) \/ RerankAgain(q) \/ GenerateAgain(q)
               \/ Answered(q) \/ Raise(q)
        PROVE UNCHANGED <<settings, open, podVars>>
    BY <2>1 DEF GatewayRefuses, Post, PostFails, GatewayTimeout, Acquire, Unauthorized, Embed,
                RerankAgain, GenerateAgain, Answered, Raise
  <2>2. ASSUME NEW q \in Query, Authorize(q) \/ Select(q) \/ RerankEnds(q) PROVE ProcessOK'
    <3>1. UNCHANGED <<settings, podVars>>
      BY <2>2 DEF Authorize, Select, RerankEnds
    <3>2. open' \subseteq Resources
      BY <2>2 DEF Authorize, Select, RerankEnds, RetrievalEnds, Resources
    <3> QED
      BY <3>1, <3>2
  <2>3. CASE ProbeSucceeds \/ ProbeFails
    BY <2>3 DEF ProbeSucceeds, ProbeFails
  <2>4. CASE Start \/ Sigterm
    BY <2>4 DEF Start, Sigterm, Resources
  <2>5. CASE CloseAll
    BY <2>5 DEF CloseAll, Closes, Closing, Down
  <2>6. CASE Die
    BY <2>6 DEF Die, Down
  <2>7. CASE UNCHANGED vars
    BY <2>7 DEF vars
  <2> QED
    BY <2>1, <2>2, <2>3, <2>4, <2>5, <2>6, <2>7 DEF Next, Step
<1>5. ready \in BOOLEAN /\ [Next]_vars => (ready \in BOOLEAN)'
  <2>1. ASSUME NEW q \in Query, Step(q) PROVE UNCHANGED podVars
    BY <2>1 DEF Step, Authorize, Unauthorized, Embed, Select, RerankAgain, RerankEnds,
                GenerateAgain, Answered, Raise
  <2> QED
    BY <2>1 DEF Next, podVars, GatewayRefuses, Post, PostFails, GatewayTimeout, Acquire,
                ProbeSucceeds, ProbeFails, Start, Sigterm, CloseAll, Closes, Die, vars
<1>6. misses \in 0 .. FailureThreshold /\ [Next]_vars => (misses \in 0 .. FailureThreshold)'
  <2> SUFFICES ASSUME misses \in 0 .. FailureThreshold, [Next]_vars
               PROVE  misses' \in 0 .. FailureThreshold
    OBVIOUS
  <2>1. ASSUME NEW q \in Query, Step(q) PROVE UNCHANGED misses
    BY <2>1 DEF podVars, Step, Authorize, Unauthorized, Embed, Select, RerankAgain, RerankEnds,
                GenerateAgain, Answered, Raise
  <2>2. ASSUME NEW q \in Query,
               GatewayRefuses(q) \/ Post(q) \/ PostFails(q) \/ GatewayTimeout(q) \/ Acquire(q)
        PROVE  UNCHANGED misses
    BY <2>2 DEF podVars, GatewayRefuses, Post, PostFails, GatewayTimeout, Acquire
  <2>3. Start \/ CloseAll \/ UNCHANGED vars => UNCHANGED misses
    BY DEF Start, CloseAll, Closes, vars, podVars
  <2>4. CASE misses' = 0
    BY <2>4, LimitsAssumption
  <2>5. CASE misses < FailureThreshold /\ misses' = misses + 1
    BY <2>5, LimitsAssumption
  <2>6. ProbeSucceeds \/ Sigterm \/ Die => misses' = 0
    BY DEF ProbeSucceeds, Sigterm, Die
  <2>7. ProbeFails => misses < FailureThreshold /\ misses' = misses + 1
    BY DEF ProbeFails
  <2> QED
    BY <2>1, <2>2, <2>3, <2>4, <2>5, <2>6, <2>7 DEF Next
<1>7. TypeOK /\ [Next]_vars => TypeOK'
  BY <1>2, <1>3, <1>4, <1>5, <1>6 DEF TypeOK
<1> QED
  BY <1>1, <1>7, PTL DEF Spec

Holders == {q \in Query : handler[q] \in {"retrieve", "rerank"}}

\* A handler that is at no await of its retrieval moves to another such place.
LEMMA HoldersUnchanged ==
  ASSUME TypeOK, NEW q \in Query, NEW to,
         handler' = [handler EXCEPT ![q] = to],
         handler[q] \notin {"retrieve", "rerank"}, to \notin {"retrieve", "rerank"}
  PROVE  Holders' = Holders
BY DEF Holders, TypeOK, HandlersOK

\* A handler leaves its retrieval, or was in none.
LEMMA HoldersWithout ==
  ASSUME TypeOK, NEW q \in Query, NEW to,
         handler' = [handler EXCEPT ![q] = to], to \notin {"retrieve", "rerank"}
  PROVE  Holders' = Holders \ {q}
BY DEF Holders, TypeOK, HandlersOK

\* acquire and the end of the async with are the only steps that change who holds
\* a connection, on the paths of success, of degraded ranking and of failure;
\* acquire keeps within max_size.
THEOREM ConnectionsAccounted == Spec => []PoolAccounted
<1>1. Init => PoolAccounted
  BY FS_EmptySet, LimitsAssumption DEF Init, PoolAccounted
<1>2. TypeOK /\ PoolAccounted /\ [Next]_vars => PoolAccounted'
  <2> SUFFICES ASSUME TypeOK, PoolAccounted, [Next]_vars PROVE PoolAccounted'
    OBVIOUS
  <2>a. conns = Holders /\ Cardinality(conns) <= PoolSize
    BY DEF PoolAccounted, Holders
  <2>b. IsFiniteSet(conns) /\ Cardinality(conns) \in Nat /\ PoolSize \in Nat
    BY <2>a, FS_Subset, FS_CardinalityType, CallersAssumption, LimitsAssumption DEF Holders
  <2>c. SUFFICES conns' = Holders' /\ Cardinality(conns') <= PoolSize
    BY DEF PoolAccounted, Holders
  <2>d. ASSUME NEW q \in Query, conns' = conns \ {q} PROVE Cardinality(conns') <= PoolSize
    BY <2>a, <2>b, <2>d, FS_RemoveElement, FS_Subset, FS_CardinalityType
  <2>1. CASE UNCHANGED <<handler, conns>>
    BY <2>1, <2>a DEF Holders
  <2>2. ASSUME NEW q \in Query, Post(q) \/ Authorize(q) \/ Embed(q) PROVE conns' = Holders' /\ Cardinality(conns') <= PoolSize
    <3>1. conns' = conns
      BY <2>2 DEF Post, Authorize, Embed
    <3>2. Holders' = Holders
      BY <2>2, HoldersUnchanged DEF Post, Authorize, Embed, Goes
    <3> QED
      BY <3>1, <3>2, <2>a
  <2>3. ASSUME NEW q \in Query, Unauthorized(q) \/ Answered(q) PROVE conns' = Holders' /\ Cardinality(conns') <= PoolSize
    <3>1. conns' = conns
      BY <2>3 DEF Unauthorized, Answered
    <3>2. Holders' = Holders
      BY <2>3, HoldersUnchanged DEF Unauthorized, Answered, Reply
    <3> QED
      BY <3>1, <3>2, <2>a
  <2>4. ASSUME NEW q \in Query, Acquire(q) PROVE conns' = Holders' /\ Cardinality(conns') <= PoolSize
    <3>1. conns' = conns \cup {q} /\ Cardinality(conns) < PoolSize
      BY <2>4 DEF Acquire
    <3>2. Holders' = Holders \cup {q}
      BY <2>4 DEF Acquire, Goes, Holders, TypeOK, HandlersOK
    <3>3. Cardinality(conns') <= Cardinality(conns) + 1
      BY <3>1, <2>b, FS_AddElement
    <3>4. Cardinality(conns') \in Nat
      BY <3>1, <2>b, FS_AddElement, FS_CardinalityType
    <3> QED
      BY <3>1, <3>2, <3>3, <3>4, <2>a, <2>b
  <2>5. ASSUME NEW q \in Query, RetrievalEnds(q) PROVE conns' = Holders' /\ Cardinality(conns') <= PoolSize
    <3>1. conns' = conns \ {q}
      BY <2>5 DEF RetrievalEnds
    <3>2. Holders' = Holders \ {q}
      BY <2>5, HoldersWithout DEF RetrievalEnds, Reply
    <3> QED
      BY <3>1, <3>2, <2>a, <2>d
  <2>6. ASSUME NEW q \in Query, Select(q) \/ RerankEnds(q) PROVE conns' = Holders' /\ Cardinality(conns') <= PoolSize
    <3>1. CASE handler[q] = "retrieve" /\ handler' = [handler EXCEPT ![q] = "rerank"] /\ UNCHANGED conns
      <4>1. Holders' = Holders
        BY <3>1 DEF Holders, TypeOK, HandlersOK
      <4> QED
        BY <4>1, <3>1, <2>a
    <3> QED
      BY <3>1, <2>5, <2>6 DEF Select, RerankEnds
  <2>7. ASSUME NEW q \in Query, Raise(q) PROVE conns' = Holders' /\ Cardinality(conns') <= PoolSize
    <3>1. conns' = conns \ {q} /\ handler' = [handler EXCEPT ![q] = "ended"]
      BY <2>7 DEF Raise, Reply
    <3>2. Holders' = Holders \ {q}
      BY <3>1, HoldersWithout
    <3> QED
      BY <3>1, <3>2, <2>a, <2>d
  <2>8. ASSUME NEW q \in Query,
               \/ GatewayRefuses(q) \/ PostFails(q) \/ GatewayTimeout(q)
               \/ RerankAgain(q) \/ GenerateAgain(q)
        PROVE UNCHANGED <<handler, conns>>
    BY <2>8 DEF GatewayRefuses, PostFails, GatewayTimeout, RerankAgain, GenerateAgain
  <2>9. ProbeSucceeds \/ ProbeFails \/ Start \/ Sigterm \/ CloseAll \/ UNCHANGED vars
          => UNCHANGED <<handler, conns>>
    BY DEF ProbeSucceeds, ProbeFails, Start, Sigterm, CloseAll, Closes, vars
  <2>10. CASE Die
    <3>1. conns' = {} /\ Holders' = {}
      BY <2>10 DEF Die, Holders, Active, TypeOK, HandlersOK
    <3> QED
      BY <3>1, <2>b, FS_EmptySet
  <2> QED
    BY <2>1, <2>2, <2>3, <2>4, <2>6, <2>7, <2>8, <2>9, <2>10 DEF Next, Step
<1> QED
  BY <1>1, <1>2, QueryTypeCorrect, PTL DEF Spec

\* The gateway's door and the tokens never change, the API's only when it starts.
LEMMA SettingsStay ==
  ASSUME [Next]_vars
  PROVE  UNCHANGED <<gatewayAuth, token>> /\ (Start \/ UNCHANGED apiAuth)
<1> USE DEF settings
<1>1. ASSUME NEW q \in Query, Step(q) PROVE UNCHANGED settings
  <2>1. CASE Authorize(q) \/ Unauthorized(q) \/ Embed(q) \/ Answered(q) \/ Raise(q)
    BY <2>1 DEF Authorize, Unauthorized, Embed, Answered, Raise
  <2>2. CASE Select(q) \/ RerankAgain(q) \/ RerankEnds(q) \/ GenerateAgain(q)
    BY <2>2 DEF Select, RerankAgain, RerankEnds, GenerateAgain
  <2> QED
    BY <1>1, <2>1, <2>2 DEF Step
<1>2. ASSUME NEW q \in Query,
             GatewayRefuses(q) \/ Post(q) \/ PostFails(q) \/ GatewayTimeout(q) \/ Acquire(q)
      PROVE  UNCHANGED settings
  BY <1>2 DEF GatewayRefuses, Post, PostFails, GatewayTimeout, Acquire
<1>3. ProbeSucceeds \/ ProbeFails \/ Sigterm \/ CloseAll \/ Die \/ UNCHANGED vars => UNCHANGED settings
  BY DEF ProbeSucceeds, ProbeFails, Sigterm, CloseAll, Closes, Die, vars
<1>4. Start => UNCHANGED <<gatewayAuth, token>>
  BY DEF Start
<1> QED
  BY <1>1, <1>2, <1>3, <1>4 DEF Next

\* Handlers are at work only between lifespan's two halves; what they need is open
\* then, and each of the closing states has closed what precedes it.
Working == {"serving", "draining"}

ProcessInv ==
  /\ ready => phase = "serving"
  /\ phase \notin Working => \A q \in Query : handler[q] \notin Active
  /\ phase \in Working => {"pool", "credential"} \subseteq open
  /\ \A q \in Query : Needs(handler[q]) \subseteq open
  /\ phase = "pool closed" => open \in SUBSET (Resources \ {"pool"}) /\ "credential" \in open
  /\ phase = "llm closed" => open \in SUBSET {"embeddings", "credential"} /\ "credential" \in open
  /\ phase = "embeddings closed" => open \subseteq {"credential"}
  /\ phase \in Down => open = {}

\* A handler that moves on, to an await whose client is open.
LEMMA WhileWorking ==
  ASSUME TypeOK, ProcessInv, phase \in Working, NEW q \in Query, NEW to,
         handler' = [handler EXCEPT ![q] = to], Needs(to) \subseteq open',
         open \subseteq open', UNCHANGED <<phase, ready>>
  PROVE  ProcessInv'
<1>1. \A o \in Query : Needs(handler'[o]) \subseteq open'
  <2> TAKE o \in Query
  <2>1. Needs(handler[o]) \subseteq open
    BY DEF ProcessInv
  <2>2. handler'[o] = IF o = q THEN to ELSE handler[o]
    BY DEF TypeOK, HandlersOK
  <2> QED
    BY <2>1, <2>2
<1>2. phase' \in Working /\ {"pool", "credential"} \subseteq open' /\ (ready' => phase' = "serving")
  BY DEF ProcessInv
<1> QED
  BY <1>1, <1>2 DEF ProcessInv, Working, Down

LEMMA ProcessInvariant == Spec => []ProcessInv
<1>1. Init => ProcessInv
  BY DEF Init, ProcessInv, Working, Active, Needs, Down
<1>2. TypeOK /\ ProcessInv /\ [Next]_vars => ProcessInv'
  <2> SUFFICES ASSUME TypeOK, ProcessInv, [Next]_vars PROVE ProcessInv'
    OBVIOUS
  <2>a. \A q \in Query : handler[q] \in Active => phase \in Working
    BY DEF ProcessInv
  <2>b. phase \in Working => {"pool", "credential"} \subseteq open
    BY DEF ProcessInv
  <2>c. Needs("ended") = {} /\ Needs("authorize") = {}
    BY DEF Needs
  <2>d. Needs("acquire") = {"pool"} /\ Needs("retrieve") = {"pool"} /\ Needs("rerank") = {"pool"}
    BY DEF Needs
  <2>e. Needs("embed") = {"embeddings"} /\ Needs("generate") = {"llm"}
    BY DEF Needs
  <2>1. ASSUME NEW q \in Query, Post(q) PROVE ProcessInv'
    <3>1. phase \in Working
      BY <2>1 DEF Post, ProcessInv, Working
    <3> QED
      BY <2>1, <2>c, <3>1, WhileWorking DEF Post, Goes, podVars
  <2>2. ASSUME NEW q \in Query, Authorize(q) PROVE ProcessInv'
    <3>1. phase \in Working
      BY <2>2, <2>a DEF Authorize, Goes, Active
    <3> QED
      BY <2>2, <2>e, <3>1, WhileWorking DEF Authorize, Goes, podVars
  <2>3. ASSUME NEW q \in Query, Unauthorized(q) \/ Answered(q) \/ Raise(q) PROVE ProcessInv'
    <3>1. phase \in Working
      BY <2>3, <2>a DEF Unauthorized, Answered, Raise, Active
    <3> QED
      BY <2>3, <2>c, <3>1, WhileWorking DEF Unauthorized, Answered, Raise, Reply, podVars
  <2>4. ASSUME NEW q \in Query, Embed(q) \/ Acquire(q) PROVE ProcessInv'
    <3>1. phase \in Working /\ {"pool"} \subseteq open
      BY <2>4, <2>a, <2>b DEF Embed, Acquire, Goes, Active
    <3> QED
      BY <2>4, <2>d, <3>1, WhileWorking DEF Embed, Acquire, Goes, podVars
  <2>5. ASSUME NEW q \in Query, RetrievalEnds(q), phase \in Working, UNCHANGED podVars PROVE ProcessInv'
    BY <2>5, <2>c, <2>e, WhileWorking DEF RetrievalEnds, Reply, podVars
  <2>6. ASSUME NEW q \in Query, Select(q) \/ RerankEnds(q) PROVE ProcessInv'
    <3>1. phase \in Working /\ {"pool"} \subseteq open /\ UNCHANGED podVars
      BY <2>6, <2>a, <2>b DEF Select, RerankEnds, Active
    <3>2. CASE handler' = [handler EXCEPT ![q] = "rerank"] /\ UNCHANGED open
      BY <3>1, <3>2, <2>d, WhileWorking DEF podVars
    <3> QED
      BY <2>5, <2>6, <3>1, <3>2 DEF Select, RerankEnds
  <2>7. CASE UNCHANGED <<handler, open, phase, ready>>
    BY <2>7 DEF ProcessInv
  <2>8. ASSUME NEW q \in Query,
               \/ GatewayRefuses(q) \/ PostFails(q) \/ GatewayTimeout(q)
               \/ RerankAgain(q) \/ GenerateAgain(q)
        PROVE UNCHANGED <<handler, open, phase, ready>>
    BY <2>8 DEF GatewayRefuses, PostFails, GatewayTimeout, RerankAgain, GenerateAgain, podVars
  <2>9. CASE ProbeSucceeds \/ ProbeFails
    BY <2>9 DEF ProbeSucceeds, ProbeFails, ProcessInv
  <2>10. CASE Start
    BY <2>10 DEF Start, ProcessInv, Working, Down
  <2>11. CASE Sigterm
    BY <2>11 DEF Sigterm, ProcessInv, Working, Down
  <2>12. CASE CloseAll
    <3> USE DEF ProcessInv, Closes, Working, Down
    <3>1. \A q \in Query : handler'[q] \notin Active /\ Needs(handler'[q]) \subseteq open'
      BY <2>12 DEF CloseAll, Drained, Needs, Active
    <3>2. CASE Drained /\ Closes("pool", "pool closed")
      BY <3>1, <3>2 DEF Drained, TypeOK, ProcessOK
    <3>3. CASE phase = "pool closed" /\ Closes("llm", "llm closed")
      BY <3>1, <3>3 DEF Resources
    <3>4. CASE phase = "llm closed" /\ Closes("embeddings", "embeddings closed")
      BY <3>1, <3>4
    <3>5. CASE phase = "embeddings closed" /\ Closes("credential", "left")
      BY <3>1, <3>5
    <3> QED
      BY <2>12, <3>2, <3>3, <3>4, <3>5 DEF CloseAll
  <2>13. CASE Die
    <3>1. \A q \in Query : handler'[q] \notin Active /\ Needs(handler'[q]) = {}
      BY <2>13 DEF Die, Needs, Active
    <3> QED
      BY <2>13, <3>1 DEF Die, ProcessInv, Working, Down
  <2> QED
    BY <2>1, <2>2, <2>3, <2>4, <2>6, <2>7, <2>8, <2>9, <2>10, <2>11, <2>12, <2>13
       DEF Next, Step, vars, podVars
<1> QED
  BY <1>1, <1>2, QueryTypeCorrect, PTL DEF Spec

\* With an issuer configured, authorize and require_scope let nobody past who did
\* not show query:read; neither a door's setting nor a token changes later.
THEOREM DoorsHold == Spec => []ServedWithScope
<1>1. Init => ServedWithScope
  BY DEF Init, ServedWithScope, Active
<1>2. TypeOK /\ ProcessInv /\ ServedWithScope /\ [Next]_vars => ServedWithScope'
  <2> SUFFICES ASSUME TypeOK, ProcessInv, ServedWithScope, [Next]_vars PROVE ServedWithScope'
    OBVIOUS
  <2>s. UNCHANGED <<gatewayAuth, token>>
    BY SettingsStay
  <2> SUFFICES ASSUME NEW o \in Query
               PROVE  /\ apiAuth' /\ handler'[o] \in Active \ {"authorize"}
                           => Header(o) = "query:read"
                      /\ o \in Agent /\ gatewayAuth /\ handler'[o] # "none"
                           => token[o] = "query:read"
    BY <2>s DEF ServedWithScope, Header
  <2>a. /\ apiAuth /\ handler[o] \in Active \ {"authorize"} => Header(o) = "query:read"
        /\ o \in Agent /\ gatewayAuth /\ handler[o] # "none" => token[o] = "query:read"
    BY DEF ServedWithScope
  <2>b. handler \in [Query -> Active \cup {"none", "ended"}]
    BY DEF TypeOK, HandlersOK
  <2>c. apiAuth' = apiAuth \/ Start
    BY SettingsStay
  <2>1. CASE handler'[o] = handler[o] /\ apiAuth' = apiAuth
    BY <2>1, <2>a
  <2>2. CASE Start
    <3>1. handler[o] \notin Active /\ handler' = handler
      BY <2>2 DEF Start, ProcessInv, Working, Down
    <3> QED
      BY <3>1, <2>a
  <2>3. CASE apiAuth' = apiAuth /\ handler'[o] \in {"none", "ended"} /\ handler[o] # "none"
    BY <2>3, <2>a DEF Active
  <2>4. CASE apiAuth' = apiAuth /\ handler[o] \in Active \ {"authorize"}
    BY <2>4, <2>a DEF Active
  <2>5. CASE Post(o) /\ apiAuth' = apiAuth
    BY <2>5, <2>b DEF Post, Goes, MayCall, Active
  <2>6. CASE Authorize(o) /\ apiAuth' = apiAuth
    BY <2>6, <2>a, <2>b DEF Authorize, Goes, MayCall, Active
  <2>7. Unauthorized(o) => handler'[o] = "ended" /\ handler[o] # "none"
    BY <2>b DEF Unauthorized, Reply
  <2>8. \/ Embed(o) \/ Acquire(o) \/ Select(o) \/ RerankEnds(o) \/ Answered(o) \/ Raise(o)
          => handler[o] \in Active \ {"authorize"}
    BY DEF Embed, Acquire, Select, RerankEnds, Answered, Raise, Goes, Active
  <2>9. ASSUME NEW q \in Query, q # o,
               \/ Post(q) \/ Authorize(q) \/ Embed(q) \/ Acquire(q)
               \/ Unauthorized(q) \/ Answered(q) \/ Raise(q)
        PROVE handler'[o] = handler[o]
    BY <2>9, <2>b DEF Post, Authorize, Embed, Acquire, Unauthorized, Answered, Raise, Goes, Reply
  <2>10. ASSUME NEW q \in Query, q # o, Select(q) \/ RerankEnds(q)
         PROVE handler'[o] = handler[o]
    BY <2>10, <2>b DEF Select, RerankEnds, RetrievalEnds, Reply
  <2>11. ASSUME NEW q \in Query,
                \/ GatewayRefuses(q) \/ PostFails(q) \/ GatewayTimeout(q)
                \/ RerankAgain(q) \/ GenerateAgain(q)
         PROVE handler'[o] = handler[o]
    BY <2>11 DEF GatewayRefuses, PostFails, GatewayTimeout, RerankAgain, GenerateAgain
  <2>12. ProbeSucceeds \/ ProbeFails \/ Sigterm \/ CloseAll \/ UNCHANGED vars
           => handler'[o] = handler[o]
    BY DEF ProbeSucceeds, ProbeFails, Sigterm, CloseAll, Closes, vars
  <2>13. Die => handler'[o] = handler[o] \/ (handler'[o] = "ended" /\ handler[o] # "none")
    BY <2>b DEF Die, Active
  <2> QED
    BY <2>c, <2>1, <2>2, <2>3, <2>4, <2>5, <2>6, <2>7, <2>8, <2>9, <2>10, <2>11, <2>12, <2>13
       DEF Next, Step
<1> QED
  BY <1>1, <1>2, QueryTypeCorrect, ProcessInvariant, PTL DEF Spec

\* Whoever builds a client late builds it while the process works or drains, and
\* lifespan closes it before the credential it draws its tokens from.
THEOREM ClientsOutliveTheirUse == Spec => []NothingUsedAfterClose
<1>1. TypeOK /\ ProcessInv => NothingUsedAfterClose
  <2> SUFFICES ASSUME TypeOK, ProcessInv PROVE NothingUsedAfterClose
    OBVIOUS
  <2>1. \A q \in Query : Needs(handler[q]) \subseteq open
    BY DEF ProcessInv
  <2>2. phase \in Working \cup Closing \cup Down
    BY DEF TypeOK, ProcessOK, Working
  <2>3. open \cap Clients # {} => "credential" \in open
    BY <2>2 DEF ProcessInv, Working, Closing, Down, Clients, Resources
  <2> QED
    BY <2>1, <2>3 DEF NothingUsedAfterClose
<1> QED
  BY <1>1, QueryTypeCorrect, ProcessInvariant, PTL

\* After the last aclose nothing can be open: the handlers that could have built
\* a client again ended before the first one was closed.
THEOREM NothingLeftOpen == Spec => []LeavesNothingOpen
<1>1. ProcessInv => LeavesNothingOpen
  BY DEF ProcessInv, LeavesNothingOpen, Down
<1> QED
  BY <1>1, ProcessInvariant, PTL

-----------------------------------------------------------------------------
running == {q \in Query : handler[q] \in Active}

\* A handler that is at work before a step and after it.
LEMMA RunningOn ==
  ASSUME TypeOK, NEW q \in Query, NEW to \in Active, handler[q] \in Active,
         handler' = [handler EXCEPT ![q] = to]
  PROVE  running' = running
BY DEF running, TypeOK, HandlersOK

\* A reply is the contract's End.
LEMMA ReplyEnds ==
  ASSUME TypeOK, NEW q \in Query, handler[q] \in Active,
         NEW o \in {"answered", "refused", "failed"}, Reply(q, o)
  PROVE  Contract!End(q)
<1>1. q \in running /\ running' = running \ {q}
  BY DEF running, Reply, TypeOK, HandlersOK, Active
<1>2. \E r \in Contract!Outcome \ {"no reply"} :
        caller' = IF caller[q] = "waiting" THEN [caller EXCEPT ![q] = r] ELSE caller
  BY DEF Reply, Contract!Outcome
<1> QED
  BY <1>1, <1>2 DEF Contract!End, running

\* What a caller is told is told by the handler's end, and once: behind the doors,
\* the pool, the retries, shutdown and kills there are only the contract's steps.
THEOREM QueryServiceImplementsContract == Spec => ImplementsQueryContract
<1>1. Init => Contract!ContractInit
  BY DEF Init, Contract!ContractInit, Active
<1>2. TypeOK /\ ProcessInv /\ [Next]_vars => [Contract!ContractNext]_(Contract!contractVars)
  <2> SUFFICES ASSUME TypeOK, ProcessInv, [Next]_vars
               PROVE  Contract!ContractNext \/ UNCHANGED <<caller, running>>
    BY DEF Contract!contractVars, running
  <2>a. \A q \in Query : Contract!Take(q) \/ Contract!TurnAway(q) \/ Contract!StopWaiting({q})
                           \/ Contract!End(q) => Contract!ContractNext
    BY DEF Contract!ContractNext
  <2>b. caller \in [Query -> {"idle", "waiting", "answered", "refused", "failed", "no reply"}]
    BY DEF TypeOK, HandlersOK
  <2>c. handler \in [Query -> Active \cup {"none", "ended"}]
    BY DEF TypeOK, HandlersOK
  <2>d. handler' = handler => running' = running
    BY DEF running
  <2>1. ASSUME NEW q \in Query, GatewayRefuses(q) \/ PostFails(q) PROVE Contract!TurnAway(q)
    <3>1. handler' = handler
      BY <2>1 DEF GatewayRefuses, PostFails
    <3> QED
      BY <2>1, <2>d, <3>1 DEF GatewayRefuses, PostFails, Told, Contract!TurnAway, Contract!Outcome, running
  <2>2. ASSUME NEW q \in Query, Post(q) PROVE Contract!Take(q)
    <3>1. running' = running \cup {q}
      BY <2>2, <2>c DEF Post, Goes, running, Active
    <3> QED
      BY <2>2, <3>1 DEF Post, Told, Contract!Take, running
  <2>3. ASSUME NEW q \in Query, GatewayTimeout(q) PROVE Contract!StopWaiting({q})
    <3>1. handler' = handler
      BY <2>3 DEF GatewayTimeout
    <3>2. caller' = [o \in Query |-> IF o \in {q} THEN "no reply" ELSE caller[o]]
      BY <2>3, <2>b DEF GatewayTimeout, Told
    <3> QED
      BY <2>3, <2>d, <3>1, <3>2 DEF GatewayTimeout, Contract!StopWaiting, running
  <2>4. ASSUME NEW q \in Query, Authorize(q) \/ Embed(q) \/ Acquire(q)
        PROVE UNCHANGED <<caller, running>>
    BY <2>4, RunningOn DEF Authorize, Embed, Acquire, Goes, Active
  <2>5. ASSUME NEW q \in Query, RerankAgain(q) \/ GenerateAgain(q)
        PROVE UNCHANGED <<caller, running>>
    BY <2>5, <2>d DEF RerankAgain, GenerateAgain
  <2>6. ASSUME NEW q \in Query, Unauthorized(q) \/ Answered(q) \/ Raise(q) PROVE Contract!End(q)
    BY <2>6, ReplyEnds DEF Unauthorized, Answered, Raise, Active
  <2>7. ASSUME NEW q \in Query, Select(q) \/ RerankEnds(q)
        PROVE Contract!End(q) \/ UNCHANGED <<caller, running>>
    <3>1. handler[q] \in Active
      BY <2>7 DEF Select, RerankEnds, Active
    <3>2. CASE Reply(q, "answered")
      BY <3>1, <3>2, ReplyEnds
    <3>3. CASE /\ UNCHANGED caller
               /\ \E to \in {"rerank", "generate"} : handler' = [handler EXCEPT ![q] = to]
      BY <3>1, <3>3, RunningOn DEF Active
    <3> QED
      BY <2>7, <3>2, <3>3 DEF Select, RerankEnds, RetrievalEnds
  <2>8. ProbeSucceeds \/ ProbeFails \/ Start \/ Sigterm \/ CloseAll \/ UNCHANGED vars
          => UNCHANGED <<caller, running>>
    BY <2>d DEF ProbeSucceeds, ProbeFails, Start, Sigterm, CloseAll, Closes, vars
  <2>9. CASE Die
    <3>1. running' = {}
      BY <2>9 DEF Die, running, Active
    <3>2. caller' = [q \in Query |->
                       IF q \in running /\ caller[q] = "waiting" THEN "no reply" ELSE caller[q]]
      BY <2>9 DEF Die, running
    <3> QED
      BY <3>1, <3>2 DEF Contract!ContractNext, Contract!Crash, running
  <2> QED
    BY <2>a, <2>1, <2>2, <2>3, <2>4, <2>5, <2>6, <2>7, <2>8, <2>9 DEF Next, Step
<1> QED
  BY <1>1, <1>2, QueryTypeCorrect, ProcessInvariant, PTL
     DEF Spec, ImplementsQueryContract, Contract!ContractSpec
=============================================================================
