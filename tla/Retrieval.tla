------------------------------ MODULE Retrieval ------------------------------
(***************************************************************************)
(* One query on retrieval-api: embed, rank by vector and by full text,     *)
(* fuse, fetch, rerank, cut to top_k and, for /v1/answer, pack a context   *)
(* under the token budget and generate.  Each SELECT reads the replica as  *)
(* it is when it runs, while ingestion's commits keep arriving.            *)
(*                                                                         *)
(* Scores are kept exact by multiplying them by Scale, a common multiple   *)
(* of their denominators.                                                  *)
(***************************************************************************)
EXTENDS Integers, Sequences, FiniteSets, FiniteSetsExt, Functions

CONSTANTS
  Tenants,
  Rows,          \* the rows of chunks there may be
  Owner,         \* tenant_id of each
  Decay,         \* 2 to the number of half-lives it is old: divides the boost
  Tokens,        \* the tokens of its text
  Citation,      \* the tokens of the "[source :: heading :: page]" line
  FreshnessOn,   \* freshness_half_life_days > 0
  RrfK,          \* rrf_k
  CandidateK,    \* candidate_k
  Scale,         \* what scores are multiplied by
  Budget,        \* context_token_budget
  CompressCap,   \* compress_per_chunk_tokens
  TopK           \* the values of top_k a request may carry: any integer

Policies == {"top_k_by_fused", "rerank_then_top_k", "rerank_then_compress"}
Request == [tenant : Tenants, endpoint : {"search", "answer"}, topK : TopK,
            hybrid : BOOLEAN, rerank : {"on", "off", "default"}, policy : Policies]

\* rerank_enabled is off; it is on without a reranker_url; it is on with one.
RerankerSettings == {"disabled", "no url", "served"}

ASSUME ParameterAssumption ==
  /\ IsFiniteSet(Rows)
  /\ Owner \in [Rows -> Tenants]
  /\ Decay \in [Rows -> Nat \ {0}]
  /\ Tokens \in [Rows -> Nat \ {0}]
  /\ Citation \in Nat /\ Budget \in Nat /\ CompressCap \in Nat
  /\ FreshnessOn \in BOOLEAN
  /\ RrfK \in Nat \ {0} /\ CandidateK \in Nat \ {0}
  /\ TopK \subseteq Int
ASSUME ScaleAssumption ==
  /\ Scale \in Nat \ {0}
  /\ \A rank \in 0 .. CandidateK - 1 : Scale % (RrfK + rank) = 0
  /\ \A r \in Rows : Scale % (2 * RrfK * Decay[r]) = 0

VARIABLES
  req,        \* the request
  reranker,   \* rerank_enabled and reranker_url: fixed at start-up
  pc,         \* the await the handler is at
  table,      \* the rows the replica shows
  rankings,   \* the id lists of the retrievers so far
  candidates, \* retrieve's candidates, in order
  result,     \* what retrieve returned
  looked,     \* how many of them assemble's loop has looked at
  parts,      \* what it packed: records [row, cost]
  used        \* and its count of their tokens

vars == <<req, reranker, pc, table, rankings, candidates, result, looked, parts, used>>

-----------------------------------------------------------------------------
(* Helpers. *)

\* s[:n], for a negative n too.
Slice(s, n) ==
  LET end == IF n < 0 THEN Len(s) + n ELSE n
  IN SubSeq(s, 1, IF end < Len(s) THEN end ELSE Len(s))

\* The elements of I in the order of the pairs in before.
Ordered(I, before) ==
  LET Rank(i) == Cardinality({j \in I : <<j, i>> \in before})
  IN [k \in 1 .. Cardinality(I) |-> CHOOSE i \in I : Rank(i) = k - 1]

At(s, positions) == [k \in DOMAIN positions |-> s[positions[k]]]

\* The members of s that are in T, in their order.
Keeping(s, T) ==
  LET kept == {i \in DOMAIN s : s[i] \in T}
  IN At(s, Ordered(kept, {p \in kept \X kept : p[1] < p[2]}))

\* sorted(s, key=score, reverse=True), which is stable.
SortedBy(s, score) ==
  At(s, Ordered(DOMAIN s,
    {p \in (DOMAIN s) \X (DOMAIN s) :
       \/ score[s[p[1]]] > score[s[p[2]]]
       \/ score[s[p[1]]] = score[s[p[2]]] /\ p[1] < p[2]}))

\* Mutant of Points: the sign of the rank.
PointsRising(ranking, r) ==
  IF r \in Range(ranking)
  THEN LET rank == (CHOOSE i \in DOMAIN ranking : ranking[i] = r) - 1
       IN Scale \div (RrfK - rank)
  ELSE 0

Points(ranking, r) ==
  IF r \in Range(ranking)
  THEN LET rank == (CHOOSE i \in DOMAIN ranking : ranking[i] = r) - 1
       IN Scale \div (RrfK + rank)
  ELSE 0

Fused(r) ==
  IF Len(rankings) = 1 THEN Points(rankings[1], r)
  ELSE Points(rankings[1], r) + Points(rankings[2], r)

\* created_at is NOT NULL in the table, so each row has an age.
Boost(r) == IF FreshnessOn THEN Scale \div (2 * RrfK * Decay[r]) ELSE 0

\* Mutant of InsertionOrder: the lists one after the other, repetitions and all.
InsertionOrderAll ==
  IF Len(rankings) = 1 THEN rankings[1] ELSE rankings[1] \o rankings[2]

\* The order in which rrf_fuse's dict meets the ids.
InsertionOrder ==
  IF Len(rankings) = 1 THEN rankings[1]
  ELSE rankings[1] \o Keeping(rankings[2], Rows \ Range(rankings[1]))

CandidateIds == Slice(SortedBy(InsertionOrder, [r \in Rows |-> Fused(r)]), CandidateK)

OwnRows(rows) == {r \in rows : Owner[r] = req.tenant}

\* What ORDER BY similarity LIMIT k may return: the order is the data's, and an
\* approximate index or a text match may return fewer rows than there are.
RankingsOf(rows) == UNION {Injection(1 .. n, rows) : n \in 0 .. CandidateK}

\* /v1/answer goes by the policy, /v1/search by rerank_enabled alone.
RerankOn ==
  CASE req.rerank = "on" -> TRUE
    [] req.rerank = "off" -> FALSE
    [] req.rerank = "default" /\ req.endpoint = "answer" -> req.policy # "top_k_by_fused"
    [] OTHER -> reranker # "disabled"

\* What TEI's /rerank answers with: a score for each text it was sent, once.
\* rerank and retrieve do not check that; they take what order it gives.
RerankerOrders == Bijection(DOMAIN candidates, DOMAIN candidates)

-----------------------------------------------------------------------------
Init ==
  /\ req \in Request /\ reranker \in RerankerSettings
  /\ pc = "embed"
  /\ table \in SUBSET Rows
  /\ rankings = <<>> /\ candidates = <<>> /\ result = <<>>
  /\ looked = 0 /\ parts = <<>> /\ used = 0

\* Rows of an ingestion transaction arrive on the replica: ingestion only inserts.
Replicate ==
  /\ pc \in {"embed", "vector", "bm25", "fetch"}
  /\ \E rows \in SUBSET (Rows \ table) : rows # {} /\ table' = table \cup rows
  /\ UNCHANGED <<req, reranker, pc, rankings, candidates, result, looked, parts, used>>

Embed ==
  /\ pc = "embed"
  /\ pc' \in {"vector", "failed"}
  /\ UNCHANGED <<req, reranker, table, rankings, candidates, result, looked, parts, used>>

VectorIds ==
  /\ pc = "vector"
  /\ \E ids \in RankingsOf(OwnRows(table)) : rankings' = <<ids>>
  /\ pc' = IF req.hybrid THEN "bm25" ELSE "fetch"
  /\ UNCHANGED <<req, reranker, table, candidates, result, looked, parts, used>>

Bm25Ids ==
  /\ pc = "bm25"
  /\ \E ids \in RankingsOf(OwnRows(table)) : rankings' = Append(rankings, ids)
  /\ pc' = "fetch"
  /\ UNCHANGED <<req, reranker, table, candidates, result, looked, parts, used>>

\* The replica is gone: nothing in retrieve catches it.
SelectFails ==
  /\ pc \in {"vector", "bm25", "fetch"}
  /\ pc' = "failed"
  /\ UNCHANGED <<req, reranker, table, rankings, candidates, result, looked, parts, used>>

Returned == IF req.endpoint = "answer" THEN "pack" ELSE "done"

NothingFound ==
  /\ pc = "fetch" /\ CandidateIds = <<>>
  /\ pc' = Returned
  /\ UNCHANGED <<req, reranker, table, rankings, candidates, result, looked, parts, used>>

\* _fetch_rows, the candidates of the rows found, and their final order.
FetchRows ==
  /\ pc = "fetch" /\ CandidateIds # <<>>
  /\ candidates' = SortedBy(Keeping(CandidateIds, OwnRows(table)),
                            [r \in Rows |-> Fused(r) + Boost(r)])
  /\ pc' = IF RerankOn /\ candidates' # <<>> THEN "rerank" ELSE "cut"
  /\ UNCHANGED <<req, reranker, table, rankings, result, looked, parts, used>>

\* rerank without a reranker: the first top_k in the order they came.
PassThrough ==
  /\ pc = "rerank" /\ reranker # "served"
  /\ LET keep == IF req.topK < Len(candidates) THEN req.topK ELSE Len(candidates)
     IN result' = Slice(SubSeq(candidates, 1, keep), req.topK)
  /\ pc' = Returned
  /\ UNCHANGED <<req, reranker, table, rankings, candidates, looked, parts, used>>

\* The cross-encoder's scores may put the candidates in any order; both rerank
\* and retrieve cut the list.
Rerank ==
  /\ pc = "rerank" /\ reranker = "served"
  /\ \E order \in RerankerOrders :
       result' = Slice(Slice([i \in DOMAIN order |-> candidates[order[i]]], req.topK), req.topK)
  /\ pc' = Returned
  /\ UNCHANGED <<req, reranker, table, rankings, candidates, looked, parts, used>>

\* Mutant of RerankFails: an empty ranking stands for the failure.
RerankFailsEmpty ==
  /\ pc = "rerank" /\ reranker = "served"
  /\ result' = <<>>
  /\ pc' = Returned
  /\ UNCHANGED <<req, reranker, table, rankings, candidates, looked, parts, used>>

\* Whatever rerank raises, its three attempts included, leaves the fused order.
RerankFails ==
  /\ pc = "rerank" /\ reranker = "served"
  /\ pc' = "cut"
  /\ UNCHANGED <<req, reranker, table, rankings, candidates, result, looked, parts, used>>

Cut ==
  /\ pc = "cut"
  /\ result' = Slice(candidates, req.topK)
  /\ pc' = Returned
  /\ UNCHANGED <<req, reranker, table, rankings, candidates, looked, parts, used>>

(* assemble *)

Compressing == req.policy = "rerank_then_compress"

\* The tokens a chunk's text takes in the context.  A compressed text is cut to
\* the cap and to the room left; joining or cutting it may cost one token more.
TextCosts(r) ==
  IF Compressing
  THEN 1 .. 1 + Min({Tokens[r], CompressCap, Budget - used})
  ELSE {Tokens[r]}

\* Mutant of Packs: the budget is tested before the chunk is added to it.
PacksWhileRoom(cost) == used <= Budget

Packs(cost) == used + cost <= Budget

\* The blank lines that join the chunks are not counted.
Pack ==
  /\ pc = "pack" /\ looked < Len(result)
  /\ Compressing => Budget - used > 0
  /\ \E body \in TextCosts(result[looked + 1]) :
       LET cost == Citation + body IN
         /\ Packs(cost)
         /\ parts' = Append(parts, [row |-> result[looked + 1], cost |-> cost])
         /\ used' = used + cost
  /\ looked' = looked + 1
  /\ UNCHANGED <<req, reranker, pc, table, rankings, candidates, result>>

\* Mutant of Overflow: the chunk that does not fit is passed over.
OverflowSkips ==
  /\ pc = "pack" /\ looked < Len(result)
  /\ \E body \in TextCosts(result[looked + 1]) : ~Packs(Citation + body)
  /\ looked' = looked + 1
  /\ UNCHANGED <<req, reranker, pc, table, rankings, candidates, result, parts, used>>

Overflow ==
  /\ pc = "pack" /\ looked < Len(result)
  /\ \/ Compressing /\ Budget - used <= 0
     \/ \E body \in TextCosts(result[looked + 1]) : ~Packs(Citation + body)
  /\ pc' = "generate"
  /\ UNCHANGED <<req, reranker, table, rankings, candidates, result, looked, parts, used>>

AllPacked ==
  /\ pc = "pack" /\ looked = Len(result)
  /\ pc' = "generate"
  /\ UNCHANGED <<req, reranker, table, rankings, candidates, result, looked, parts, used>>

Generate ==
  /\ pc = "generate"
  /\ pc' \in {"done", "failed"}
  /\ UNCHANGED <<req, reranker, table, rankings, candidates, result, looked, parts, used>>

Next ==
  \/ Replicate \/ Embed \/ VectorIds \/ Bm25Ids \/ SelectFails \/ NothingFound \/ FetchRows
  \/ PassThrough \/ Rerank \/ RerankFails \/ Cut
  \/ Pack \/ Overflow \/ AllPacked \/ Generate

Spec == Init /\ [][Next]_vars

-----------------------------------------------------------------------------
(* Properties. *)

\* Every variable keeps its type; the count of tokens never exceeds the budget.
TypeOK ==
  /\ req \in Request /\ reranker \in RerankerSettings
  /\ pc \in {"embed", "vector", "bm25", "fetch", "rerank", "cut", "pack", "generate",
             "done", "failed"}
  /\ table \subseteq Rows
  /\ rankings \in Seq(Seq(Rows))
  /\ candidates \in Seq(Rows) /\ result \in Seq(Rows)
  /\ looked \in 0 .. Len(result)
  /\ parts \in Seq([row : Rows, cost : Nat])
  /\ used \in 0 .. Budget

\* The evidence returned is the tenant's own, each row once, and all of it came
\* from one of the rankings: neither a second list nor a later SELECT adds a row
\* of somebody else or the same row again.
EvidenceOwnAndOnce ==
  /\ IsInjective(candidates) /\ IsInjective(result)
  /\ Range(result) \subseteq Range(candidates)
  /\ \A r \in Range(candidates) :
       Owner[r] = req.tenant /\ \E i \in DOMAIN rankings : r \in Range(rankings[i])

Precedes(s, a, b) == \E i, j \in DOMAIN s : i < j /\ s[i] = a /\ s[j] = b

\* Both retrievers agree that a is better than b.
ClearlyBetter(a, b) ==
  /\ \E i \in DOMAIN rankings : Precedes(rankings[i], a, b)
  /\ \A i \in DOMAIN rankings : b \in Range(rankings[i]) => Precedes(rankings[i], a, b)

\* When every retriever that found b puts a, which is at least as fresh, before
\* it, a is a candidate before b: fusion with all its ties and the cut to
\* candidate_k, made over three readings of a changing table, respects unanimity.
UnanimityKept ==
  candidates # <<>> => \A a, b \in Rows :
    ClearlyBetter(a, b) /\ Decay[a] <= Decay[b] /\ b \in Range(candidates)
      => Precedes(candidates, a, b)

\* The docstring of _freshness_boost: it "never reorders a clearly-better chunk".
FreshnessNeverReorders ==
  candidates # <<>> => \A a, b \in Rows :
    ClearlyBetter(a, b) /\ b \in Range(candidates) => Precedes(candidates, a, b)

\* A reranker that is off, without an address, down or up makes no difference to how
\* much evidence a query returns: top_k of the candidates, none for a top_k of 0, or
\* all of them when there are fewer.  For a negative top_k the code counts from the
\* end, once or twice, and the amounts differ.
RerankLosesNothing ==
  pc \in {"pack", "done"} /\ req.topK >= 0 =>
    Len(result) = Min({req.topK, Len(candidates)})

\* The context holds the best evidence without a gap: the chunks packed are the
\* first of the result, in its order, and the count reported is what they cost.
ContextIsBestPrefix ==
  /\ Len(parts) <= Len(result)
  /\ \A i \in DOMAIN parts : parts[i].row = result[i]
  /\ \E total \in [0 .. Len(parts) -> 0 .. Budget] :
       /\ total[0] = 0 /\ total[Len(parts)] = used
       /\ \A i \in DOMAIN parts : total[i] = total[i - 1] + parts[i].cost

\* What the LLM reads is the tenant's own, and no row is read to it twice: EvidenceOwnAndOnce
\* carried through the packing by ContextIsBestPrefix.
ContextOwnAndOnce ==
  \A i \in DOMAIN parts :
    /\ Owner[parts[i].row] = req.tenant
    /\ \A j \in DOMAIN parts : parts[j].row = parts[i].row => j = i
=============================================================================
