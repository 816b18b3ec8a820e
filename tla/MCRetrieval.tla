----------------------------- MODULE MCRetrieval -----------------------------
(* Four rows, one of another tenant; the deployed rrf_k; the first row old.   *)
EXTENDS Retrieval, TLC

CONSTANTS a, b, c, x, mine, theirs

MCOwner == [r \in Rows |-> IF r = x THEN theirs ELSE mine]
MCDecay == [r \in Rows |-> IF r = a THEN 4 ELSE 1]
MCScale == 8 * ProductSet(RrfK .. RrfK + CandidateK - 1)
MCTopK == {-1, 0, 1, 3}
MCTokens == (a :> 1) @@ (b :> 5) @@ (c :> 2) @@ (x :> 1)
=============================================================================
