------------------------- MODULE MCInsertTransactions -------------------------
(* Three jobs that share chunks: j and k in opposite order, l with both and a *)
(* chunk that repeats within the document.                                    *)
EXTENDS InsertTransactions, TLC

CONSTANTS j, k, l, h1, h2, h3

MCRows == (j :> <<h1, h2>>) @@ (k :> <<h2, h3, h1>>) @@ (l :> <<h3, h1, h3>>)
=============================================================================
