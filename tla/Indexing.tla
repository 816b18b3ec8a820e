------------------------------- MODULE Indexing -------------------------------
(***************************************************************************)
(* What _process makes of an extracted document: its chunks (Chunking),    *)
(* one vector for each, asked for in sub-batches that are tried a few      *)
(* times each, and the rows of _insert_chunks.  A vector is the number of  *)
(* the chunk whose text it was made from.                                  *)
(***************************************************************************)
EXTENDS Chunking

CONSTANTS
  MaxInputs,      \* _MAX_INPUTS_PER_REQUEST
  EmbedAttempts   \* stop_after_attempt(5)

ASSUME EmbedAssumption == MaxInputs \in Nat \ {0} /\ EmbedAttempts \in Nat \ {0}

VARIABLES
  stage,     \* the call of _process that is running, or how the job went on
  from,      \* embed_batch: the first text of the next sub-batch
  tries,     \* attempts made of its request
  vectors,   \* its embeddings so far
  rows       \* _insert_chunks: the arguments of executemany

embedVars == <<stage, from, tries, vectors, rows>>
allVars   == <<vars, embedVars>>

IndexingInit ==
  /\ Init
  /\ stage = "chunking" /\ from = 1 /\ tries = 1
  /\ vectors = <<>> /\ rows = <<>>

ChunkDocument == Next /\ UNCHANGED embedVars

\* No chunks: the job ends without a row.  Else embed_batch.
Chunked ==
  /\ stage = "chunking" /\ pc = "done"
  /\ stage' = IF chunks = <<>> THEN "nothing" ELSE "embedding"
  /\ UNCHANGED <<vars, from, tries, vectors, rows>>

\* texts[start : start + _MAX_INPUTS_PER_REQUEST]
SubBatch == from .. (IF from + MaxInputs - 1 < Len(chunks) THEN from + MaxInputs - 1 ELSE Len(chunks))

\* The vectors of a response, in the order of its inputs, the first n of them.
Response(n) == [i \in 1 .. n |-> from + i - 1]

\* A sub-batch is answered.  Nothing here looks whether every input was.
Embedded ==
  /\ stage = "embedding" /\ from <= Len(chunks)
  /\ \E last \in SubBatch : vectors' = vectors \o Response(last - from + 1)
  /\ from' = from + MaxInputs /\ tries' = 1
  /\ UNCHANGED <<vars, stage, rows>>

\* One of _RETRYABLE, with attempts left.
EmbedAgain ==
  /\ stage = "embedding" /\ from <= Len(chunks) /\ tries < EmbedAttempts
  /\ tries' = tries + 1
  /\ UNCHANGED <<vars, stage, from, vectors, rows>>

\* The last attempt, or an error that is not retried: the job raises.
EmbedFails ==
  /\ stage = "embedding" /\ from <= Len(chunks)
  /\ stage' = "raised"
  /\ UNCHANGED <<vars, from, tries, vectors, rows>>

\* Mutant of Zip: without strict=True, which stops at the shorter of the two.
ZipShortest ==
  /\ rows' = [i \in 1 .. Len(vectors) |-> [chunk |-> chunks[i], vector |-> vectors[i]]]
  /\ stage' = "inserting"

\* zip(chunks, embeddings, strict=True)
Zip ==
  IF Len(vectors) = Len(chunks)
  THEN /\ rows' = [i \in 1 .. Len(chunks) |-> [chunk |-> chunks[i], vector |-> vectors[i]]]
       /\ stage' = "inserting"
  ELSE stage' = "raised" /\ UNCHANGED rows

BuildRows ==
  /\ stage = "embedding" /\ from > Len(chunks)
  /\ Zip
  /\ UNCHANGED <<vars, from, tries, vectors>>

IndexingNext == ChunkDocument \/ Chunked \/ Embedded \/ EmbedAgain \/ EmbedFails \/ BuildRows

IndexingSpec == IndexingInit /\ [][IndexingNext]_allVars

-----------------------------------------------------------------------------
(* Properties. *)

\* The rows handed to the table are all the chunks of the document in their order,
\* each with the vector of its own text: no boundary between sub-batches, no
\* repeated request and no response that is short of a vector shifts the vectors
\* against the texts they stand for.
RowsCarryTheirOwnVector ==
  stage = "inserting" =>
    /\ Len(rows) = Len(chunks)
    /\ \A i \in 1 .. Len(rows) : rows[i].chunk = chunks[i] /\ rows[i].vector = i
=============================================================================
