---------------------------- MODULE IndexingProofs ----------------------------
(***************************************************************************)
(* For any document, any settings and any size of a sub-batch: no row has  *)
(* the vector of another chunk's text.                                     *)
(***************************************************************************)
EXTENDS Indexing, TLAPS

\* What embed_batch has gone through: the chunks before from.
Reached == IF from - 1 < Len(chunks) THEN from - 1 ELSE Len(chunks)

Aligned == \A i \in 1 .. Len(vectors) : vectors[i] = i

\* The code appends to lists only; what a chunk is does not matter here.
Lists == (\E S : chunks \in Seq(S)) /\ (\E S : found \in Seq(S)) /\ vectors \in Seq(Int)

\* A response may be short, so there may be fewer vectors than chunks gone through;
\* if there are as many, none was short and all of them are in their places.
InPlace ==
  /\ from \in Nat \ {0}
  /\ stage = "chunking" => from = 1 /\ vectors = <<>>
  /\ stage = "embedding" => Len(vectors) <= Reached /\ (Len(vectors) = Reached => Aligned)

ChunkedFirst == stage # "chunking" => pc = "done"

VInv == Lists /\ InPlace /\ ChunkedFirst /\ RowsCarryTheirOwnVector

LEMMA InitHolds == IndexingInit => VInv
<1> SUFFICES ASSUME IndexingInit PROVE VInv
  OBVIOUS
<1> USE DEF IndexingInit
<1>1. chunks = <<>> /\ found = <<>>
  BY DEF Init
<1>2. <<>> \in Seq({}) /\ <<>> \in Seq(Int)
  OBVIOUS
<1>3. Lists
  BY <1>1, <1>2 DEF Lists
<1>4. InPlace /\ ChunkedFirst /\ RowsCarryTheirOwnVector
  BY DEF InPlace, ChunkedFirst, RowsCarryTheirOwnVector
<1> QED
  BY <1>3, <1>4 DEF VInv

LEMMA AppendIsList ==
  ASSUME NEW S, NEW s \in Seq(S), NEW e
  PROVE  \E T : Append(s, e) \in Seq(T)
<1>1. s \in Seq(S \cup {e})
  OBVIOUS
<1>2. Append(s, e) \in Seq(S \cup {e})
  BY <1>1
<1> QED
  BY <1>2

LEMMA ConcatenationIsList ==
  ASSUME NEW S, NEW T, NEW s \in Seq(S), NEW t \in Seq(T)
  PROVE  \E U : s \o t \in Seq(U)
<1>1. s \in Seq(S \cup T) /\ t \in Seq(S \cup T)
  OBVIOUS
<1>2. s \o t \in Seq(S \cup T)
  BY <1>1
<1> QED
  BY <1>2

LEMMA ChunkDocumentStep == ASSUME VInv, ChunkDocument PROVE VInv'
<1>1. UNCHANGED <<stage, from, tries, vectors, rows>> /\ Next
  BY DEF ChunkDocument, embedVars
<1>2. pc # "done"
  BY <1>1 DEF Next, SplitLeading, SplitHeading, SkipBlank, WholeSection, LargeSection,
              SectionsDone, Window, WindowsDone
<1>3. stage = "chunking"
  BY <1>2 DEF VInv, ChunkedFirst
<1>4. PICK S : chunks \in Seq(S)
  BY DEF VInv, Lists
<1>5. PICK T : found \in Seq(T)
  BY DEF VInv, Lists
<1>6. \E U : chunks' \in Seq(U)
  <2>1. CASE WholeSection
    BY <1>4, <2>1, AppendIsList DEF WholeSection
  <2>2. CASE WindowsDone
    BY <1>4, <1>5, <2>2, ConcatenationIsList DEF WindowsDone
  <2>3. CASE UNCHANGED chunks
    BY <1>4, <2>3
  <2> QED
    BY <1>1, <2>1, <2>2, <2>3 DEF Next, SplitLeading, SplitHeading, SkipBlank, LargeSection,
                                  SectionsDone, Window
<1>7. \E U : found' \in Seq(U)
  <2>1. CASE Window
    <3>1. found' = found \/ \E e : found' = Append(found, e)
      BY <2>1 DEF Window
    <3> QED
      BY <1>5, <3>1, AppendIsList
  <2>2. CASE LargeSection
    <3>1. found' = <<>> /\ <<>> \in Seq({})
      BY <2>2 DEF LargeSection
    <3> QED
      BY <3>1
  <2>3. CASE UNCHANGED found
    BY <1>5, <2>3
  <2> QED
    BY <1>1, <2>1, <2>2, <2>3 DEF Next, SplitLeading, SplitHeading, SkipBlank, WholeSection,
                                  SectionsDone, WindowsDone
<1>8. Lists'
  BY <1>1, <1>6, <1>7 DEF VInv, Lists
<1>9. InPlace' /\ ChunkedFirst' /\ RowsCarryTheirOwnVector'
  BY <1>1, <1>3 DEF VInv, InPlace, ChunkedFirst, RowsCarryTheirOwnVector
<1> QED
  BY <1>8, <1>9 DEF VInv

LEMMA LengthType == ASSUME VInv PROVE Len(chunks) \in Nat /\ Len(vectors) \in Nat
BY DEF VInv, Lists

LEMMA ChunkedStep == ASSUME VInv, Chunked PROVE VInv'
<1>1. /\ stage = "chunking" /\ pc = "done" /\ stage' \in {"nothing", "embedding"}
      /\ UNCHANGED <<pc, found, chunks, from, tries, vectors, rows>>
  BY DEF Chunked, vars
<1>2. vectors = <<>> /\ from = 1
  BY <1>1 DEF VInv, InPlace
<1>3. Len(vectors) = 0 /\ Reached = 0 /\ Aligned
  BY <1>2, LengthType DEF Reached, Aligned
<1>4. InPlace'
  BY <1>1, <1>3 DEF VInv, InPlace, Reached, Aligned
<1> QED
  BY <1>1, <1>4 DEF VInv, Lists, ChunkedFirst, RowsCarryTheirOwnVector

LEMMA ConcatenationOfIntegers ==
  ASSUME NEW s \in Seq(Int), NEW t \in Seq(Int)
  PROVE  /\ s \o t \in Seq(Int) /\ Len(s \o t) = Len(s) + Len(t)
         /\ \A i \in 1 .. Len(s) + Len(t) :
              (s \o t)[i] = IF i <= Len(s) THEN s[i] ELSE t[i - Len(s)]
OBVIOUS

LEMMA EmbeddedStep == ASSUME VInv, Embedded PROVE VInv'
<1>1. /\ stage = "embedding" /\ from <= Len(chunks) /\ from' = from + MaxInputs
      /\ UNCHANGED <<pc, found, chunks, stage, rows>>
  BY DEF Embedded, vars
<1>2. PICK last \in SubBatch : vectors' = vectors \o Response(last - from + 1)
  BY DEF Embedded
<1> DEFINE n == last - from + 1
           m == Len(vectors)
           r == Response(n)
<1>3. Len(chunks) \in Nat /\ m \in Nat /\ from \in Nat \ {0} /\ MaxInputs \in Nat \ {0}
  BY LengthType, EmbedAssumption DEF VInv, InPlace
<1>4. /\ last \in Nat /\ from <= last /\ last <= from + MaxInputs - 1 /\ last <= Len(chunks)
      /\ n \in Nat
  BY <1>3 DEF SubBatch
<1>5. r \in Seq(Int) /\ Len(r) = n /\ \A i \in 1 .. n : r[i] = from + i - 1
  BY <1>3, <1>4 DEF Response
<1>6. /\ vectors \in Seq(Int) /\ vectors' \in Seq(Int) /\ Len(vectors') = m + n
      /\ \A i \in 1 .. m + n : vectors'[i] = IF i <= m THEN vectors[i] ELSE r[i - m]
  <2>1. vectors \in Seq(Int) /\ r \in Seq(Int) /\ vectors' = vectors \o r /\ Len(r) = n
    BY <1>2, <1>5 DEF VInv, Lists
  <2> HIDE DEF r, n
  <2> QED
    BY <2>1, ConcatenationOfIntegers
<1>7. Reached = from - 1 /\ m <= from - 1
  BY <1>1, <1>3 DEF VInv, InPlace, Reached
<1>8. last <= Reached' /\ Reached' \in Nat
  BY <1>1, <1>3, <1>4 DEF Reached
<1>9. Len(vectors') <= Reached'
  BY <1>3, <1>4, <1>6, <1>7, <1>8
<1>10. ASSUME Len(vectors') = Reached' PROVE Aligned'
  <2>1. m = from - 1
    BY <1>3, <1>4, <1>6, <1>7, <1>8, <1>10
  <2>2. Aligned
    BY <1>1, <1>7, <2>1 DEF VInv, InPlace
  <2> SUFFICES ASSUME NEW i \in 1 .. m + n PROVE vectors'[i] = i
    BY <1>6 DEF Aligned
  <2>3. CASE i <= m
    BY <1>3, <1>6, <2>2, <2>3 DEF Aligned
  <2>4. CASE i > m
    <3>1. i - m \in 1 .. n
      BY <1>3, <1>4, <2>4
    <3>2. vectors'[i] = from + (i - m) - 1
      <4>1. vectors'[i] = r[i - m]
        BY <1>3, <1>6, <2>4
      <4>2. r[i - m] = from + (i - m) - 1
        BY <1>5, <3>1
      <4> QED
        BY <4>1, <4>2
    <3> QED
      BY <1>3, <2>1, <3>2
  <2> QED
    BY <1>3, <1>4, <2>3, <2>4
<1>11. InPlace'
  BY <1>1, <1>3, <1>9, <1>10 DEF InPlace
<1> QED
  BY <1>1, <1>6, <1>11 DEF VInv, Lists, ChunkedFirst, RowsCarryTheirOwnVector

LEMMA BuildRowsStep == ASSUME VInv, BuildRows PROVE VInv'
<1>1. /\ stage = "embedding" /\ from > Len(chunks) /\ Zip
      /\ UNCHANGED <<pc, found, chunks, from, vectors>>
  BY DEF BuildRows, vars
<1>2. Len(chunks) \in Nat /\ Len(vectors) \in Nat /\ from \in Nat \ {0}
  BY LengthType DEF VInv, InPlace
<1>3. Reached = Len(chunks)
  BY <1>1, <1>2 DEF Reached
<1>4. stage' \in {"inserting", "raised"}
  BY <1>1 DEF Zip
<1>5. RowsCarryTheirOwnVector'
  <2> SUFFICES ASSUME stage' = "inserting"
               PROVE  /\ Len(rows') = Len(chunks)
                      /\ \A i \in 1 .. Len(chunks) : rows'[i].chunk = chunks[i] /\ rows'[i].vector = i
    BY <1>1 DEF RowsCarryTheirOwnVector
  <2>1. /\ Len(vectors) = Len(chunks)
        /\ rows' = [i \in 1 .. Len(chunks) |-> [chunk |-> chunks[i], vector |-> vectors[i]]]
    BY <1>1 DEF Zip
  <2>2. Aligned
    BY <1>1, <1>3, <2>1 DEF VInv, InPlace
  <2> QED
    BY <1>2, <2>1, <2>2 DEF Aligned
<1> QED
  BY <1>1, <1>4, <1>5 DEF VInv, Lists, InPlace, ChunkedFirst

LEMMA OtherStep ==
  ASSUME VInv, UNCHANGED <<pc, found, chunks, from, vectors, rows>>, stage' \in {stage, "raised"},
         stage' = "raised" => stage \in {"embedding", "raised"}
  PROVE  VInv'
BY DEF VInv, Lists, InPlace, Reached, Aligned, ChunkedFirst, RowsCarryTheirOwnVector

\* For any documents, page maps, windows, sub-batches and attempts: what is handed
\* to the table pairs each chunk with the vector of its own text.
THEOREM VectorsMatchTheirTexts == IndexingSpec => []RowsCarryTheirOwnVector
<1>1. IndexingInit => VInv
  BY InitHolds
<1>2. VInv /\ [IndexingNext]_allVars => VInv'
  <2> SUFFICES ASSUME VInv, [IndexingNext]_allVars PROVE VInv'
    OBVIOUS
  <2>1. CASE EmbedAgain
    BY <2>1, OtherStep DEF EmbedAgain, vars
  <2>2. CASE EmbedFails
    BY <2>2, OtherStep DEF EmbedFails, vars
  <2>3. CASE UNCHANGED allVars
    <3>1. UNCHANGED <<pc, found, chunks, from, vectors, rows, stage>>
      BY <2>3 DEF allVars, vars, embedVars
    <3> QED
      BY <3>1, OtherStep
  <2> QED
    BY <2>1, <2>2, <2>3, ChunkDocumentStep, ChunkedStep, EmbeddedStep, BuildRowsStep
    DEF IndexingNext
<1>3. VInv => RowsCarryTheirOwnVector
  BY DEF VInv
<1> QED
  BY <1>1, <1>2, <1>3, PTL DEF IndexingSpec

\* The steps of _process after chunk_document leave its result alone, so that what
\* ChunkingProofs shows of Chunking holds here too.
THEOREM IndexingImplementsChunking == IndexingSpec => Spec
<1>1. IndexingInit => Init
  BY DEF IndexingInit
<1>2. [IndexingNext]_allVars => [Next]_vars
  <2> SUFFICES ASSUME [IndexingNext]_allVars PROVE Next \/ UNCHANGED vars
    OBVIOUS
  <2> QED
    BY DEF IndexingNext, ChunkDocument, Chunked, Embedded, EmbedAgain, EmbedFails, BuildRows, allVars
<1> QED
  BY <1>1, <1>2, PTL DEF IndexingSpec, Spec
=============================================================================
