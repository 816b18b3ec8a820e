------------------------------- MODULE Chunking -------------------------------
(***************************************************************************)
(* chunk_document: a document becomes sections (one per Markdown heading), *)
(* and sections become chunks, whole when they fit and as overlapping      *)
(* windows when they do not.  The loops of the code are the steps here.    *)
(*                                                                         *)
(* A text is a sequence of elements, each one token and one character      *)
(* wide: a word, white space or a heading of level 1 to 6.  A heading is   *)
(* identified by its position.  Ranges [lo, hi) are half open, as in the   *)
(* code; positions count from 1.                                           *)
(***************************************************************************)
EXTENDS Integers, Sequences

CONSTANTS
  Texts,      \* the documents
  PageMaps,   \* what extraction may say of their pages
  Widths      \* the settings: <<chunk_size_tokens, overlap_tokens>>

Word == 0
Blank == 7
Level == 1 .. 6
Element == {Word, Blank} \cup Level
NoPage == 0

Strategy == {"heading", "fixed"}

\* A page map gives the page of every position of a text, NoPage in a gap
\* between spans; a document without page provenance has none at all: <<>>.
ASSUME InputAssumption ==
  /\ Texts \subseteq Seq(Element)
  /\ PageMaps \subseteq Seq(Nat)
  /\ Widths \subseteq (Nat \ {0}) \X Nat

VARIABLES
  call,      \* the arguments of chunk_document
  pc,        \* which loop is running
  at,        \* the heading _split_by_heading handled last, 0 before the first
  stack,     \* its stack of headings
  sections,  \* what it has yielded
  next,      \* the section _heading_chunks takes next
  offset,    \* the offset of _fixed_chunks' next window
  start,     \* its start_index
  found,     \* its chunks so far
  chunks     \* the result so far

vars == <<call, pc, at, stack, sections, next, offset, start, found, chunks>>

text == call.text
End == Len(text) + 1

-----------------------------------------------------------------------------
(* Helpers. *)

HeadingsIn(lo, hi) == {p \in lo .. hi - 1 : text[p] \in Level}
VisibleIn(lo, hi) == {p \in lo .. hi - 1 : text[p] # Blank}

\* The first heading at or after lo, or the end of the text.
NextHeading(lo) ==
  IF HeadingsIn(lo, End) = {} THEN End
  ELSE CHOOSE p \in HeadingsIn(lo, End) : \A q \in HeadingsIn(lo, End) : p <= q

\* str.strip() of the text in [lo, hi), as a range.
StripLo(lo, hi) == CHOOSE p \in VisibleIn(lo, hi) : \A q \in VisibleIn(lo, hi) : p <= q
StripHi(lo, hi) == (CHOOSE p \in VisibleIn(lo, hi) : \A q \in VisibleIn(lo, hi) : q <= p) + 1

PageAt(p) == IF p \in 1 .. Len(call.pages) THEN call.pages[p] ELSE NoPage

PageStart(lo, hi) == PageAt(lo)
\* Mutant of PageEnd: the page at end, not at end - 1.
PageEndExclusive(lo, hi) == PageAt(hi)

PageEnd(lo, hi) == PageAt(IF hi - 1 > lo THEN hi - 1 ELSE lo)

\* Mutant of Push: stack[: level].
PushBelow(s, level, p) ==
  Append(SubSeq(s, 1, IF level < Len(s) THEN level ELSE Len(s)), p)

\* stack[: level - 1] with the new heading on top.
Push(s, level, p) ==
  Append(SubSeq(s, 1, IF level - 1 < Len(s) THEN level - 1 ELSE Len(s)), p)

Section(path, lo, hi) == [path |-> path, lo |-> lo, hi |-> hi]

\* A chunk holds the stripped text of [lo, hi), which was n tokens wide.
NewChunk(i, s, lo, hi, n) ==
  [index |-> i, path |-> s.path,
   lo |-> StripLo(lo, hi), hi |-> StripHi(lo, hi), tokens |-> n,
   pageStart |-> PageStart(s.lo, s.hi), pageEnd |-> PageEnd(s.lo, s.hi)]

-----------------------------------------------------------------------------
Init ==
  /\ \E t \in Texts, g \in PageMaps, s \in Strategy, w \in Widths :
       /\ Len(g) \in {0, Len(t)}
       /\ call = [text |-> t, pages |-> g, strategy |-> s, size |-> w[1], overlap |-> w[2]]
  /\ pc = IF call.strategy = "heading" THEN "split" ELSE "window"
  /\ at = 0
  /\ stack = <<>>
  /\ sections = IF call.strategy = "heading" THEN <<>> ELSE <<Section(<<>>, 1, End)>>
  /\ next = 1
  /\ offset = 1
  /\ start = 0
  /\ found = <<>>
  /\ chunks = <<>>

(* _split_by_heading *)

\* Mutant of SplitLeading: the sections start at the first heading.
SplitFromFirst ==
  /\ pc = "split" /\ at = 0
  /\ LET first == NextHeading(1) IN
       /\ sections' = IF first = End THEN <<Section(<<>>, 1, first)>> ELSE <<>>
       /\ at' = first
  /\ pc' = IF at' = End THEN "sections" ELSE "headings"
  /\ UNCHANGED <<call, stack, next, offset, start, found, chunks>>

\* The text before the first heading, if any of it is visible; the whole text
\* when there is no heading.
SplitLeading ==
  /\ pc = "split" /\ at = 0
  /\ LET first == NextHeading(1) IN
       /\ sections' = IF first = End \/ VisibleIn(1, first) # {}
                      THEN <<Section(<<>>, 1, first)>> ELSE <<>>
       /\ at' = first
  /\ pc' = IF at' = End THEN "sections" ELSE "headings"
  /\ UNCHANGED <<call, stack, next, offset, start, found, chunks>>

SplitHeading ==
  /\ pc = "headings"
  /\ stack' = Push(stack, text[at], at)
  /\ LET end == NextHeading(at + 1) IN
       /\ sections' = Append(sections, Section(stack', at + 1, end))
       /\ at' = end
  /\ pc' = IF at' = End THEN "sections" ELSE "headings"
  /\ UNCHANGED <<call, next, offset, start, found, chunks>>

(* _heading_chunks *)

Current == sections[next]

\* The body that is encoded: stripped, except that of a text without headings.
BodyLo(s) == IF HeadingsIn(1, End) = {} THEN s.lo ELSE StripLo(s.lo, s.hi)
BodyHi(s) == IF HeadingsIn(1, End) = {} THEN s.hi ELSE StripHi(s.lo, s.hi)
\* Mutant of Fits: the overlap counts as room.
FitsWithOverlap(s) == BodyHi(s) - BodyLo(s) <= call.size + call.overlap
Fits(s) == BodyHi(s) - BodyLo(s) <= call.size

SkipBlank ==
  /\ pc = "sections" /\ next <= Len(sections)
  /\ VisibleIn(Current.lo, Current.hi) = {}
  /\ next' = next + 1
  /\ UNCHANGED <<call, pc, at, stack, sections, offset, start, found, chunks>>

WholeSection ==
  /\ pc = "sections" /\ next <= Len(sections)
  /\ VisibleIn(Current.lo, Current.hi) # {} /\ Fits(Current)
  /\ chunks' = Append(chunks, NewChunk(Len(chunks), Current, Current.lo, Current.hi,
                                       BodyHi(Current) - BodyLo(Current)))
  /\ next' = next + 1
  /\ UNCHANGED <<call, pc, at, stack, sections, offset, start, found>>

\* Mutant of LargeSection: start_index is 0 in every section.
LargeSectionFromZero ==
  /\ pc = "sections" /\ next <= Len(sections)
  /\ VisibleIn(Current.lo, Current.hi) # {} /\ ~Fits(Current)
  /\ pc' = "window"
  /\ offset' = BodyLo(Current)
  /\ start' = 0
  /\ found' = <<>>
  /\ UNCHANGED <<call, at, stack, sections, next, chunks>>

LargeSection ==
  /\ pc = "sections" /\ next <= Len(sections)
  /\ VisibleIn(Current.lo, Current.hi) # {} /\ ~Fits(Current)
  /\ pc' = "window"
  /\ offset' = BodyLo(Current)
  /\ start' = Len(chunks)
  /\ found' = <<>>
  /\ UNCHANGED <<call, at, stack, sections, next, chunks>>

SectionsDone ==
  /\ pc = "sections" /\ next > Len(sections)
  /\ pc' = "done"
  /\ UNCHANGED <<call, at, stack, sections, next, offset, start, found, chunks>>

(* _fixed_chunks *)

WindowEnd(s) == IF call.strategy = "heading" THEN BodyHi(s) ELSE s.hi
\* Mutant of Stride: windows side by side.
StrideWithoutOverlap == call.size
Stride == IF call.size - call.overlap > 1 THEN call.size - call.overlap ELSE 1

Window ==
  /\ pc = "window" /\ offset < WindowEnd(Current)
  /\ LET hi == IF offset + call.size < WindowEnd(Current)
               THEN offset + call.size ELSE WindowEnd(Current)
     IN found' = IF VisibleIn(offset, hi) = {} THEN found
                 ELSE Append(found, NewChunk(start + Len(found), Current, offset, hi,
                                             hi - offset))
  /\ offset' = offset + Stride
  /\ UNCHANGED <<call, pc, at, stack, sections, next, start, chunks>>

WindowsDone ==
  /\ pc = "window" /\ offset >= WindowEnd(Current)
  /\ pc' = "sections"
  /\ next' = next + 1
  /\ chunks' = chunks \o found
  /\ UNCHANGED <<call, at, stack, sections, offset, start, found>>

Next ==
  \/ SplitLeading \/ SplitHeading
  \/ SkipBlank \/ WholeSection \/ LargeSection \/ SectionsDone
  \/ Window \/ WindowsDone

Spec == Init /\ [][Next]_vars

-----------------------------------------------------------------------------
(* Properties. *)

Position == 0 .. Len(text)
ChunkType == [index : Nat, path : Seq(Position), lo : Position, hi : 1 .. End,
              tokens : 1 .. call.size, pageStart : Nat, pageEnd : Nat]

\* Every variable keeps its type; in particular no chunk, whole section or
\* window, is wider than chunk_size_tokens.
TypeOK ==
  /\ call \in [text : Texts, pages : PageMaps, strategy : Strategy,
               size : Nat \ {0}, overlap : Nat]
  /\ pc \in {"split", "headings", "sections", "window", "done"}
  /\ at \in 0 .. End
  /\ stack \in Seq(Position)
  /\ sections \in Seq([path : Seq(Position), lo : 1 .. End, hi : 1 .. End])
  /\ next \in 1 .. Len(sections) + 1
  /\ offset \in Nat
  /\ start \in Nat
  /\ found \in Seq(ChunkType)
  /\ chunks \in Seq(ChunkType)

\* Chunk indices count the chunks of the whole document in their order, across
\* sections taken whole and sections cut into windows: chunk_index is what a
\* citation and a reader's order of the document rest on.
IndicesConsecutive ==
  \A i \in 1 .. Len(chunks) : chunks[i].index = i - 1

Holds(c, p) == c.lo <= p /\ p < c.hi

\* The heading a position is under: 0 when it is before the first.
HeadingOf(p) ==
  IF HeadingsIn(1, p) = {} THEN 0
  ELSE CHOOSE h \in HeadingsIn(1, p) : \A g \in HeadingsIn(1, p) : g <= h

Under(c) == IF c.path = <<>> THEN 0 ELSE c.path[Len(c.path)]

\* What must be found again: all that is visible, except that headings are in
\* the paths when the document is cut at them.
Body == IF call.strategy = "fixed" THEN VisibleIn(1, End)
        ELSE VisibleIn(1, End) \ HeadingsIn(1, End)

\* Once the document is chunked, every word of it is in a chunk, and a chunk
\* cut at headings names the very heading its words stand under: no text is
\* lost between windows or sections, whatever the size and the overlap, and
\* none is cited under a neighbour's heading.
EveryWordCited ==
  pc = "done" =>
    \A p \in Body : \E i \in 1 .. Len(chunks) :
      /\ Holds(chunks[i], p)
      /\ call.strategy = "heading" => Under(chunks[i]) = HeadingOf(p)

\* Two words of one section no further apart than the overlap (and than a
\* window) are together in some chunk: that is what the overlap is for.
NeighboursTogether ==
  pc = "done" =>
    \A p, q \in Body :
      ( /\ p < q /\ q - p <= call.overlap /\ q - p < call.size
        /\ call.strategy = "heading" => HeadingOf(p) = HeadingOf(q) )
      => \E i \in 1 .. Len(chunks) : Holds(chunks[i], p) /\ Holds(chunks[i], q)

Gapless == call.pages # <<>> /\ \A p \in 1 .. Len(call.pages) : call.pages[p] # NoPage

\* When the spans of the extraction tile the text, the pages a chunk cites
\* include the page of each of its words.
PagesCover ==
  Gapless =>
    \A i \in 1 .. Len(chunks) : \A p \in chunks[i].lo .. chunks[i].hi - 1 :
      chunks[i].pageStart <= call.pages[p] /\ call.pages[p] <= chunks[i].pageEnd

\* The headings a heading is nested in: those before it with no heading of the
\* same or a higher rank in between, themselves of a higher rank.
Encloses(g, h) == g < h /\ \A k \in HeadingsIn(g + 1, h + 1) : text[g] < text[k]

\* A section's path is its heading and the headings that enclose it, as the
\* docstring of _split_by_heading says: "Preserves nesting".
NestingPreserved ==
  \A i \in 1 .. Len(sections) :
    LET path == sections[i].path
        h == path[Len(path)]
    IN path # <<>> => \A g \in HeadingsIn(1, h) :
         Encloses(g, h) <=> \E j \in 1 .. Len(path) : path[j] = g

\* The first heading is of level 1 and none is more than one level below the
\* heading before it.
NoLevelSkipped ==
  \A h \in HeadingsIn(1, End) :
    text[h] <= 1 + (IF HeadingOf(h) = 0 THEN 0 ELSE text[HeadingOf(h)])

\* Nesting is preserved in documents that skip no heading level.
NestingWhenUnskipped == NoLevelSkipped => NestingPreserved
=============================================================================
