---------------------------- MODULE ChunkingProofs ----------------------------
(***************************************************************************)
(* For any document, any settings and any page map: chunk_document loses   *)
(* no word, cites each under its own heading and pages, keeps neighbours   *)
(* together, stays within chunk_size_tokens, numbers its chunks and keeps  *)
(* the nesting of headings that skip no level.                             *)
(***************************************************************************)
EXTENDS Chunking, SequenceTheorems, WellFoundedInduction, TLAPS

-----------------------------------------------------------------------------
(* The least and the greatest of a set of numbers.                         *)

LEMMA Least ==
  ASSUME NEW T \in SUBSET Nat, T # {}
  PROVE  \E m \in T : \A n \in T : m <= n
<1>1. PICK m \in T : \A n \in T : <<n, m>> \notin OpToRel(<, Nat)
  BY WFMin, NatLessThanWellFounded
<1>2. \A n \in T : ~(n < m)
  BY <1>1 DEF OpToRel
<1> QED
  BY <1>2

LEMMA Greatest ==
  ASSUME NEW N \in Nat, NEW T \in SUBSET (0 .. N), T # {}
  PROVE  \E m \in T : \A n \in T : n <= m
<1> DEFINE Mirror == {n \in 0 .. N : N - n \in T}
<1>1. Mirror \in SUBSET Nat
  OBVIOUS
<1>2. Mirror # {}
  <2>1. PICK n \in T : TRUE
    OBVIOUS
  <2>2. N - n \in 0 .. N /\ N - (N - n) = n
    BY <2>1
  <2> QED
    BY <2>1, <2>2
<1>3. PICK m \in Mirror : \A n \in Mirror : m <= n
  BY <1>1, <1>2, Least
<1>4. ASSUME NEW n \in T PROVE n <= N - m
  <2>1. n \in 0 .. N /\ N - n \in 0 .. N /\ N - (N - n) = n
    OBVIOUS
  <2>2. m <= N - n
    BY <1>3, <2>1
  <2> QED
    BY <2>1, <2>2
<1> QED
  BY <1>3, <1>4

-----------------------------------------------------------------------------
(* The helpers of Chunking on one call.                                    *)

CallOK ==
  /\ call \in [text : Texts, pages : PageMaps, strategy : Strategy,
               size : Nat \ {0}, overlap : Nat]
  /\ Len(call.pages) \in {0, Len(text)}

LEMMA CallFacts ==
  ASSUME CallOK
  PROVE  /\ text \in Seq(Element) /\ Len(text) \in Nat /\ End \in Nat \ {0} /\ End = Len(text) + 1
         /\ call.pages \in Seq(Nat) /\ call.strategy \in Strategy
         /\ call.size \in Nat \ {0} /\ call.overlap \in Nat
<1>1. call.text \in Texts /\ call.pages \in PageMaps /\ call.strategy \in Strategy
      /\ call.size \in Nat \ {0} /\ call.overlap \in Nat
  BY DEF CallOK
<1>2. call.text \in Seq(Element) /\ call.pages \in Seq(Nat)
  BY <1>1, InputAssumption
<1> QED
  BY <1>1, <1>2 DEF text, End

\* The text between lo and the next heading has no heading in it.
LEMMA NextHeadingIs ==
  ASSUME CallOK, NEW lo \in 1 .. End
  PROVE  /\ NextHeading(lo) \in lo .. End
         /\ \A p \in lo .. NextHeading(lo) - 1 : text[p] \notin Level
         /\ NextHeading(lo) # End => NextHeading(lo) \in HeadingsIn(1, End)
<1>0. End \in Nat
  BY CallFacts
<1>1. CASE HeadingsIn(lo, End) = {}
  <2>1. NextHeading(lo) = End
    BY <1>1 DEF NextHeading
  <2>2. \A p \in lo .. End - 1 : text[p] \notin Level
    BY <1>1 DEF HeadingsIn
  <2> QED
    BY <1>0, <2>1, <2>2
<1>2. CASE HeadingsIn(lo, End) # {}
  <2>1. HeadingsIn(lo, End) \in SUBSET Nat
    BY <1>0 DEF HeadingsIn
  <2>2. \E m \in HeadingsIn(lo, End) : \A n \in HeadingsIn(lo, End) : m <= n
    BY <1>2, <2>1, Least
  <2>3. NextHeading(lo) \in HeadingsIn(lo, End)
        /\ \A n \in HeadingsIn(lo, End) : NextHeading(lo) <= n
    BY <1>2, <2>2 DEF NextHeading
  <2>4. NextHeading(lo) \in lo .. End - 1 /\ NextHeading(lo) \in HeadingsIn(1, End)
    BY <1>0, <2>3 DEF HeadingsIn
  <2>5. ASSUME NEW p \in lo .. NextHeading(lo) - 1 PROVE text[p] \notin Level
    BY <1>0, <2>3, <2>4 DEF HeadingsIn
  <2> QED
    BY <1>0, <2>4, <2>5
<1> QED
  BY <1>1, <1>2

\* HeadingOf is the last heading before p, or 0 when there is none.
LEMMA HeadingOfIs ==
  ASSUME CallOK, NEW p \in 1 .. End
  PROVE  /\ HeadingsIn(1, p) = {} => HeadingOf(p) = 0
         /\ HeadingsIn(1, p) # {} =>
              /\ HeadingOf(p) \in 1 .. p - 1 /\ text[HeadingOf(p)] \in Level
              /\ \A g \in 1 .. p - 1 : text[g] \in Level => g <= HeadingOf(p)
<1>0. p \in Nat /\ HeadingsIn(1, p) \in SUBSET (0 .. p)
  BY CallFacts DEF HeadingsIn
<1>1. CASE HeadingsIn(1, p) = {}
  BY <1>1 DEF HeadingOf
<1>2. CASE HeadingsIn(1, p) # {}
  <2>1. \E m \in HeadingsIn(1, p) : \A n \in HeadingsIn(1, p) : n <= m
    BY <1>0, <1>2, Greatest
  <2>2. HeadingOf(p) \in HeadingsIn(1, p) /\ \A n \in HeadingsIn(1, p) : n <= HeadingOf(p)
    BY <1>2, <2>1 DEF HeadingOf
  <2> QED
    BY <1>2, <2>2 DEF HeadingsIn
<1> QED
  BY <1>1, <1>2

\* strip() takes the ends of a range to its first and its last visible position.
LEMMA StripIs ==
  ASSUME CallOK, NEW lo \in Nat, NEW hi \in 0 .. End, VisibleIn(lo, hi) # {}
  PROVE  /\ StripLo(lo, hi) \in lo .. hi - 1
         /\ StripHi(lo, hi) \in StripLo(lo, hi) + 1 .. hi
         /\ \A p \in lo .. hi - 1 : text[p] # Blank => StripLo(lo, hi) <= p /\ p < StripHi(lo, hi)
<1>0. hi \in Nat /\ VisibleIn(lo, hi) \in SUBSET (0 .. hi) /\ VisibleIn(lo, hi) \in SUBSET Nat
  BY CallFacts DEF VisibleIn
<1>1. \E m \in VisibleIn(lo, hi) : \A n \in VisibleIn(lo, hi) : m <= n
  BY <1>0, Least
<1>2. \E m \in VisibleIn(lo, hi) : \A n \in VisibleIn(lo, hi) : n <= m
  BY <1>0, Greatest
<1>3. StripLo(lo, hi) \in VisibleIn(lo, hi) /\ \A n \in VisibleIn(lo, hi) : StripLo(lo, hi) <= n
  BY <1>1 DEF StripLo
<1>4. PICK m : /\ m \in VisibleIn(lo, hi) /\ \A n \in VisibleIn(lo, hi) : n <= m
               /\ StripHi(lo, hi) = m + 1
  BY <1>2 DEF StripHi
<1>5. StripLo(lo, hi) \in lo .. hi - 1 /\ m \in lo .. hi - 1 /\ StripLo(lo, hi) <= m
  BY <1>3, <1>4 DEF VisibleIn
<1>6. StripHi(lo, hi) \in StripLo(lo, hi) + 1 .. hi
  BY <1>0, <1>4, <1>5
<1>7. ASSUME NEW p \in lo .. hi - 1, text[p] # Blank
      PROVE  StripLo(lo, hi) <= p /\ p < StripHi(lo, hi)
  <2>1. p \in VisibleIn(lo, hi)
    BY <1>7 DEF VisibleIn
  <2>2. StripLo(lo, hi) <= p /\ p <= m
    BY <1>3, <1>4, <2>1
  <2> QED
    BY <1>0, <1>4, <1>5, <2>2
<1> QED
  BY <1>5, <1>6, <1>7

SectionType == [path : Seq(Position), lo : 1 .. End, hi : 1 .. End]

\* The body that is cut holds all of a section that is visible.
LEMMA BodyIs ==
  ASSUME CallOK, NEW s \in SectionType, VisibleIn(s.lo, s.hi) # {}
  PROVE  /\ BodyLo(s) \in s.lo .. s.hi - 1
         /\ BodyHi(s) \in BodyLo(s) + 1 .. s.hi
         /\ \A p \in s.lo .. s.hi - 1 : text[p] # Blank => BodyLo(s) <= p /\ p < BodyHi(s)
<1>1. s.lo \in 1 .. End /\ s.hi \in 1 .. End /\ End \in Nat
  BY CallFacts DEF SectionType
<1>2. CASE HeadingsIn(1, End) = {}
  <2>1. BodyLo(s) = s.lo /\ BodyHi(s) = s.hi
    BY <1>2 DEF BodyLo, BodyHi
  <2>2. PICK p : p \in VisibleIn(s.lo, s.hi)
    OBVIOUS
  <2>3. p \in s.lo .. s.hi - 1
    BY <2>2 DEF VisibleIn
  <2> QED
    BY <1>1, <2>1, <2>3
<1>3. CASE HeadingsIn(1, End) # {}
  <2>1. BodyLo(s) = StripLo(s.lo, s.hi) /\ BodyHi(s) = StripHi(s.lo, s.hi)
    BY <1>3 DEF BodyLo, BodyHi
  <2>2. s.lo \in Nat /\ s.hi \in 0 .. End
    BY <1>1
  <2> QED
    BY <2>1, <2>2, StripIs
<1> QED
  BY <1>2, <1>3

\* Windows are laid over all of a section that is visible.
LEMMA WindowEndIs ==
  ASSUME CallOK, NEW s \in SectionType,
         call.strategy = "heading" => VisibleIn(s.lo, s.hi) # {}
  PROVE  /\ WindowEnd(s) \in 1 .. End /\ WindowEnd(s) <= s.hi
         /\ \A p \in s.lo .. s.hi - 1 : text[p] # Blank => p < WindowEnd(s)
<1>1. s.lo \in 1 .. End /\ s.hi \in 1 .. End /\ End \in Nat
  BY CallFacts DEF SectionType
<1>2. CASE call.strategy = "heading"
  <2>1. WindowEnd(s) = BodyHi(s)
    BY <1>2 DEF WindowEnd
  <2> QED
    BY <1>1, <1>2, <2>1, BodyIs
<1>3. CASE call.strategy # "heading"
  BY <1>1, <1>3 DEF WindowEnd
<1> QED
  BY <1>2, <1>3

LEMMA NewChunkIs ==
  ASSUME CallOK, NEW i \in Nat, NEW s \in SectionType, NEW lo \in 1 .. End, NEW hi \in 1 .. End,
         VisibleIn(lo, hi) # {}, NEW n \in 1 .. call.size
  PROVE  NewChunk(i, s, lo, hi, n) \in ChunkType
<1>1. StripLo(lo, hi) \in lo .. hi - 1 /\ StripHi(lo, hi) \in StripLo(lo, hi) + 1 .. hi
  BY StripIs, CallFacts
<1>2. StripLo(lo, hi) \in Position /\ StripHi(lo, hi) \in 1 .. End
  BY <1>1, CallFacts DEF Position
<1>3. \A p : PageAt(p) \in Nat
  BY CallFacts DEF PageAt, NoPage
<1>4. PageStart(s.lo, s.hi) \in Nat /\ PageEnd(s.lo, s.hi) \in Nat
  BY <1>3 DEF PageStart, PageEnd
<1>5. s.path \in Seq(Position)
  BY DEF SectionType
<1> QED
  BY <1>2, <1>4, <1>5 DEF NewChunk, ChunkType

\* The arguments never change, and nothing that is defined by them.
LEMMA Still ==
  ASSUME call' = call
  PROVE  /\ text' = text /\ End' = End /\ CallOK' = CallOK
         /\ Position' = Position /\ SectionType' = SectionType /\ ChunkType' = ChunkType
         /\ \A lo, hi : HeadingsIn(lo, hi)' = HeadingsIn(lo, hi)
         /\ \A lo, hi : VisibleIn(lo, hi)' = VisibleIn(lo, hi)
<1>1. text' = text /\ End' = End /\ CallOK' = CallOK
  BY DEF text, End, CallOK
<1>2. Position' = Position /\ SectionType' = SectionType /\ ChunkType' = ChunkType
  BY <1>1 DEF Position, SectionType, ChunkType
<1> QED
  BY <1>1, <1>2 DEF HeadingsIn, VisibleIn

-----------------------------------------------------------------------------
(* Types, and where each loop can be.                                      *)

Loops ==
  /\ CallOK
  /\ offset >= 1
  /\ pc = "headings" => at \in HeadingsIn(1, End)
  /\ pc \in {"split", "headings"} => call.strategy = "heading" /\ next = 1
  /\ pc = "window" => /\ next <= Len(sections)
                      /\ call.strategy = "heading" => VisibleIn(Current.lo, Current.hi) # {}
  /\ pc = "done" => next > Len(sections)

TypesInv == TypeOK /\ Loops

LEMMA TypesInit == Init => TypesInv
<1> SUFFICES ASSUME Init PROVE TypesInv
  OBVIOUS
<1>1. PICK t \in Texts, g \in PageMaps, s \in Strategy, w \in Widths :
        /\ Len(g) \in {0, Len(t)}
        /\ call = [text |-> t, pages |-> g, strategy |-> s, size |-> w[1], overlap |-> w[2]]
  BY DEF Init
<1>2. w[1] \in Nat \ {0} /\ w[2] \in Nat
  BY InputAssumption
<1>3. CallOK
  BY <1>1, <1>2 DEF CallOK, text
<1>4. End \in Nat \ {0} /\ call.strategy \in {"heading", "fixed"}
  BY <1>3, CallFacts DEF Strategy
<1>5. <<>> \in Seq(Position) /\ <<>> \in Seq(ChunkType)
  OBVIOUS
<1>6. Section(<<>>, 1, End) \in SectionType
  BY <1>4, <1>5 DEF Section, SectionType
<1>7. sections \in Seq(SectionType)
  BY <1>6 DEF Init
<1>8. TypeOK
  BY <1>3, <1>4, <1>5, <1>7 DEF Init, TypeOK, CallOK, SectionType
<1>9. Loops
  BY <1>3, <1>4 DEF Init, Loops
<1> QED
  BY <1>8, <1>9 DEF TypesInv

\* Whatever the lists hold, appending to them gives lists of the same.
LEMMA TypesFacts ==
  ASSUME TypesInv
  PROVE  /\ CallOK /\ at \in 0 .. End /\ stack \in Seq(Position)
         /\ sections \in Seq(SectionType) /\ next \in 1 .. Len(sections) + 1 /\ Len(sections) \in Nat
         /\ offset \in Nat \ {0} /\ start \in Nat
         /\ found \in Seq(ChunkType) /\ chunks \in Seq(ChunkType)
         /\ Len(found) \in Nat /\ Len(chunks) \in Nat
         /\ next <= Len(sections) => Current \in SectionType
<1>1. CallOK /\ offset >= 1
  BY DEF TypesInv, Loops
<1>2. sections \in Seq(SectionType) /\ next \in 1 .. Len(sections) + 1
  BY DEF TypesInv, TypeOK, SectionType
<1>3. next <= Len(sections) => Current \in SectionType
  BY <1>2 DEF Current
<1>4. /\ at \in 0 .. End /\ stack \in Seq(Position) /\ offset \in Nat /\ start \in Nat
      /\ found \in Seq(ChunkType) /\ chunks \in Seq(ChunkType)
  BY DEF TypesInv, TypeOK
<1>5. Len(sections) \in Nat /\ Len(found) \in Nat /\ Len(chunks) \in Nat
  BY <1>2, <1>4, LenProperties
<1> QED
  BY <1>1, <1>2, <1>3, <1>4, <1>5

LEMMA SplitLeadingTypes == TypesInv /\ SplitLeading => TypesInv'
<1> SUFFICES ASSUME TypesInv, SplitLeading PROVE TypesInv'
  OBVIOUS
<1> DEFINE first == NextHeading(1)
<1>0. call' = call
  BY DEF SplitLeading
<1>1. CallOK /\ End \in Nat \ {0}
  BY TypesFacts, CallFacts
<1>2. first \in 1 .. End /\ (first # End => first \in HeadingsIn(1, End))
  BY <1>1, NextHeadingIs
<1>3. Section(<<>>, 1, first) \in SectionType
  BY <1>1, <1>2 DEF Section, SectionType
<1>4. sections' \in {<<>>, <<Section(<<>>, 1, first)>>} /\ at' = first
  BY DEF SplitLeading
<1>5. sections' \in Seq(SectionType) /\ Len(sections') \in Nat
  <2>1. <<>> \in Seq(SectionType) /\ <<Section(<<>>, 1, first)>> \in Seq(SectionType)
    BY <1>3
  <2>2. sections' \in Seq(SectionType)
    BY <1>4, <2>1
  <2> QED
    BY <2>2, LenProperties
<1>6. next' = 1 /\ call.strategy = "heading"
  BY DEF SplitLeading, TypesInv, Loops
<1>7. pc' = IF first = End THEN "sections" ELSE "headings"
  BY DEF SplitLeading
<1>8. TypeOK'
  <2>1. next' \in 1 .. Len(sections') + 1
    BY <1>5, <1>6
  <2> QED
    BY <1>0, <1>2, <1>4, <1>5, <1>7, <2>1, Still DEF TypesInv, TypeOK, SplitLeading, SectionType
<1>9. Loops'
  BY <1>0, <1>1, <1>2, <1>4, <1>6, <1>7, Still DEF TypesInv, Loops, SplitLeading
<1> QED
  BY <1>8, <1>9 DEF TypesInv

\* Push keeps this much of the stack and puts the heading on top.
Kept(s, level) == IF level - 1 < Len(s) THEN level - 1 ELSE Len(s)

LEMMA KeptIs ==
  ASSUME NEW S, NEW s \in Seq(S), NEW level \in Nat \ {0}
  PROVE  /\ Kept(s, level) \in Nat /\ Kept(s, level) <= Len(s)
         /\ SubSeq(s, 1, Kept(s, level)) \in Seq(S)
         /\ Len(SubSeq(s, 1, Kept(s, level))) = Kept(s, level)
         /\ \A j \in 1 .. Kept(s, level) : SubSeq(s, 1, Kept(s, level))[j] = s[j]
<1> DEFINE k == Kept(s, level)
<1>1. k \in Nat /\ k <= Len(s) /\ \A i \in 1 .. k : s[i] \in S
  BY LenProperties, ElementOfSeq DEF Kept
<1> HIDE DEF k
<1>2. /\ SubSeq(s, 1, k) \in Seq(S) /\ Len(SubSeq(s, 1, k)) = IF 1 <= k THEN k - 1 + 1 ELSE 0
      /\ \A i \in 1 .. k - 1 + 1 : SubSeq(s, 1, k)[i] = s[1 + i - 1]
  BY <1>1, SubSeqProperties
<1>3. /\ SubSeq(s, 1, k) \in Seq(S) /\ Len(SubSeq(s, 1, k)) = k
      /\ \A j \in 1 .. k : SubSeq(s, 1, k)[j] = s[j]
  BY <1>1, <1>2
<1> QED
  BY <1>1, <1>3 DEF k

LEMMA PushIs ==
  ASSUME NEW S, NEW s \in Seq(S), NEW level \in Nat \ {0}, NEW p \in S
  PROVE  Push(s, level, p) \in Seq(S)
<1> DEFINE base == SubSeq(s, 1, Kept(s, level))
<1>1. base \in Seq(S)
  BY KeptIs
<1>2. Push(s, level, p) = Append(base, p)
  BY DEF Push, Kept
<1> HIDE DEF base
<1> QED
  BY <1>1, <1>2, AppendProperties

LEMMA PushTop ==
  ASSUME NEW S, NEW s \in Seq(S), NEW level \in Nat \ {0}, NEW p \in S
  PROVE  Push(s, level, p)[Len(Push(s, level, p))] = p
<1> DEFINE base == SubSeq(s, 1, Kept(s, level))
<1>1. base \in Seq(S)
  BY KeptIs
<1>2. Push(s, level, p) = Append(base, p)
  BY DEF Push, Kept
<1> HIDE DEF base
<1> QED
  BY <1>1, <1>2, AppendProperties

LEMMA PushLen ==
  ASSUME NEW S, NEW s \in Seq(S), NEW level \in Nat \ {0}, NEW p \in S
  PROVE  Len(Push(s, level, p)) = Kept(s, level) + 1
<1> DEFINE base == SubSeq(s, 1, Kept(s, level))
<1>1. base \in Seq(S) /\ Len(base) = Kept(s, level)
  BY KeptIs
<1>2. Push(s, level, p) = Append(base, p)
  BY DEF Push, Kept
<1> HIDE DEF base
<1> QED
  BY <1>1, <1>2, AppendProperties

LEMMA PushKeeps ==
  ASSUME NEW S, NEW s \in Seq(S), NEW level \in Nat \ {0}, NEW p \in S,
         NEW j \in 1 .. Kept(s, level)
  PROVE  Push(s, level, p)[j] = s[j]
<1> DEFINE base == SubSeq(s, 1, Kept(s, level))
<1>1. base \in Seq(S) /\ j \in 1 .. Len(base) /\ base[j] = s[j]
  BY KeptIs
<1>2. Push(s, level, p) = Append(base, p)
  BY DEF Push, Kept
<1> HIDE DEF base
<1> QED
  BY <1>1, <1>2, AppendProperties

LEMMA SplitHeadingTypes == TypesInv /\ SplitHeading => TypesInv'
<1> SUFFICES ASSUME TypesInv, SplitHeading PROVE TypesInv'
  OBVIOUS
<1> DEFINE end == NextHeading(at + 1)
<1>0. call' = call /\ next' = 1 /\ call.strategy = "heading"
  BY DEF SplitHeading, TypesInv, Loops
<1>1. CallOK /\ End \in Nat \ {0} /\ sections \in Seq(SectionType) /\ stack \in Seq(Position)
  BY TypesFacts, CallFacts
<1>2. at \in HeadingsIn(1, End)
  BY DEF SplitHeading, TypesInv, Loops
<1>3. at \in 1 .. End - 1 /\ text[at] \in Level
  BY <1>2 DEF HeadingsIn
<1>4. at \in Position /\ at + 1 \in 1 .. End /\ text[at] \in Nat \ {0}
  BY <1>1, <1>3, CallFacts DEF Position, Level
<1>5. end \in 1 .. End /\ (end # End => end \in HeadingsIn(1, End))
  BY <1>1, <1>4, NextHeadingIs
<1>6. stack' \in Seq(Position)
  BY <1>1, <1>4, PushIs DEF SplitHeading
<1>7. Section(stack', at + 1, end) \in SectionType
  BY <1>4, <1>5, <1>6 DEF Section, SectionType
<1>8. sections' = Append(sections, Section(stack', at + 1, end)) /\ at' = end
      /\ pc' = IF end = End THEN "sections" ELSE "headings"
  BY DEF SplitHeading
<1>9. sections' \in Seq(SectionType) /\ Len(sections') \in Nat
  BY <1>1, <1>7, <1>8, AppendProperties, LenProperties
<1>10. TypeOK'
  <2>1. next' \in 1 .. Len(sections') + 1
    BY <1>0, <1>9
  <2> QED
    BY <1>0, <1>5, <1>6, <1>8, <1>9, <2>1, Still DEF TypesInv, TypeOK, SplitHeading, SectionType
<1>11. Loops'
  BY <1>0, <1>1, <1>5, <1>8, Still DEF TypesInv, Loops, SplitHeading
<1> QED
  BY <1>10, <1>11 DEF TypesInv

LEMMA SkipBlankTypes == TypesInv /\ SkipBlank => TypesInv'
<1> SUFFICES ASSUME TypesInv, SkipBlank PROVE TypesInv'
  OBVIOUS
<1>1. next' \in 1 .. Len(sections) + 1
  BY TypesFacts DEF SkipBlank
<1> QED
  BY <1>1, Still DEF TypesInv, TypeOK, Loops, SkipBlank

LEMMA WholeSectionTypes == TypesInv /\ WholeSection => TypesInv'
<1> SUFFICES ASSUME TypesInv, WholeSection PROVE TypesInv'
  OBVIOUS
<1> DEFINE n == BodyHi(Current) - BodyLo(Current)
           new == NewChunk(Len(chunks), Current, Current.lo, Current.hi, n)
<1>1. /\ CallOK /\ Current \in SectionType /\ VisibleIn(Current.lo, Current.hi) # {}
      /\ chunks \in Seq(ChunkType) /\ Len(chunks) \in Nat /\ next' \in 1 .. Len(sections) + 1
  BY TypesFacts DEF WholeSection
<1>2. Current.lo \in 1 .. End /\ Current.hi \in 1 .. End
  BY <1>1 DEF SectionType
<1>3. n \in 1 .. call.size
  <2>1. n <= call.size
    BY DEF WholeSection, Fits
  <2>2. End \in Nat /\ call.size \in Nat
    BY <1>1, CallFacts
  <2>3. BodyLo(Current) \in Current.lo .. Current.hi - 1
        /\ BodyHi(Current) \in BodyLo(Current) + 1 .. Current.hi
    BY <1>1, BodyIs
  <2> QED
    BY <1>2, <2>1, <2>2, <2>3
<1>4. new \in ChunkType
  BY <1>1, <1>2, <1>3, NewChunkIs
<1>5. chunks' \in Seq(ChunkType)
  BY <1>1, <1>4, AppendProperties DEF WholeSection
<1> QED
  BY <1>1, <1>5, Still DEF TypesInv, TypeOK, Loops, WholeSection

LEMMA LargeSectionTypes == TypesInv /\ LargeSection => TypesInv'
<1> SUFFICES ASSUME TypesInv, LargeSection PROVE TypesInv'
  OBVIOUS
<1>1. /\ CallOK /\ Current \in SectionType /\ VisibleIn(Current.lo, Current.hi) # {}
      /\ Len(chunks) \in Nat
  BY TypesFacts DEF LargeSection
<1>2. Current.lo \in 1 .. End
  BY <1>1 DEF SectionType
<1>3. offset' \in Nat /\ offset' >= 1
  <2>1. BodyLo(Current) \in Current.lo .. Current.hi - 1 /\ offset' = BodyLo(Current)
    BY <1>1, BodyIs DEF LargeSection
  <2> QED
    BY <1>2, <2>1
<1>4. Current' = Current
  BY DEF LargeSection, Current
<1>5. found' \in Seq(ChunkType)
  BY DEF LargeSection
<1>6. TypeOK'
  BY <1>1, <1>3, <1>5, Still DEF TypesInv, TypeOK, LargeSection
<1>7. Loops'
  BY <1>1, <1>3, <1>4, Still DEF TypesInv, Loops, LargeSection
<1> QED
  BY <1>6, <1>7 DEF TypesInv

LEMMA SectionsDoneTypes == TypesInv /\ SectionsDone => TypesInv'
  BY Still DEF TypesInv, TypeOK, Loops, SectionsDone

\* A window lies within the section and is no wider than chunk_size_tokens.
LEMMA WindowIs ==
  ASSUME TypesInv, Window
  PROVE  LET hi == IF offset + call.size < WindowEnd(Current)
                   THEN offset + call.size ELSE WindowEnd(Current) IN
         /\ Current \in SectionType
         /\ offset \in 1 .. End /\ hi \in offset + 1 .. End
         /\ hi - offset \in 1 .. call.size
         /\ hi <= Current.hi
<1>1. /\ CallOK /\ Current \in SectionType /\ offset \in Nat \ {0}
      /\ call.strategy = "heading" => VisibleIn(Current.lo, Current.hi) # {}
  BY TypesFacts DEF Window, TypesInv, Loops
<1>2. WindowEnd(Current) \in 1 .. End /\ WindowEnd(Current) <= Current.hi
  BY <1>1, WindowEndIs
<1>3. End \in Nat /\ call.size \in Nat \ {0} /\ Current.hi \in Nat
  BY <1>1, CallFacts DEF SectionType
<1>4. offset < WindowEnd(Current)
  BY DEF Window
<1> QED
  BY <1>1, <1>2, <1>3, <1>4

LEMMA WindowTypes == TypesInv /\ Window => TypesInv'
<1> SUFFICES ASSUME TypesInv, Window PROVE TypesInv'
  OBVIOUS
<1> DEFINE hi == IF offset + call.size < WindowEnd(Current)
                 THEN offset + call.size ELSE WindowEnd(Current)
           new == NewChunk(start + Len(found), Current, offset, hi, hi - offset)
<1>1. /\ CallOK /\ found \in Seq(ChunkType) /\ start + Len(found) \in Nat /\ offset \in Nat \ {0}
  BY TypesFacts
<1>2. /\ Current \in SectionType /\ offset \in 1 .. End /\ hi \in offset + 1 .. End
      /\ hi - offset \in 1 .. call.size
  BY WindowIs
<1>3. hi \in 1 .. End
  BY <1>2
<1>4. found' = IF VisibleIn(offset, hi) = {} THEN found ELSE Append(found, new)
  BY DEF Window
<1>5. found' \in Seq(ChunkType)
  <2>1. CASE VisibleIn(offset, hi) = {}
    BY <1>1, <1>4, <2>1
  <2>2. CASE VisibleIn(offset, hi) # {}
    <3>1. new \in ChunkType
      <4> HIDE DEF hi
      <4> QED
        BY <1>1, <1>2, <1>3, <2>2, NewChunkIs
    <3> QED
      BY <1>1, <1>4, <2>2, <3>1, AppendProperties
  <2> QED
    BY <2>1, <2>2
<1>6. offset' \in Nat /\ offset' >= 1
  BY <1>1, CallFacts DEF Window, Stride
<1>7. Current' = Current
  BY DEF Window, Current
<1>8. TypeOK'
  BY <1>5, <1>6, Still DEF TypesInv, TypeOK, Window
<1>9. Loops'
  BY <1>6, <1>7, Still DEF TypesInv, Loops, Window
<1> QED
  BY <1>8, <1>9 DEF TypesInv

LEMMA WindowsDoneTypes == TypesInv /\ WindowsDone => TypesInv'
<1> SUFFICES ASSUME TypesInv, WindowsDone PROVE TypesInv'
  OBVIOUS
<1>1. chunks' \in Seq(ChunkType)
  BY TypesFacts, ConcatProperties DEF WindowsDone
<1>2. next' \in 1 .. Len(sections) + 1
  BY TypesFacts DEF WindowsDone, TypesInv, Loops
<1> QED
  BY <1>1, <1>2, Still DEF TypesInv, TypeOK, Loops, WindowsDone

LEMMA TypesStep == TypesInv /\ [Next]_vars => TypesInv'
<1>1. TypesInv /\ UNCHANGED vars => TypesInv'
  BY Still DEF vars, TypesInv, TypeOK, Loops, Current
<1> QED
  BY <1>1, SplitLeadingTypes, SplitHeadingTypes, SkipBlankTypes, WholeSectionTypes,
     LargeSectionTypes, SectionsDoneTypes, WindowTypes, WindowsDoneTypes DEF Next

\* For any documents and settings, every variable keeps its type; in particular
\* no chunk is wider than chunk_size_tokens.
THEOREM ChunksFit == Spec => []TypeOK
<1>1. TypesInv => TypeOK
  BY DEF TypesInv
<1> QED
  BY <1>1, TypesInit, TypesStep, PTL DEF Spec

-----------------------------------------------------------------------------
(* The sections: each holds just the words under its heading.              *)

\* What tells the sections apart: the heading, unless the document is not cut at
\* headings.
Key(p) == IF call.strategy = "fixed" THEN 0 ELSE HeadingOf(p)

InSection(p, s) == s.lo <= p /\ p < s.hi

SectionOK(s) == \A p \in Body : Key(p) = Under(s) <=> InSection(p, s)

\* The sections so far hold every word before limit.
Reaches(limit) ==
  \A p \in Body : p < limit => \E i \in 1 .. Len(sections) : InSection(p, sections[i])

SectionsInv ==
  /\ \A i \in 1 .. Len(sections) : SectionOK(sections[i])
  /\ pc = "headings" => Reaches(at)
  /\ pc \in {"sections", "window", "done"} => Reaches(End)

LEMMA BodyFacts ==
  ASSUME CallOK, NEW p \in Body
  PROVE  /\ p \in 1 .. End - 1 /\ p \in 1 .. End /\ p \in Nat /\ text[p] # Blank
         /\ call.strategy = "heading" => text[p] \notin Level /\ Key(p) = HeadingOf(p)
<1>1. End \in Nat
  BY CallFacts
<1>2. p \in VisibleIn(1, End) /\ (call.strategy = "heading" => p \notin HeadingsIn(1, End))
  BY DEF Body
<1>3. p \in 1 .. End - 1 /\ text[p] # Blank
  BY <1>2 DEF VisibleIn
<1>4. call.strategy = "heading" => text[p] \notin Level
  BY <1>2, <1>3 DEF HeadingsIn
<1> QED
  BY <1>1, <1>3, <1>4 DEF Key

LEMMA StillBody ==
  ASSUME call' = call
  PROVE  Body' = Body /\ (\A p : Key(p)' = Key(p)) /\ (\A s : SectionOK(s)' = SectionOK(s))
<1>1. Body' = Body /\ (\A p : Key(p)' = Key(p))
  BY DEF HeadingOf, HeadingsIn, text, VisibleIn, Body, End, Key
<1> QED
  BY <1>1 DEF SectionOK

\* The words before the first heading are under none.
LEMMA LeadingSection ==
  ASSUME CallOK, call.strategy = "heading"
  PROVE  SectionOK(Section(<<>>, 1, NextHeading(1)))
<1> DEFINE first == NextHeading(1)
           s == Section(<<>>, 1, first)
<1>1. End \in Nat \ {0} /\ first \in 1 .. End
      /\ (\A p \in 1 .. first - 1 : text[p] \notin Level)
      /\ (first # End => first \in HeadingsIn(1, End))
  BY CallFacts, NextHeadingIs
<1>2. Under(s) = 0 /\ s.lo = 1 /\ s.hi = first
  BY DEF Under, Section
<1> SUFFICES ASSUME NEW p \in Body PROVE Key(p) = 0 <=> (1 <= p /\ p < first)
  BY <1>2 DEF SectionOK, InSection
<1>3. p \in 1 .. End - 1 /\ p \in 1 .. End /\ p \in Nat /\ text[p] \notin Level /\ Key(p) = HeadingOf(p)
  BY BodyFacts
<1> HIDE DEF first
<1>4. ASSUME Key(p) = 0 PROVE p < first
  <2>1. HeadingsIn(1, p) = {}
    <3>1. HeadingsIn(1, p) # {} => HeadingOf(p) \in 1 .. p - 1
      BY <1>3, HeadingOfIs
    <3> QED
      BY <1>3, <1>4, <3>1
  <2> SUFFICES ASSUME first <= p PROVE FALSE
    BY <1>1, <1>3
  <2>2. first # End /\ text[first] \in Level
    BY <1>1, <1>3 DEF HeadingsIn
  <2>3. first # p
    BY <1>3, <2>2
  <2>4. first \in HeadingsIn(1, p)
    BY <1>1, <1>3, <2>2, <2>3 DEF HeadingsIn
  <2> QED
    BY <2>1, <2>4
<1>5. ASSUME p < first PROVE Key(p) = 0
  <2>1. HeadingsIn(1, p) = {}
    BY <1>1, <1>3, <1>5 DEF HeadingsIn
  <2> QED
    BY <1>3, <2>1, HeadingOfIs
<1> QED
  BY <1>3, <1>4, <1>5

\* The words up to the next heading are under this one.
LEMMA HeadingSection ==
  ASSUME CallOK, call.strategy = "heading", NEW h \in HeadingsIn(1, End),
         NEW s \in SectionType, Under(s) = h, s.lo = h + 1, s.hi = NextHeading(h + 1)
  PROVE  SectionOK(s)
<1> DEFINE end == NextHeading(h + 1)
<1>1. End \in Nat \ {0} /\ h \in 1 .. End - 1 /\ text[h] \in Level
  BY CallFacts DEF HeadingsIn
<1>2. h + 1 \in 1 .. End
  BY <1>1
<1>3. end \in h + 1 .. End /\ (\A p \in h + 1 .. end - 1 : text[p] \notin Level)
      /\ (end # End => end \in HeadingsIn(1, End))
  BY <1>2, NextHeadingIs
<1> SUFFICES ASSUME NEW p \in Body PROVE Key(p) = h <=> (h + 1 <= p /\ p < end)
  BY DEF SectionOK, InSection
<1>4. p \in 1 .. End - 1 /\ p \in 1 .. End /\ p \in Nat /\ text[p] \notin Level /\ Key(p) = HeadingOf(p)
  BY BodyFacts
<1>5. \/ HeadingsIn(1, p) = {} /\ HeadingOf(p) = 0
      \/ /\ HeadingsIn(1, p) # {} /\ HeadingOf(p) \in 1 .. p - 1 /\ text[HeadingOf(p)] \in Level
         /\ \A g \in 1 .. p - 1 : text[g] \in Level => g <= HeadingOf(p)
  BY <1>4, HeadingOfIs
<1> HIDE DEF end
<1>6. ASSUME Key(p) = h PROVE h + 1 <= p /\ p < end
  <2>1. h \in 1 .. p - 1 /\ \A g \in 1 .. p - 1 : text[g] \in Level => g <= h
    BY <1>1, <1>4, <1>5, <1>6
  <2> SUFFICES ASSUME end <= p PROVE FALSE
    BY <1>1, <1>3, <1>4, <2>1
  <2>2. end # End /\ text[end] \in Level
    BY <1>3, <1>4 DEF HeadingsIn
  <2>3. end # p
    BY <1>4, <2>2
  <2>4. end \in 1 .. p - 1
    BY <1>1, <1>3, <1>4, <2>3
  <2> QED
    BY <1>1, <1>3, <2>1, <2>2, <2>4
<1>7. ASSUME h + 1 <= p, p < end PROVE Key(p) = h
  <2>1. h \in 1 .. p - 1
    BY <1>1, <1>4, <1>7
  <2>2. h \in HeadingsIn(1, p)
    BY <1>1, <2>1 DEF HeadingsIn
  <2>3. /\ HeadingOf(p) \in 1 .. p - 1 /\ text[HeadingOf(p)] \in Level /\ h <= HeadingOf(p)
    BY <1>1, <1>5, <2>1, <2>2
  <2>4. HeadingOf(p) \notin h + 1 .. end - 1
    BY <1>3, <2>3
  <2>5. HeadingOf(p) = h
    BY <1>1, <1>3, <1>4, <1>7, <2>3, <2>4
  <2> QED
    BY <1>4, <2>5
<1> QED
  BY <1>6, <1>7

LEMMA SectionsInit == Init => SectionsInv
<1> SUFFICES ASSUME Init PROVE SectionsInv
  OBVIOUS
<1>1. CallOK /\ call.strategy \in {"heading", "fixed"}
  BY TypesInit, CallFacts DEF TypesInv, Loops, Strategy
<1>2. CASE call.strategy = "heading"
  BY <1>2 DEF Init, SectionsInv
<1>3. CASE call.strategy = "fixed"
  <2>1. sections = <<Section(<<>>, 1, End)>> /\ pc = "window"
    BY <1>3 DEF Init
  <2>2. Section(<<>>, 1, End).lo = 1 /\ Section(<<>>, 1, End).hi = End /\ Under(Section(<<>>, 1, End)) = 0
    BY DEF Section, Under
  <2>3. ASSUME NEW p \in Body PROVE Key(p) = 0 /\ InSection(p, Section(<<>>, 1, End))
    <3>1. p \in 1 .. End - 1 /\ End \in Nat
      BY <1>1, BodyFacts, CallFacts
    <3> QED
      BY <1>3, <2>2, <3>1 DEF Key, InSection
  <2>4. SectionOK(Section(<<>>, 1, End))
    BY <2>2, <2>3 DEF SectionOK
  <2>5. Len(sections) = 1 /\ sections[1] = Section(<<>>, 1, End)
    BY <2>1
  <2>6. Reaches(End)
    BY <2>3, <2>5 DEF Reaches
  <2> QED
    BY <2>1, <2>4, <2>5, <2>6 DEF SectionsInv
<1> QED
  BY <1>1, <1>2, <1>3

LEMMA SplitLeadingSections == TypesInv /\ SplitLeading => SectionsInv'
<1> SUFFICES ASSUME TypesInv, SplitLeading PROVE SectionsInv'
  OBVIOUS
<1> DEFINE first == NextHeading(1)
           s == Section(<<>>, 1, first)
<1>0. call' = call /\ call.strategy = "heading" /\ CallOK
  BY DEF SplitLeading, TypesInv, Loops
<1>1. SectionOK(s) /\ s.lo = 1 /\ s.hi = first
  BY <1>0, LeadingSection DEF Section
<1>2. sections' = IF first = End \/ VisibleIn(1, first) # {} THEN <<s>> ELSE <<>>
  BY DEF SplitLeading
<1>3. at' = first /\ pc' = IF first = End THEN "sections" ELSE "headings"
  BY DEF SplitLeading
<1>4. first \in Nat /\ End \in Nat
  BY <1>0, CallFacts, NextHeadingIs
<1> HIDE DEF s
<1>5. \A i \in 1 .. Len(sections') : SectionOK(sections[i])'
  <2>1. ASSUME NEW i \in 1 .. Len(sections') PROVE sections'[i] = s
    BY <1>2
  <2> QED
    BY <1>0, <1>1, <2>1, StillBody
<1>6. ASSUME NEW p \in Body, p < first PROVE \E i \in 1 .. Len(sections') : InSection(p, sections'[i])
  <2>1. p \in 1 .. first - 1 /\ text[p] # Blank
    BY <1>0, <1>4, <1>6, BodyFacts
  <2>2. VisibleIn(1, first) # {}
    BY <2>1 DEF VisibleIn
  <2>3. Len(sections') = 1 /\ sections'[1] = s
    BY <1>2, <2>2
  <2>4. InSection(p, s)
    BY <1>1, <1>4, <2>1 DEF InSection
  <2>5. 1 \in 1 .. Len(sections') /\ InSection(p, sections'[1])
    BY <2>3, <2>4
  <2> QED
    BY <2>5
<1>7. Reaches(at)'
  BY <1>0, <1>3, <1>6, StillBody DEF Reaches, InSection
<1> QED
  BY <1>0, <1>3, <1>5, <1>7, Still DEF SectionsInv, Reaches

LEMMA SplitHeadingSections == TypesInv /\ SectionsInv /\ SplitHeading => SectionsInv'
<1> SUFFICES ASSUME TypesInv, SectionsInv, SplitHeading PROVE SectionsInv'
  OBVIOUS
<1> DEFINE end == NextHeading(at + 1)
           new == Section(stack', at + 1, end)
<1>0. call' = call /\ call.strategy = "heading" /\ CallOK /\ sections \in Seq(SectionType)
  BY TypesFacts DEF SplitHeading, TypesInv, Loops
<1>1. at \in HeadingsIn(1, End)
  BY DEF SplitHeading, TypesInv, Loops
<1>2. at \in 1 .. End - 1 /\ text[at] \in Nat \ {0} /\ at \in Position /\ End \in Nat
  BY <1>0, <1>1, CallFacts DEF HeadingsIn, Level, Position
<1>3. end \in at + 1 .. End
  BY <1>0, <1>2, NextHeadingIs
<1>4. stack' \in Seq(Position) /\ stack' # <<>> /\ stack'[Len(stack')] = at
  <2>1. stack \in Seq(Position) /\ text[at] \in Nat \ {0} /\ at \in Position
    BY <1>2, TypesFacts
  <2>2. stack' = Push(stack, text[at], at)
    BY DEF SplitHeading
  <2>3. stack' \in Seq(Position)
    BY <2>1, <2>2, PushIs
  <2>4. stack'[Len(stack')] = at
    BY <2>1, <2>2, PushTop
  <2>5. Len(stack') = Kept(stack, text[at]) + 1
    BY <2>1, <2>2, PushLen
  <2>6. Kept(stack, text[at]) \in Nat
    BY <2>1, KeptIs
  <2>7. Len(stack') # 0
    BY <2>5, <2>6
  <2> QED
    BY <2>3, <2>7, <2>4
<1>5. new \in SectionType /\ new.lo = at + 1 /\ new.hi = end /\ Under(new) = at
  BY <1>2, <1>3, <1>4 DEF Section, SectionType, Under
<1>6. SectionOK(new)
  BY <1>0, <1>1, <1>5, HeadingSection
<1>7. sections' = Append(sections, new) /\ at' = end /\ pc' = IF end = End THEN "sections" ELSE "headings"
  BY DEF SplitHeading
<1> HIDE DEF new
<1>8. /\ Len(sections') = Len(sections) + 1 /\ Len(sections) \in Nat
      /\ \A i \in 1 .. Len(sections) : sections'[i] = sections[i]
      /\ sections'[Len(sections) + 1] = new
  BY <1>0, <1>5, <1>7, AppendProperties, LenProperties
<1>9. ASSUME NEW i \in 1 .. Len(sections') PROVE SectionOK(sections[i])'
  <2>1. CASE i \in 1 .. Len(sections)
    <3>1. SectionOK(sections[i]) /\ sections'[i] = sections[i]
      BY <1>8, <2>1 DEF SectionsInv
    <3> QED
      BY <1>0, <3>1, StillBody
  <2>2. CASE i = Len(sections) + 1
    BY <1>0, <1>6, <1>8, <2>2, StillBody
  <2> QED
    BY <1>8, <2>1, <2>2
<1>10. ASSUME NEW p \in Body, p < end PROVE \E i \in 1 .. Len(sections') : InSection(p, sections'[i])
  <2>1. p \in Nat /\ p # at
    <3>1. text[p] \notin Level /\ p \in Nat
      BY <1>0, BodyFacts
    <3> QED
      BY <1>1, <3>1 DEF HeadingsIn
  <2>2. CASE p < at
    <3>1. PICK i \in 1 .. Len(sections) : InSection(p, sections[i])
      BY <2>2 DEF SectionsInv, Reaches, SplitHeading
    <3> QED
      BY <1>8, <3>1
  <2>3. CASE at < p
    <3>1. InSection(p, new)
      BY <1>2, <1>5, <1>10, <2>1, <2>3 DEF InSection
    <3> QED
      BY <1>8, <3>1
  <2> QED
    BY <1>2, <2>1, <2>2, <2>3
<1>11. Reaches(at)'
  BY <1>0, <1>7, <1>10, StillBody DEF Reaches, InSection
<1> QED
  BY <1>0, <1>7, <1>9, <1>11, Still DEF SectionsInv, Reaches

LEMMA SectionsStep == TypesInv /\ SectionsInv /\ [Next]_vars => SectionsInv'
<1> SUFFICES ASSUME TypesInv, SectionsInv, [Next]_vars PROVE SectionsInv'
  OBVIOUS
<1>1. CASE SplitLeading
  BY <1>1, SplitLeadingSections
<1>2. CASE SplitHeading
  BY <1>2, SplitHeadingSections
<1>3. CASE SkipBlank \/ WholeSection \/ LargeSection \/ SectionsDone \/ Window \/ WindowsDone
  <2>1. /\ call' = call /\ sections' = sections /\ pc \in {"sections", "window"}
        /\ pc' \in {"sections", "window", "done"}
    BY <1>3 DEF SkipBlank, WholeSection, LargeSection, SectionsDone, Window, WindowsDone
  <2> QED
    BY <2>1, Still, StillBody DEF SectionsInv, Reaches, InSection
<1>4. CASE UNCHANGED vars
  <2>1. call' = call /\ sections' = sections /\ pc' = pc /\ at' = at
    BY <1>4 DEF vars
  <2> QED
    BY <2>1, Still, StillBody DEF SectionsInv, Reaches, InSection
<1> QED
  BY <1>1, <1>2, <1>3, <1>4 DEF Next

-----------------------------------------------------------------------------
(* The chunks: words that are close to each other are in one of them.      *)

Close(p, q) ==
  /\ p \in Body /\ q \in Body /\ p <= q
  /\ q - p <= call.overlap /\ q - p < call.size
  /\ Key(p) = Key(q)

Together(list, p, q) ==
  \E i \in 1 .. Len(list) : Holds(list[i], p) /\ Holds(list[i], q) /\ Under(list[i]) = Key(p)

\* Every section gone through is in the result, and the section that is being cut
\* is in found up to the next window.
ChunksInv ==
  /\ \A j \in 1 .. next - 1 : \A p, q :
       Close(p, q) /\ InSection(p, sections[j]) => Together(chunks, p, q)
  /\ pc = "window" => \A p, q :
       Close(p, q) /\ InSection(p, Current) /\ p < offset => Together(found, p, q)

LEMMA StillClose ==
  ASSUME call' = call
  PROVE  /\ \A p, q : Close(p, q)' = Close(p, q)
         /\ \A list, p, q : Together(list, p, q)' = Together(list, p, q)
  BY StillBody DEF Close, Together, Holds, Under

LEMMA AppendKeeps ==
  ASSUME NEW S, NEW list \in Seq(S), NEW new \in S, NEW p, NEW q, Together(list, p, q)
  PROVE  Together(Append(list, new), p, q)
<1>1. PICK i \in 1 .. Len(list) : Holds(list[i], p) /\ Holds(list[i], q) /\ Under(list[i]) = Key(p)
  BY DEF Together
<1>2. Append(list, new)[i] = list[i] /\ i \in 1 .. Len(Append(list, new))
  BY LenProperties, AppendProperties
<1> QED
  BY <1>1, <1>2 DEF Together

LEMMA AppendBrings ==
  ASSUME NEW S, NEW list \in Seq(S), NEW new \in S, NEW p, NEW q,
         Holds(new, p), Holds(new, q), Under(new) = Key(p)
  PROVE  Together(Append(list, new), p, q)
<1>1. /\ Len(list) + 1 \in 1 .. Len(Append(list, new))
      /\ Append(list, new)[Len(list) + 1] = new
  BY LenProperties, AppendProperties
<1> QED
  BY <1>1 DEF Together

LEMMA ConcatKeeps ==
  ASSUME NEW S, NEW a \in Seq(S), NEW b \in Seq(S), NEW p, NEW q,
         Together(a, p, q) \/ Together(b, p, q)
  PROVE  Together(a \o b, p, q)
<1>0. Len(a) \in Nat /\ Len(b) \in Nat /\ Len(a \o b) = Len(a) + Len(b)
  BY LenProperties, ConcatProperties
<1>1. CASE Together(a, p, q)
  <2>1. PICK i \in 1 .. Len(a) : Holds(a[i], p) /\ Holds(a[i], q) /\ Under(a[i]) = Key(p)
    BY <1>1 DEF Together
  <2>2. i \in 1 .. Len(a) + Len(b) /\ i <= Len(a)
    BY <1>0
  <2>3. (a \o b)[i] = a[i]
    BY <2>2, ConcatProperties
  <2> QED
    BY <1>0, <2>1, <2>2, <2>3 DEF Together
<1>2. CASE Together(b, p, q)
  <2>1. PICK i \in 1 .. Len(b) : Holds(b[i], p) /\ Holds(b[i], q) /\ Under(b[i]) = Key(p)
    BY <1>2 DEF Together
  <2>2. Len(a) + i \in 1 .. Len(a) + Len(b) /\ ~(Len(a) + i <= Len(a)) /\ Len(a) + i - Len(a) = i
    BY <1>0
  <2>3. (a \o b)[Len(a) + i] = b[i]
    BY <2>2, ConcatProperties
  <2> QED
    BY <1>0, <2>1, <2>2, <2>3 DEF Together
<1> QED
  BY <1>1, <1>2

\* Two close words are in the same sections, and both are visible there.
LEMMA CloseFacts ==
  ASSUME CallOK, NEW s \in SectionType, SectionOK(s), NEW p, NEW q, Close(p, q), InSection(p, s)
  PROVE  /\ InSection(q, s) /\ Key(p) = Under(s)
         /\ p \in Nat /\ q \in Nat /\ p \in s.lo .. s.hi - 1 /\ q \in s.lo .. s.hi - 1
         /\ text[p] # Blank /\ text[q] # Blank
         /\ p <= q /\ q - p <= call.overlap /\ q - p < call.size
<1>1. p \in Body /\ q \in Body /\ Key(p) = Key(q)
  BY DEF Close
<1>2. Key(p) = Under(s) /\ InSection(q, s)
  BY <1>1 DEF SectionOK
<1>3. p \in Nat /\ q \in Nat /\ text[p] # Blank /\ text[q] # Blank
  BY <1>1, BodyFacts
<1>4. s.lo \in Nat /\ s.hi \in Nat
  BY CallFacts DEF SectionType
<1>5. p \in s.lo .. s.hi - 1 /\ q \in s.lo .. s.hi - 1
  BY <1>2, <1>3, <1>4 DEF InSection
<1> QED
  BY <1>2, <1>3, <1>5 DEF Close

LEMMA ChunksInit == Init => ChunksInv
<1> SUFFICES ASSUME Init PROVE ChunksInv
  OBVIOUS
<1>1. next = 1 /\ offset = 1
  BY DEF Init
<1>2. CallOK
  BY TypesInit DEF TypesInv, Loops
<1>3. ASSUME NEW p, NEW q, Close(p, q) PROVE ~(p < 1)
  <2>1. p \in Body
    BY <1>3 DEF Close
  <2> QED
    BY <1>2, <2>1, BodyFacts
<1> QED
  BY <1>1, <1>3 DEF ChunksInv

\* The current section is one of those that hold just their words.
LEMMA CurrentIs ==
  ASSUME TypesInv, SectionsInv, next <= Len(sections)
  PROVE  CallOK /\ Current \in SectionType /\ SectionOK(Current)
<1>1. next \in 1 .. Len(sections)
  BY TypesFacts
<1> QED
  BY <1>1, TypesFacts DEF SectionsInv, Current

LEMMA SkipBlankChunks == TypesInv /\ SectionsInv /\ ChunksInv /\ SkipBlank => ChunksInv'
<1> SUFFICES ASSUME TypesInv, SectionsInv, ChunksInv, SkipBlank PROVE ChunksInv'
  OBVIOUS
<1>1. /\ call' = call /\ sections' = sections /\ chunks' = chunks /\ next' = next + 1 /\ pc' = "sections"
      /\ next <= Len(sections) /\ VisibleIn(Current.lo, Current.hi) = {}
  BY DEF SkipBlank
<1>2. ASSUME NEW p, NEW q, Close(p, q), InSection(p, Current) PROVE FALSE
  <2>1. p \in Current.lo .. Current.hi - 1 /\ text[p] # Blank
    BY <1>1, <1>2, CurrentIs, CloseFacts
  <2> QED
    BY <1>1, <2>1 DEF VisibleIn
<1>3. ASSUME NEW j \in 1 .. next' - 1, NEW p, NEW q, Close(p, q), InSection(p, sections[j])
      PROVE  Together(chunks, p, q)
  <2>1. next \in Nat /\ (j \in 1 .. next - 1 \/ j = next)
    BY <1>1, TypesFacts
  <2> QED
    BY <1>2, <1>3, <2>1 DEF ChunksInv, Current
<1> QED
  BY <1>1, <1>3, StillClose DEF ChunksInv, InSection

LEMMA WholeSectionChunks == TypesInv /\ SectionsInv /\ ChunksInv /\ WholeSection => ChunksInv'
<1> SUFFICES ASSUME TypesInv, SectionsInv, ChunksInv, WholeSection PROVE ChunksInv'
  OBVIOUS
<1> DEFINE new == NewChunk(Len(chunks), Current, Current.lo, Current.hi,
                           BodyHi(Current) - BodyLo(Current))
<1>1. /\ call' = call /\ sections' = sections /\ next' = next + 1 /\ pc' = "sections"
      /\ chunks' = Append(chunks, new)
      /\ next <= Len(sections) /\ VisibleIn(Current.lo, Current.hi) # {}
  BY DEF WholeSection
<1>2. CallOK /\ Current \in SectionType /\ SectionOK(Current)
  BY <1>1, CurrentIs
<1>3. Current.lo \in Nat /\ Current.hi \in 0 .. End
  BY <1>2, CallFacts DEF SectionType
<1>4. new.lo = StripLo(Current.lo, Current.hi) /\ new.hi = StripHi(Current.lo, Current.hi)
      /\ new.path = Current.path
  BY DEF NewChunk
<1> HIDE DEF new
<1>5. \E S : chunks \in Seq(S) /\ new \in S
  <2>1. chunks \in Seq(ChunkType \cup {new})
    BY TypesFacts, SeqMonotonic
  <2> QED
    BY <2>1
<1>6. ASSUME NEW p, NEW q, Close(p, q), InSection(p, Current) PROVE Together(chunks', p, q)
  <2>1. /\ p \in Current.lo .. Current.hi - 1 /\ text[p] # Blank
        /\ q \in Current.lo .. Current.hi - 1 /\ text[q] # Blank
        /\ Key(p) = Under(Current)
    BY <1>2, <1>6, CloseFacts
  <2>2. Holds(new, p) /\ Holds(new, q)
    BY <1>1, <1>2, <1>3, <1>4, <2>1, StripIs DEF Holds
  <2>3. Under(new) = Key(p)
    BY <1>4, <2>1 DEF Under
  <2> QED
    BY <1>1, <1>5, <2>2, <2>3, AppendBrings
<1>7. ASSUME NEW j \in 1 .. next' - 1, NEW p, NEW q, Close(p, q), InSection(p, sections[j])
      PROVE  Together(chunks', p, q)
  <2>1. next \in Nat /\ (j \in 1 .. next - 1 \/ j = next)
    BY <1>1, TypesFacts
  <2>2. CASE j \in 1 .. next - 1
    <3>1. Together(chunks, p, q)
      BY <1>7, <2>2 DEF ChunksInv
    <3> QED
      BY <1>1, <1>5, <3>1, AppendKeeps
  <2>3. CASE j = next
    BY <1>6, <1>7, <2>3 DEF Current
  <2> QED
    BY <2>1, <2>2, <2>3
<1> QED
  BY <1>1, <1>7, StillClose DEF ChunksInv, InSection

LEMMA LargeSectionChunks == TypesInv /\ SectionsInv /\ ChunksInv /\ LargeSection => ChunksInv'
<1> SUFFICES ASSUME TypesInv, SectionsInv, ChunksInv, LargeSection PROVE ChunksInv'
  OBVIOUS
<1>1. /\ call' = call /\ sections' = sections /\ next' = next /\ chunks' = chunks
      /\ offset' = BodyLo(Current) /\ Current' = Current
      /\ next <= Len(sections) /\ VisibleIn(Current.lo, Current.hi) # {}
  BY DEF LargeSection, Current
<1>2. ASSUME NEW p, NEW q, Close(p, q), InSection(p, Current), p < BodyLo(Current) PROVE FALSE
  <2>1. p \in Current.lo .. Current.hi - 1 /\ text[p] # Blank /\ p \in Nat
    BY <1>1, <1>2, CurrentIs, CloseFacts
  <2>2. BodyLo(Current) <= p /\ BodyLo(Current) \in Current.lo .. Current.hi - 1
    BY <1>1, <2>1, CurrentIs, BodyIs
  <2>3. Current.lo \in Nat
    BY <1>1, CurrentIs, CallFacts DEF SectionType
  <2> QED
    BY <1>2, <2>1, <2>2, <2>3
<1> QED
  BY <1>1, <1>2, StillClose DEF ChunksInv, InSection

\* The next window begins before any pair of close words that this one does not hold.
LEMMA PairInWindow ==
  ASSUME NEW size \in Nat \ {0}, NEW overlap \in Nat, NEW o \in Nat, NEW end \in Nat,
         NEW p \in Nat, NEW q \in Nat,
         p <= q, q - p <= overlap, q - p < size, q < end, o <= p,
         p < o + (IF size - overlap > 1 THEN size - overlap ELSE 1)
  PROVE  q < (IF o + size < end THEN o + size ELSE end)
  OBVIOUS

LEMMA WindowChunks == TypesInv /\ SectionsInv /\ ChunksInv /\ Window => ChunksInv'
<1> SUFFICES ASSUME TypesInv, SectionsInv, ChunksInv, Window PROVE ChunksInv'
  OBVIOUS
<1> DEFINE hi == IF offset + call.size < WindowEnd(Current)
                 THEN offset + call.size ELSE WindowEnd(Current)
           new == NewChunk(start + Len(found), Current, offset, hi, hi - offset)
<1>1. /\ call' = call /\ sections' = sections /\ next' = next /\ chunks' = chunks
      /\ pc = "window" /\ pc' = pc /\ Current' = Current
      /\ offset' = offset + Stride
      /\ found' = IF VisibleIn(offset, hi) = {} THEN found ELSE Append(found, new)
  BY DEF Window, Current
<1>2. next <= Len(sections) /\ (call.strategy = "heading" => VisibleIn(Current.lo, Current.hi) # {})
  BY <1>1 DEF TypesInv, Loops
<1>3. CallOK /\ Current \in SectionType /\ SectionOK(Current)
  BY <1>2, CurrentIs
<1>4. offset \in 1 .. End /\ hi \in offset + 1 .. End
  BY WindowIs
<1>5. End \in Nat /\ offset \in Nat /\ hi \in 0 .. End /\ call.size \in Nat \ {0} /\ call.overlap \in Nat
  BY <1>3, <1>4, CallFacts
<1>6. WindowEnd(Current) \in Nat
      /\ \A p \in Current.lo .. Current.hi - 1 : text[p] # Blank => p < WindowEnd(Current)
  <2>1. WindowEnd(Current) \in 1 .. End
    BY <1>2, <1>3, WindowEndIs
  <2>2. \A p \in Current.lo .. Current.hi - 1 : text[p] # Blank => p < WindowEnd(Current)
    BY <1>2, <1>3, WindowEndIs
  <2> QED
    BY <1>5, <2>1, <2>2
<1>7. new.lo = StripLo(offset, hi) /\ new.hi = StripHi(offset, hi) /\ new.path = Current.path
  BY DEF NewChunk
<1> HIDE DEF new
<1>8. \E S : found \in Seq(S) /\ new \in S
  <2>1. found \in Seq(ChunkType \cup {new})
    BY TypesFacts, SeqMonotonic
  <2> QED
    BY <2>1
<1>9. ASSUME NEW p, NEW q, Close(p, q), InSection(p, Current), p < offset' PROVE Together(found', p, q)
  <2>1. /\ p \in Nat /\ q \in Nat /\ text[p] # Blank /\ text[q] # Blank
        /\ q \in Current.lo .. Current.hi - 1
        /\ p <= q /\ q - p <= call.overlap /\ q - p < call.size
        /\ Key(p) = Under(Current)
    BY <1>3, <1>9, CloseFacts
  <2>2. CASE p < offset
    <3>1. Together(found, p, q)
      BY <1>1, <1>9, <2>2 DEF ChunksInv
    <3> QED
      BY <1>1, <1>8, <3>1, AppendKeeps
  <2>3. CASE offset <= p
    <3>1. q < WindowEnd(Current)
      BY <1>6, <2>1
    <3>2. p < offset + (IF call.size - call.overlap > 1 THEN call.size - call.overlap ELSE 1)
      BY <1>1, <1>9 DEF Stride
    <3>3. q < hi
      BY <1>5, <1>6, <2>1, <2>3, <3>1, <3>2, PairInWindow
    <3> HIDE DEF hi
    <3>4. p \in offset .. hi - 1 /\ q \in offset .. hi - 1
      BY <1>5, <2>1, <2>3, <3>3
    <3>5. VisibleIn(offset, hi) # {}
      BY <2>1, <3>4 DEF VisibleIn
    <3>6. Holds(new, p) /\ Holds(new, q)
      BY <1>3, <1>5, <1>7, <2>1, <3>4, <3>5, StripIs DEF Holds
    <3>7. Under(new) = Key(p)
      BY <1>7, <2>1 DEF Under
    <3>8. found' = Append(found, new)
      BY <1>1, <3>5
    <3> QED
      BY <1>8, <3>6, <3>7, <3>8, AppendBrings
  <2> QED
    BY <1>5, <2>1, <2>2, <2>3
<1> QED
  BY <1>1, <1>9, StillClose DEF ChunksInv, InSection

LEMMA WindowsDoneChunks == TypesInv /\ SectionsInv /\ ChunksInv /\ WindowsDone => ChunksInv'
<1> SUFFICES ASSUME TypesInv, SectionsInv, ChunksInv, WindowsDone PROVE ChunksInv'
  OBVIOUS
<1>1. /\ call' = call /\ sections' = sections /\ next' = next + 1 /\ pc = "window" /\ pc' = "sections"
      /\ chunks' = chunks \o found /\ offset >= WindowEnd(Current)
  BY DEF WindowsDone
<1>2. next <= Len(sections) /\ (call.strategy = "heading" => VisibleIn(Current.lo, Current.hi) # {})
  BY <1>1 DEF TypesInv, Loops
<1>3. CallOK /\ Current \in SectionType /\ SectionOK(Current)
  BY <1>2, CurrentIs
<1>4. chunks \in Seq(ChunkType) /\ found \in Seq(ChunkType) /\ offset \in Nat /\ next \in Nat
  BY TypesFacts
<1>5. ASSUME NEW p, NEW q, Close(p, q), InSection(p, Current) PROVE Together(chunks', p, q)
  <2>1. p \in Current.lo .. Current.hi - 1 /\ text[p] # Blank /\ p \in Nat
    BY <1>3, <1>5, CloseFacts
  <2>2. p < WindowEnd(Current) /\ WindowEnd(Current) \in 1 .. End
    BY <1>2, <1>3, <2>1, WindowEndIs
  <2>3. p < offset
    BY <1>1, <1>3, <1>4, <2>1, <2>2, CallFacts
  <2>4. Together(found, p, q)
    BY <1>1, <1>5, <2>3 DEF ChunksInv
  <2> QED
    BY <1>1, <1>4, <2>4, ConcatKeeps
<1>6. ASSUME NEW j \in 1 .. next' - 1, NEW p, NEW q, Close(p, q), InSection(p, sections[j])
      PROVE  Together(chunks', p, q)
  <2>1. j \in 1 .. next - 1 \/ j = next
    BY <1>1, <1>4
  <2>2. CASE j \in 1 .. next - 1
    <3>1. Together(chunks, p, q)
      BY <1>6, <2>2 DEF ChunksInv
    <3> QED
      BY <1>1, <1>4, <3>1, ConcatKeeps
  <2>3. CASE j = next
    BY <1>5, <1>6, <2>3 DEF Current
  <2> QED
    BY <2>1, <2>2, <2>3
<1> QED
  BY <1>1, <1>6, StillClose DEF ChunksInv, InSection

LEMMA ChunksStep == TypesInv /\ SectionsInv /\ ChunksInv /\ [Next]_vars => ChunksInv'
<1> SUFFICES ASSUME TypesInv, SectionsInv, ChunksInv, [Next]_vars PROVE ChunksInv'
  OBVIOUS
<1>1. CASE SplitLeading \/ SplitHeading
  <2>1. next = 1 /\ next' = next /\ pc' # "window"
    BY <1>1 DEF SplitLeading, SplitHeading, TypesInv, Loops
  <2> QED
    BY <2>1 DEF ChunksInv
<1>2. CASE SectionsDone
  <2>1. /\ call' = call /\ sections' = sections /\ next' = next /\ chunks' = chunks /\ pc' = "done"
    BY <1>2 DEF SectionsDone
  <2> QED
    BY <2>1, StillClose DEF ChunksInv, InSection
<1>3. CASE UNCHANGED vars
  <2>1. /\ call' = call /\ sections' = sections /\ next' = next /\ chunks' = chunks /\ pc' = pc
        /\ Current' = Current /\ offset' = offset /\ found' = found
    BY <1>3 DEF vars, Current
  <2> QED
    BY <2>1, StillClose DEF ChunksInv, InSection
<1> QED
  BY <1>1, <1>2, <1>3, SkipBlankChunks, WholeSectionChunks, LargeSectionChunks, WindowChunks,
     WindowsDoneChunks DEF Next

LEMMA DoneHasAll ==
  ASSUME TypesInv, SectionsInv, ChunksInv, pc = "done", NEW p, NEW q, Close(p, q)
  PROVE  Together(chunks, p, q)
<1>1. CallOK /\ p \in Body
  BY DEF TypesInv, Loops, Close
<1>2. p < End
  BY <1>1, BodyFacts, CallFacts
<1>3. PICK i \in 1 .. Len(sections) : InSection(p, sections[i])
  BY <1>1, <1>2 DEF SectionsInv, Reaches
<1>4. i \in 1 .. next - 1
  <2>1. next > Len(sections)
    BY DEF TypesInv, Loops
  <2> QED
    BY <2>1, TypesFacts
<1> QED
  BY <1>3, <1>4 DEF ChunksInv

LEMMA DoneCitesAll == TypesInv /\ SectionsInv /\ ChunksInv => EveryWordCited
<1> SUFFICES ASSUME TypesInv, SectionsInv, ChunksInv, pc = "done", NEW p \in Body
             PROVE  \E i \in 1 .. Len(chunks) :
                      /\ Holds(chunks[i], p)
                      /\ call.strategy = "heading" => Under(chunks[i]) = HeadingOf(p)
  BY DEF EveryWordCited
<1>1. CallOK
  BY DEF TypesInv, Loops
<1>2. p \in Nat /\ call.overlap \in Nat /\ call.size \in Nat \ {0}
  BY <1>1, BodyFacts, CallFacts
<1>3. Close(p, p)
  BY <1>2 DEF Close
<1>4. PICK i \in 1 .. Len(chunks) : Holds(chunks[i], p) /\ Under(chunks[i]) = Key(p)
  BY <1>3, DoneHasAll DEF Together
<1> QED
  BY <1>4 DEF Key

LEMMA DoneKeepsNeighbours == TypesInv /\ SectionsInv /\ ChunksInv => NeighboursTogether
<1> SUFFICES ASSUME TypesInv, SectionsInv, ChunksInv, pc = "done", NEW p \in Body, NEW q \in Body,
                    p < q, q - p <= call.overlap, q - p < call.size,
                    call.strategy = "heading" => HeadingOf(p) = HeadingOf(q)
             PROVE  \E i \in 1 .. Len(chunks) : Holds(chunks[i], p) /\ Holds(chunks[i], q)
  BY DEF NeighboursTogether
<1>1. CallOK
  BY DEF TypesInv, Loops
<1>2. p \in Nat /\ q \in Nat
  BY <1>1, BodyFacts
<1>3. Key(p) = Key(q)
  BY <1>1, CallFacts DEF Key, Strategy
<1>4. Close(p, q)
  BY <1>2, <1>3 DEF Close
<1> QED
  BY <1>4, DoneHasAll DEF Together

\* For any document, any size of a window and any overlap: every word is cited,
\* under its own heading when the document is cut at headings.
THEOREM NothingIsLost == Spec => []EveryWordCited
<1>1. Init => TypesInv /\ SectionsInv /\ ChunksInv
  BY TypesInit, SectionsInit, ChunksInit
<1>2. TypesInv /\ SectionsInv /\ ChunksInv /\ [Next]_vars => TypesInv' /\ SectionsInv' /\ ChunksInv'
  BY TypesStep, SectionsStep, ChunksStep
<1> QED
  BY <1>1, <1>2, DoneCitesAll, PTL DEF Spec

\* And for any two words of a section that the overlap is to keep together, there
\* is a chunk that holds both.
THEOREM OverlapHolds == Spec => []NeighboursTogether
<1>1. Init => TypesInv /\ SectionsInv /\ ChunksInv
  BY TypesInit, SectionsInit, ChunksInit
<1>2. TypesInv /\ SectionsInv /\ ChunksInv /\ [Next]_vars => TypesInv' /\ SectionsInv' /\ ChunksInv'
  BY TypesStep, SectionsStep, ChunksStep
<1> QED
  BY <1>1, <1>2, DoneKeepsNeighbours, PTL DEF Spec

-----------------------------------------------------------------------------
(* The indices.                                                            *)

IndexInv ==
  /\ IndicesConsecutive
  /\ pc = "window" => /\ start = Len(chunks)
                      /\ \A k \in 1 .. Len(found) : found[k].index = start + k - 1

LEMMA IndexInit == Init => IndexInv
  BY DEF Init, IndexInv, IndicesConsecutive

LEMMA WholeSectionIndex == TypesInv /\ IndexInv /\ WholeSection => IndexInv'
<1> SUFFICES ASSUME TypesInv, IndexInv, WholeSection PROVE IndexInv'
  OBVIOUS
<1> DEFINE new == NewChunk(Len(chunks), Current, Current.lo, Current.hi,
                           BodyHi(Current) - BodyLo(Current))
<1>1. chunks' = Append(chunks, new) /\ pc' = "sections"
  BY DEF WholeSection
<1>2. new.index = Len(chunks)
  BY DEF NewChunk
<1> HIDE DEF new
<1>3. chunks \in Seq(ChunkType \cup {new}) /\ new \in ChunkType \cup {new} /\ Len(chunks) \in Nat
  BY TypesFacts, SeqMonotonic
<1>4. /\ Len(chunks') = Len(chunks) + 1 /\ chunks'[Len(chunks) + 1] = new
      /\ \A i \in 1 .. Len(chunks) : chunks'[i] = chunks[i]
  BY <1>1, <1>3, AppendProperties
<1>5. ASSUME NEW i \in 1 .. Len(chunks') PROVE chunks'[i].index = i - 1
  <2>1. CASE i \in 1 .. Len(chunks)
    BY <1>4, <2>1 DEF IndexInv, IndicesConsecutive
  <2>2. CASE i = Len(chunks) + 1
    BY <1>2, <1>3, <1>4, <2>2
  <2> QED
    BY <1>3, <1>4, <2>1, <2>2
<1> QED
  BY <1>1, <1>5 DEF IndexInv, IndicesConsecutive

LEMMA WindowIndex == TypesInv /\ IndexInv /\ Window => IndexInv'
<1> SUFFICES ASSUME TypesInv, IndexInv, Window PROVE IndexInv'
  OBVIOUS
<1> DEFINE hi == IF offset + call.size < WindowEnd(Current)
                 THEN offset + call.size ELSE WindowEnd(Current)
           new == NewChunk(start + Len(found), Current, offset, hi, hi - offset)
<1>1. /\ chunks' = chunks /\ start' = start /\ pc = "window" /\ pc' = pc
      /\ found' \in {found, Append(found, new)}
  BY DEF Window
<1>2. new.index = start + Len(found)
  BY DEF NewChunk
<1> HIDE DEF new
<1>3. /\ found \in Seq(ChunkType \cup {new}) /\ new \in ChunkType \cup {new}
      /\ Len(found) \in Nat /\ start \in Nat
  BY TypesFacts, SeqMonotonic
<1>4. /\ Len(Append(found, new)) = Len(found) + 1 /\ Append(found, new)[Len(found) + 1] = new
      /\ \A k \in 1 .. Len(found) : Append(found, new)[k] = found[k]
  BY <1>3, AppendProperties
<1>5. ASSUME NEW k \in 1 .. Len(found') PROVE found'[k].index = start + k - 1
  <2>1. CASE found' = found
    BY <1>1, <2>1 DEF IndexInv
  <2>2. CASE found' = Append(found, new) /\ k \in 1 .. Len(found)
    BY <1>1, <1>4, <2>2 DEF IndexInv
  <2>3. CASE found' = Append(found, new) /\ k = Len(found) + 1
    BY <1>2, <1>3, <1>4, <2>3
  <2> QED
    BY <1>1, <1>3, <1>4, <2>1, <2>2, <2>3
<1> QED
  BY <1>1, <1>5 DEF IndexInv, IndicesConsecutive

LEMMA WindowsDoneIndex == TypesInv /\ IndexInv /\ WindowsDone => IndexInv'
<1> SUFFICES ASSUME TypesInv, IndexInv, WindowsDone PROVE IndexInv'
  OBVIOUS
<1>1. chunks' = chunks \o found /\ pc = "window" /\ pc' = "sections"
  BY DEF WindowsDone
<1>2. /\ chunks \in Seq(ChunkType) /\ found \in Seq(ChunkType)
      /\ Len(chunks) \in Nat /\ Len(found) \in Nat
  BY TypesFacts
<1>3. /\ Len(chunks') = Len(chunks) + Len(found)
      /\ \A i \in 1 .. Len(chunks) + Len(found) :
           chunks'[i] = IF i <= Len(chunks) THEN chunks[i] ELSE found[i - Len(chunks)]
  BY <1>1, <1>2, ConcatProperties
<1>4. ASSUME NEW i \in 1 .. Len(chunks') PROVE chunks'[i].index = i - 1
  <2>1. CASE i <= Len(chunks)
    BY <1>2, <1>3, <2>1 DEF IndexInv, IndicesConsecutive
  <2>2. CASE Len(chunks) < i
    <3>1. i - Len(chunks) \in 1 .. Len(found) /\ chunks'[i] = found[i - Len(chunks)]
      BY <1>2, <1>3, <2>2
    <3>2. found[i - Len(chunks)].index = Len(chunks) + (i - Len(chunks)) - 1
      BY <1>1, <3>1 DEF IndexInv
    <3>3. Len(chunks) + (i - Len(chunks)) - 1 = i - 1
      BY <1>2, <1>3
    <3> QED
      BY <3>1, <3>2, <3>3
  <2> QED
    BY <1>2, <1>3, <2>1, <2>2
<1> QED
  BY <1>1, <1>4 DEF IndexInv, IndicesConsecutive

LEMMA IndexStep == TypesInv /\ IndexInv /\ [Next]_vars => IndexInv'
<1> SUFFICES ASSUME TypesInv, IndexInv, [Next]_vars PROVE IndexInv'
  OBVIOUS
<1>1. CASE SplitLeading \/ SplitHeading \/ SkipBlank \/ SectionsDone
  <2>1. chunks' = chunks /\ pc' # "window"
    BY <1>1 DEF SplitLeading, SplitHeading, SkipBlank, SectionsDone
  <2> QED
    BY <2>1 DEF IndexInv, IndicesConsecutive
<1>2. CASE LargeSection
  <2>1. chunks' = chunks /\ start' = Len(chunks) /\ found' = <<>>
    BY <1>2 DEF LargeSection
  <2> QED
    BY <2>1 DEF IndexInv, IndicesConsecutive
<1>3. CASE UNCHANGED vars
  BY <1>3 DEF vars, IndexInv, IndicesConsecutive
<1> QED
  BY <1>1, <1>2, <1>3, WholeSectionIndex, WindowIndex, WindowsDoneIndex DEF Next

\* For any document: the chunks are numbered from 0 in their order.
THEOREM ChunksCountUp == Spec => []IndicesConsecutive
<1>1. TypesInv /\ IndexInv /\ [Next]_vars => TypesInv' /\ IndexInv'
  BY TypesStep, IndexStep
<1>2. IndexInv => IndicesConsecutive
  BY DEF IndexInv
<1> QED
  BY <1>1, <1>2, TypesInit, IndexInit, PTL DEF Spec

-----------------------------------------------------------------------------
(* The pages, when those of the extraction are in order.                   *)

PagesInOrder ==
  \A i, j \in 1 .. Len(call.pages) :
    /\ i <= j /\ call.pages[i] # NoPage /\ call.pages[j] # NoPage
    => call.pages[i] <= call.pages[j]

Cited(c) == \A p \in c.lo .. c.hi - 1 : c.pageStart <= call.pages[p] /\ call.pages[p] <= c.pageEnd

PagesInv ==
  /\ pc = "window" => Current.lo <= offset
  /\ Gapless /\ PagesInOrder =>
       /\ \A i \in 1 .. Len(chunks) : Cited(chunks[i])
       /\ \A i \in 1 .. Len(found) : Cited(found[i])

LEMMA StillPages ==
  ASSUME call' = call
  PROVE  Gapless' = Gapless /\ PagesInOrder' = PagesInOrder /\ (\A c : Cited(c)' = Cited(c))
  BY DEF Gapless, PagesInOrder, Cited

\* A chunk lies within its section, whose first and last page it cites.
LEMMA NewChunkCites ==
  ASSUME CallOK, Gapless, PagesInOrder, NEW s \in SectionType, NEW i, NEW n,
         NEW lo \in 1 .. End, NEW hi \in 1 .. End, s.lo <= lo, hi <= s.hi, VisibleIn(lo, hi) # {}
  PROVE  Cited(NewChunk(i, s, lo, hi, n))
<1> DEFINE new == NewChunk(i, s, lo, hi, n)
<1>1. /\ new.lo = StripLo(lo, hi) /\ new.hi = StripHi(lo, hi)
      /\ new.pageStart = PageStart(s.lo, s.hi) /\ new.pageEnd = PageEnd(s.lo, s.hi)
  BY DEF NewChunk
<1>2. End \in Nat /\ End = Len(text) + 1 /\ Len(text) \in Nat /\ call.pages \in Seq(Nat)
  BY CallFacts
<1>3. s.lo \in 1 .. End /\ s.hi \in 1 .. End
  BY DEF SectionType
<1>4. Len(call.pages) = Len(text) /\ \A p \in 1 .. Len(text) : call.pages[p] # NoPage
  BY <1>2 DEF CallOK, Gapless
<1>5. StripLo(lo, hi) \in lo .. hi - 1 /\ StripHi(lo, hi) \in StripLo(lo, hi) + 1 .. hi
  BY <1>2, StripIs
<1> HIDE DEF new
<1> SUFFICES ASSUME NEW p \in new.lo .. new.hi - 1
             PROVE  new.pageStart <= call.pages[p] /\ call.pages[p] <= new.pageEnd
  BY DEF Cited, new
<1>6. p \in Nat /\ s.lo <= p /\ p <= s.hi - 1
  BY <1>1, <1>2, <1>3, <1>5
<1>7. p \in 1 .. Len(text) /\ s.lo \in 1 .. Len(text) /\ s.hi - 1 \in 1 .. Len(text)
  BY <1>2, <1>3, <1>6
<1>8. PageStart(s.lo, s.hi) = call.pages[s.lo]
  BY <1>4, <1>7 DEF PageStart, PageAt
<1>9. PageEnd(s.lo, s.hi) = call.pages[s.hi - 1]
  <2>1. (IF s.hi - 1 > s.lo THEN s.hi - 1 ELSE s.lo) = s.hi - 1
    BY <1>3, <1>6
  <2> QED
    BY <1>4, <1>7, <2>1 DEF PageEnd, PageAt
<1>10. call.pages[s.lo] <= call.pages[p] /\ call.pages[p] <= call.pages[s.hi - 1]
  BY <1>4, <1>6, <1>7 DEF PagesInOrder
<1> QED
  BY <1>1, <1>8, <1>9, <1>10

LEMMA AppendCites ==
  ASSUME NEW S, NEW list \in Seq(S), NEW new \in S, Cited(new),
         \A i \in 1 .. Len(list) : Cited(list[i])
  PROVE  \A i \in 1 .. Len(Append(list, new)) : Cited(Append(list, new)[i])
<1>1. /\ Len(list) \in Nat /\ Len(Append(list, new)) = Len(list) + 1
      /\ \A i \in 1 .. Len(list) : Append(list, new)[i] = list[i]
      /\ Append(list, new)[Len(list) + 1] = new
  BY LenProperties, AppendProperties
<1>2. \A i \in 1 .. Len(list) + 1 : i \in 1 .. Len(list) \/ i = Len(list) + 1
  BY <1>1
<1> QED
  BY <1>1, <1>2

LEMMA PagesInit == Init => PagesInv
<1> SUFFICES ASSUME Init PROVE PagesInv
  OBVIOUS
<1>1. chunks = <<>> /\ found = <<>> /\ offset = 1 /\ next = 1
  BY DEF Init
<1>2. pc = "window" => sections = <<Section(<<>>, 1, End)>>
  BY DEF Init
<1>3. pc = "window" => Current.lo = 1
  BY <1>1, <1>2 DEF Current, Section
<1> QED
  BY <1>1, <1>3 DEF PagesInv

LEMMA WholeSectionPages == TypesInv /\ PagesInv /\ WholeSection => PagesInv'
<1> SUFFICES ASSUME TypesInv, PagesInv, WholeSection PROVE PagesInv'
  OBVIOUS
<1> DEFINE n == BodyHi(Current) - BodyLo(Current)
           new == NewChunk(Len(chunks), Current, Current.lo, Current.hi, n)
<1>1. /\ call' = call /\ pc' = "sections" /\ found' = found /\ chunks' = Append(chunks, new)
      /\ next <= Len(sections) /\ VisibleIn(Current.lo, Current.hi) # {}
  BY DEF WholeSection
<1>2. CallOK /\ Current \in SectionType
  BY <1>1, TypesFacts
<1>3. Current.lo \in 1 .. End /\ Current.hi \in 1 .. End /\ Current.lo <= Current.lo /\ Current.hi <= Current.hi
  BY <1>2, CallFacts DEF SectionType
<1>4. Gapless /\ PagesInOrder => Cited(new)
  <2> HIDE DEF n
  <2> QED
    BY <1>1, <1>2, <1>3, NewChunkCites
<1> HIDE DEF new
<1>5. chunks \in Seq(ChunkType \cup {new}) /\ new \in ChunkType \cup {new}
  BY TypesFacts, SeqMonotonic
<1>6. Gapless /\ PagesInOrder => \A i \in 1 .. Len(chunks') : Cited(chunks'[i])
  BY <1>1, <1>4, <1>5, AppendCites DEF PagesInv
<1> QED
  BY <1>1, <1>6, StillPages DEF PagesInv

LEMMA LargeSectionPages == TypesInv /\ PagesInv /\ LargeSection => PagesInv'
<1> SUFFICES ASSUME TypesInv, PagesInv, LargeSection PROVE PagesInv'
  OBVIOUS
<1>1. /\ call' = call /\ chunks' = chunks /\ found' = <<>> /\ offset' = BodyLo(Current) /\ Current' = Current
      /\ next <= Len(sections) /\ VisibleIn(Current.lo, Current.hi) # {}
  BY DEF LargeSection, Current
<1>2. CallOK /\ Current \in SectionType
  BY <1>1, TypesFacts
<1>3. Current.lo \in Nat /\ BodyLo(Current) \in Current.lo .. Current.hi - 1
  <2>1. BodyLo(Current) \in Current.lo .. Current.hi - 1
    BY <1>1, <1>2, BodyIs
  <2> QED
    BY <1>2, <2>1, CallFacts DEF SectionType
<1>4. Current'.lo <= offset'
  BY <1>1, <1>3
<1> QED
  BY <1>1, <1>4, StillPages DEF PagesInv

LEMMA WindowPages == TypesInv /\ PagesInv /\ Window => PagesInv'
<1> SUFFICES ASSUME TypesInv, PagesInv, Window PROVE PagesInv'
  OBVIOUS
<1> DEFINE hi == IF offset + call.size < WindowEnd(Current)
                 THEN offset + call.size ELSE WindowEnd(Current)
           new == NewChunk(start + Len(found), Current, offset, hi, hi - offset)
<1>1. /\ call' = call /\ pc = "window" /\ Current' = Current /\ chunks' = chunks
      /\ offset' = offset + Stride
      /\ found' = IF VisibleIn(offset, hi) = {} THEN found ELSE Append(found, new)
  BY DEF Window, Current
<1>2. /\ CallOK /\ Current \in SectionType /\ offset \in 1 .. End /\ hi \in 1 .. End
      /\ hi <= Current.hi /\ Current.lo <= offset
  <2>1. CallOK /\ offset \in Nat \ {0}
    BY TypesFacts
  <2>2. Current \in SectionType /\ offset \in 1 .. End /\ hi \in offset + 1 .. End /\ hi <= Current.hi
    BY WindowIs
  <2>3. hi \in 1 .. End
    BY <2>1, <2>2
  <2> QED
    BY <1>1, <2>1, <2>2, <2>3 DEF PagesInv
<1>3. Current.lo <= offset'
  <2>1. Stride \in Nat /\ Current.lo \in Nat /\ offset \in Nat
    BY <1>2, CallFacts DEF Stride, SectionType
  <2> QED
    BY <1>1, <1>2, <2>1
<1>4. ASSUME Gapless, PagesInOrder PROVE \A i \in 1 .. Len(found') : Cited(found'[i])
  <2> HIDE DEF hi
  <2>1. CASE VisibleIn(offset, hi) = {}
    BY <1>1, <1>4, <2>1 DEF PagesInv
  <2>2. CASE VisibleIn(offset, hi) # {}
    <3>1. Cited(new)
      BY <1>2, <1>4, <2>2, NewChunkCites
    <3> HIDE DEF new
    <3>2. found \in Seq(ChunkType \cup {new}) /\ new \in ChunkType \cup {new}
      BY TypesFacts, SeqMonotonic
    <3> QED
      BY <1>1, <1>4, <2>2, <3>1, <3>2, AppendCites DEF PagesInv
  <2> QED
    BY <2>1, <2>2
<1> QED
  BY <1>1, <1>3, <1>4, StillPages DEF PagesInv

LEMMA WindowsDonePages == TypesInv /\ PagesInv /\ WindowsDone => PagesInv'
<1> SUFFICES ASSUME TypesInv, PagesInv, WindowsDone PROVE PagesInv'
  OBVIOUS
<1>1. call' = call /\ chunks' = chunks \o found /\ found' = found /\ pc' = "sections"
  BY DEF WindowsDone
<1>2. /\ chunks \in Seq(ChunkType) /\ found \in Seq(ChunkType)
      /\ Len(chunks) \in Nat /\ Len(found) \in Nat
  BY TypesFacts
<1>3. /\ Len(chunks') = Len(chunks) + Len(found)
      /\ \A i \in 1 .. Len(chunks) + Len(found) :
           chunks'[i] = IF i <= Len(chunks) THEN chunks[i] ELSE found[i - Len(chunks)]
  BY <1>1, <1>2, ConcatProperties
<1>4. ASSUME Gapless, PagesInOrder, NEW i \in 1 .. Len(chunks') PROVE Cited(chunks'[i])
  <2>1. \/ i \in 1 .. Len(chunks) /\ chunks'[i] = chunks[i]
        \/ i - Len(chunks) \in 1 .. Len(found) /\ chunks'[i] = found[i - Len(chunks)]
    BY <1>2, <1>3
  <2> QED
    BY <1>4, <2>1 DEF PagesInv
<1> QED
  BY <1>1, <1>4, StillPages DEF PagesInv

LEMMA PagesStep == TypesInv /\ PagesInv /\ [Next]_vars => PagesInv'
<1> SUFFICES ASSUME TypesInv, PagesInv, [Next]_vars PROVE PagesInv'
  OBVIOUS
<1>1. CASE SplitLeading \/ SplitHeading \/ SkipBlank \/ SectionsDone
  <2>1. call' = call /\ chunks' = chunks /\ found' = found /\ pc' # "window"
    BY <1>1 DEF SplitLeading, SplitHeading, SkipBlank, SectionsDone
  <2> QED
    BY <2>1, StillPages DEF PagesInv
<1>2. CASE UNCHANGED vars
  <2>1. /\ call' = call /\ chunks' = chunks /\ found' = found /\ pc' = pc /\ Current' = Current
        /\ offset' = offset
    BY <1>2 DEF vars, Current
  <2> QED
    BY <2>1, StillPages DEF PagesInv
<1> QED
  BY <1>1, <1>2, WholeSectionPages, LargeSectionPages, WindowPages, WindowsDonePages DEF Next

\* For any document whose pages are in order: a chunk cites the page of each of its
\* words.
THEOREM PagesAreCited == Spec => [](PagesInOrder => PagesCover)
<1>1. TypesInv /\ PagesInv /\ [Next]_vars => TypesInv' /\ PagesInv'
  BY TypesStep, PagesStep
<1>2. PagesInv => (PagesInOrder => PagesCover)
  BY DEF PagesInv, PagesCover, Cited
<1> QED
  BY <1>1, <1>2, TypesInit, PagesInit, PTL DEF Spec

-----------------------------------------------------------------------------
(* The paths, when no heading level is skipped.                            *)

\* A stack of the heading h and what it is nested in: one heading of each level up to
\* its own, each the last one of that level or a higher rank.
StackOf(st, h) ==
  /\ Len(st) = text[h]
  /\ \A j \in 1 .. Len(st) :
       /\ st[j] \in HeadingsIn(1, End) /\ st[j] <= h /\ text[st[j]] = j
       /\ \A k \in HeadingsIn(1, End) : st[j] < k /\ k <= h => text[k] > j

PathOK(path) ==
  path # <<>> => /\ path[Len(path)] \in HeadingsIn(1, End)
                 /\ StackOf(path, path[Len(path)])

PathsInv ==
  NoLevelSkipped =>
    /\ pc = "split" => stack = <<>>
    /\ pc = "headings" => IF HeadingOf(at) = 0 THEN stack = <<>>
                          ELSE StackOf(stack, HeadingOf(at))
    /\ \A i \in 1 .. Len(sections) : PathOK(sections[i].path)

LEMMA StillPaths ==
  ASSUME call' = call
  PROVE  /\ NoLevelSkipped' = NoLevelSkipped
         /\ (\A h : HeadingOf(h)' = HeadingOf(h))
         /\ (\A st, h : StackOf(st, h)' = StackOf(st, h))
         /\ (\A path : PathOK(path)' = PathOK(path))
<1>1. /\ text' = text /\ End' = End /\ HeadingsIn(1, End)' = HeadingsIn(1, End)
      /\ \A h : HeadingOf(h)' = HeadingOf(h)
  BY DEF text, End, HeadingOf, HeadingsIn
<1>2. \A st, h : StackOf(st, h)' = StackOf(st, h)
  BY <1>1 DEF StackOf
<1>3. NoLevelSkipped' = NoLevelSkipped
  BY <1>1 DEF NoLevelSkipped
<1>4. \A path : PathOK(path)' = PathOK(path)
  BY <1>1, <1>2 DEF PathOK
<1> QED
  BY <1>1, <1>2, <1>3, <1>4

LEMMA PathsInit == Init => PathsInv
<1> SUFFICES ASSUME Init PROVE PathsInv
  OBVIOUS
<1>1. stack = <<>> /\ pc \in {"split", "window"}
  BY DEF Init
<1>2. sections \in {<<>>, <<Section(<<>>, 1, End)>>}
  BY DEF Init
<1>3. ASSUME NEW i \in 1 .. Len(sections) PROVE sections[i].path = <<>>
  BY <1>2 DEF Section
<1> QED
  BY <1>1, <1>3 DEF PathsInv, PathOK

LEMMA SplitLeadingPaths == TypesInv /\ PathsInv /\ SplitLeading => PathsInv'
<1> SUFFICES ASSUME TypesInv, PathsInv, SplitLeading PROVE PathsInv'
  OBVIOUS
<1>0. call' = call
  BY DEF SplitLeading
<1> SUFFICES ASSUME NoLevelSkipped PROVE PathsInv'
  BY <1>0, StillPaths DEF PathsInv
<1> DEFINE first == NextHeading(1)
<1>1. /\ call' = call /\ pc = "split" /\ stack' = stack /\ at' = first
      /\ pc' \in {"sections", "headings"}
      /\ sections' \in {<<>>, <<Section(<<>>, 1, first)>>}
  BY DEF SplitLeading
<1>2. CallOK /\ End \in Nat \ {0}
  BY CallFacts DEF TypesInv, Loops
<1>3. first \in 1 .. End /\ \A p \in 1 .. first - 1 : text[p] \notin Level
  BY <1>2, NextHeadingIs
<1>4. HeadingsIn(1, first) = {}
  BY <1>3 DEF HeadingsIn
<1>5. HeadingOf(first) = 0
  BY <1>2, <1>3, <1>4, HeadingOfIs
<1>6. ASSUME NEW i \in 1 .. Len(sections') PROVE sections'[i].path = <<>>
  BY <1>1 DEF Section
<1>7. stack = <<>>
  BY <1>1 DEF PathsInv
<1>8. HeadingOf(at)' = 0
  BY <1>1, <1>5, StillPaths
<1> QED
  BY <1>1, <1>6, <1>7, <1>8 DEF PathsInv, PathOK

\* The heading at which the loop is finds what it is nested in on the stack.
LEMMA NewStack ==
  ASSUME CallOK, NoLevelSkipped, NEW h \in HeadingsIn(1, End), NEW st \in Seq(Position),
         IF HeadingOf(h) = 0 THEN st = <<>> ELSE StackOf(st, HeadingOf(h))
  PROVE  StackOf(Push(st, text[h], h), h)
<1> DEFINE level == text[h]
           last == HeadingOf(h)
           st2 == Push(st, level, h)
<1>1. End \in Nat \ {0} /\ h \in 1 .. End - 1 /\ level \in Level /\ Len(text) = End - 1
  BY CallFacts DEF HeadingsIn
<1>2. h \in 1 .. End /\ h \in Position /\ level \in Nat \ {0} /\ h \in Nat
  BY <1>1 DEF Position, Level
<1>3. \/ HeadingsIn(1, h) = {} /\ last = 0
      \/ /\ last \in 1 .. h - 1 /\ text[last] \in Level
         /\ \A g \in 1 .. h - 1 : text[g] \in Level => g <= last
  BY <1>2, HeadingOfIs
<1>4. level <= 1 + (IF last = 0 THEN 0 ELSE text[last])
  BY DEF NoLevelSkipped
<1>5. Len(st) \in Nat /\ level - 1 <= Len(st)
  <2>1. CASE last = 0
    BY <1>2, <1>4, <2>1
  <2>2. CASE last # 0
    <3>1. Len(st) = text[last] /\ text[last] \in Nat
      BY <1>3, <2>2 DEF StackOf, Level
    <3> QED
      BY <1>2, <1>4, <2>2, <3>1
  <2> QED
    BY <2>1, <2>2
<1>6. Kept(st, level) = level - 1
  BY <1>2, <1>5 DEF Kept
<1>7. Len(st2) = level /\ st2[level] = h
  <2>1. Len(st2) = Kept(st, level) + 1
    BY <1>2, PushLen
  <2>2. Len(st2) = level
    BY <1>2, <1>6, <2>1
  <2>3. st2[Len(st2)] = h
    BY <1>2, PushTop
  <2> QED
    BY <2>2, <2>3
<1>8. ASSUME NEW j \in 1 .. level - 1 PROVE st2[j] = st[j]
  BY <1>2, <1>6, PushKeeps
<1> HIDE DEF st2
<1>9. ASSUME NEW j \in 1 .. level
      PROVE  /\ st2[j] \in HeadingsIn(1, End) /\ st2[j] <= h /\ text[st2[j]] = j
             /\ \A k \in HeadingsIn(1, End) : st2[j] < k /\ k <= h => text[k] > j
  <2>1. CASE j = level
    BY <1>2, <1>7, <2>1 DEF HeadingsIn
  <2>2. CASE j # level
    <3>1. j \in 1 .. level - 1 /\ j \in 1 .. Len(st) /\ j \in Nat
      BY <1>2, <1>5, <2>2
    <3>2. last # 0
      BY <3>1
    <3>3. last \in 1 .. h - 1 /\ \A g \in 1 .. h - 1 : text[g] \in Level => g <= last
      BY <1>3, <3>2
    <3>4. /\ st[j] \in HeadingsIn(1, End) /\ st[j] <= last /\ text[st[j]] = j
          /\ \A k \in HeadingsIn(1, End) : st[j] < k /\ k <= last => text[k] > j
      BY <3>1, <3>2 DEF StackOf
    <3>5. st2[j] = st[j]
      BY <1>8, <3>1
    <3>6. st[j] \in Nat /\ st[j] <= h
      BY <1>1, <1>2, <3>3, <3>4 DEF HeadingsIn
    <3>7. ASSUME NEW k \in HeadingsIn(1, End), st[j] < k, k <= h PROVE text[k] > j
      <4>1. k \in 1 .. End - 1 /\ text[k] \in Level
        BY DEF HeadingsIn
      <4>2. CASE k = h
        BY <1>2, <2>2, <3>1, <4>2
      <4>3. CASE k # h
        <5>1. k \in 1 .. h - 1
          BY <1>1, <1>2, <3>7, <4>1, <4>3
        <5>2. k <= last
          BY <3>3, <4>1, <5>1
        <5> QED
          BY <3>4, <3>7, <5>2
      <4> QED
        BY <4>2, <4>3
    <3> QED
      BY <3>4, <3>5, <3>6, <3>7
  <2> QED
    BY <2>1, <2>2
<1>10. StackOf(st2, h)
  BY <1>7, <1>9 DEF StackOf
<1> QED
  BY <1>10 DEF st2

LEMMA SplitHeadingPaths == TypesInv /\ PathsInv /\ SplitHeading => PathsInv'
<1> SUFFICES ASSUME TypesInv, PathsInv, SplitHeading PROVE PathsInv'
  OBVIOUS
<1>0. call' = call
  BY DEF SplitHeading
<1> SUFFICES ASSUME NoLevelSkipped PROVE PathsInv'
  BY <1>0, StillPaths DEF PathsInv
<1> DEFINE end == NextHeading(at + 1)
           new == Section(stack', at + 1, end)
<1>1. /\ pc = "headings" /\ stack' = Push(stack, text[at], at) /\ at' = end
      /\ sections' = Append(sections, new)
      /\ pc' = IF end = End THEN "sections" ELSE "headings"
  BY DEF SplitHeading
<1>2. CallOK /\ at \in HeadingsIn(1, End) /\ stack \in Seq(Position) /\ sections \in Seq(SectionType)
  BY <1>1, TypesFacts DEF TypesInv, Loops
<1>3. End \in Nat \ {0} /\ at \in 1 .. End - 1 /\ text[at] \in Level
  BY <1>2, CallFacts DEF HeadingsIn
<1>4. at \in Position /\ at + 1 \in 1 .. End /\ text[at] \in Nat \ {0}
  BY <1>2, <1>3, CallFacts DEF Position, Level
<1>5. end \in at + 1 .. End /\ \A p \in at + 1 .. end - 1 : text[p] \notin Level
  BY <1>2, <1>4, NextHeadingIs
<1>6. StackOf(stack', at)
  <2>1. IF HeadingOf(at) = 0 THEN stack = <<>> ELSE StackOf(stack, HeadingOf(at))
    BY <1>1 DEF PathsInv
  <2> QED
    BY <1>1, <1>2, <2>1, NewStack
<1>7. stack'[Len(stack')] = at
  BY <1>1, <1>2, <1>4, PushTop
<1>8. HeadingOf(end) = at
  <2> HIDE DEF end
  <2>1. end \in 1 .. End /\ at \in 1 .. end - 1
    BY <1>3, <1>5
  <2>2. at \in HeadingsIn(1, end)
    BY <1>3, <2>1 DEF HeadingsIn
  <2>3. HeadingOf(end) \in 1 .. end - 1 /\ text[HeadingOf(end)] \in Level /\ at <= HeadingOf(end)
    <3>1. /\ HeadingOf(end) \in 1 .. end - 1 /\ text[HeadingOf(end)] \in Level
          /\ \A g \in 1 .. end - 1 : text[g] \in Level => g <= HeadingOf(end)
      BY <1>2, <2>1, <2>2, HeadingOfIs
    <3> QED
      BY <1>3, <2>1, <3>1
  <2>4. HeadingOf(end) \notin at + 1 .. end - 1
    BY <1>5, <2>3
  <2> QED
    BY <1>3, <1>5, <2>3, <2>4
<1>9. stack' \in Seq(Position) /\ new \in SectionType /\ new.path = stack'
  <2>1. stack' \in Seq(Position)
    BY <1>1, <1>2, <1>4, PushIs
  <2> QED
    BY <1>4, <1>5, <2>1 DEF Section, SectionType
<1> HIDE DEF new, end
<1>10. PathOK(new.path)
  BY <1>2, <1>6, <1>7, <1>9 DEF PathOK
<1>11. ASSUME NEW i \in 1 .. Len(sections') PROVE PathOK(sections'[i].path)
  <2>1. /\ Len(sections) \in Nat /\ Len(sections') = Len(sections) + 1
        /\ \A k \in 1 .. Len(sections) : sections'[k] = sections[k]
        /\ sections'[Len(sections) + 1] = new
    BY <1>1, <1>2, <1>9, LenProperties, AppendProperties
  <2>2. CASE i \in 1 .. Len(sections)
    BY <2>1, <2>2 DEF PathsInv
  <2>3. CASE i = Len(sections) + 1
    BY <1>10, <2>1, <2>3
  <2> QED
    BY <2>1, <2>2, <2>3
<1>12. HeadingOf(at)' = at /\ at # 0
  BY <1>0, <1>1, <1>3, <1>8, StillPaths
<1>13. StackOf(stack, HeadingOf(at))'
  BY <1>0, <1>6, <1>12, StillPaths
<1> QED
  BY <1>0, <1>1, <1>11, <1>12, <1>13, StillPaths DEF PathsInv

LEMMA PathsStep == TypesInv /\ PathsInv /\ [Next]_vars => PathsInv'
<1> SUFFICES ASSUME TypesInv, PathsInv, [Next]_vars PROVE PathsInv'
  OBVIOUS
<1>1. CASE SkipBlank \/ WholeSection \/ LargeSection \/ SectionsDone \/ Window \/ WindowsDone
  <2>1. call' = call /\ sections' = sections /\ pc' \in {"sections", "window", "done"}
    BY <1>1 DEF SkipBlank, WholeSection, LargeSection, SectionsDone, Window, WindowsDone
  <2> QED
    BY <2>1, StillPaths DEF PathsInv
<1>2. CASE UNCHANGED vars
  <2>1. call' = call /\ sections' = sections /\ pc' = pc /\ stack' = stack /\ at' = at
    BY <1>2 DEF vars
  <2> QED
    BY <2>1, StillPaths DEF PathsInv
<1> QED
  BY <1>1, <1>2, SplitLeadingPaths, SplitHeadingPaths DEF Next

\* On such a path are just the headings that enclose its last one.
LEMMA PathIsNesting ==
  ASSUME CallOK, NEW path, NEW h \in HeadingsIn(1, End), StackOf(path, h), NEW g \in HeadingsIn(1, h)
  PROVE  Encloses(g, h) <=> \E j \in 1 .. Len(path) : path[j] = g
<1>1. End \in Nat /\ h \in 1 .. End - 1 /\ g \in 1 .. h - 1 /\ text[g] \in Level /\ text[h] \in Level
  BY CallFacts DEF HeadingsIn
<1>2. g \in HeadingsIn(1, End) /\ g < h /\ g \in Nat /\ h \in Nat /\ text[g] \in Nat \ {0} /\ text[h] \in Nat
  BY <1>1 DEF HeadingsIn, Level
<1>3. \A k : k \in HeadingsIn(g + 1, h + 1) <=> k \in HeadingsIn(1, End) /\ g < k /\ k <= h
  BY <1>1 DEF HeadingsIn
<1>4. ASSUME Encloses(g, h) PROVE path[text[g]] = g /\ text[g] \in 1 .. Len(path)
  <2> DEFINE j == text[g]
  <2>1. \A k \in HeadingsIn(1, End) : g < k /\ k <= h => j < text[k]
    BY <1>3, <1>4 DEF Encloses
  <2>2. j < text[h]
    BY <1>2, <2>1
  <2>3. j \in 1 .. Len(path)
    BY <1>2, <2>2 DEF StackOf
  <2>4. /\ path[j] \in HeadingsIn(1, End) /\ path[j] <= h /\ text[path[j]] = j
        /\ \A k \in HeadingsIn(1, End) : path[j] < k /\ k <= h => text[k] > j
    BY <2>3 DEF StackOf
  <2>5. path[j] \in Nat
    BY <2>4 DEF HeadingsIn
  <2>6. ASSUME g < path[j] PROVE FALSE
    <3>1. text[g] < text[path[j]]
      BY <2>1, <2>4, <2>6
    <3>2. text[path[j]] = text[g]
      BY <2>4
    <3> QED
      BY <1>2, <3>1, <3>2
  <2>7. ~(path[j] < g)
    BY <1>2, <2>4
  <2> QED
    BY <1>2, <2>3, <2>5, <2>6, <2>7
<1>5. ASSUME NEW j \in 1 .. Len(path), path[j] = g PROVE Encloses(g, h)
  <2>1. text[g] = j /\ \A k \in HeadingsIn(1, End) : g < k /\ k <= h => text[k] > j
    BY <1>5 DEF StackOf
  <2>2. \A k \in HeadingsIn(1, End) : text[k] \in Nat
    BY DEF HeadingsIn, Level
  <2> QED
    BY <1>2, <1>3, <2>1, <2>2 DEF Encloses
<1> QED
  BY <1>4, <1>5

\* For any document that skips no heading level: a section's path is its heading and
\* the headings that enclose it.
THEOREM NestingIsPreserved == Spec => []NestingWhenUnskipped
<1>1. TypesInv /\ PathsInv /\ [Next]_vars => TypesInv' /\ PathsInv'
  BY TypesStep, PathsStep
<1>2. TypesInv /\ PathsInv => NestingWhenUnskipped
  <2> SUFFICES ASSUME TypesInv, PathsInv, NoLevelSkipped PROVE NestingPreserved
    BY DEF NestingWhenUnskipped
  <2>1. CallOK
    BY DEF TypesInv, Loops
  <2>2. ASSUME NEW i \in 1 .. Len(sections), sections[i].path # <<>>,
               NEW g \in HeadingsIn(1, sections[i].path[Len(sections[i].path)])
        PROVE  Encloses(g, sections[i].path[Len(sections[i].path)])
               <=> \E j \in 1 .. Len(sections[i].path) : sections[i].path[j] = g
    <3>1. /\ sections[i].path[Len(sections[i].path)] \in HeadingsIn(1, End)
          /\ StackOf(sections[i].path, sections[i].path[Len(sections[i].path)])
      BY <2>2 DEF PathsInv, PathOK
    <3> QED
      BY <2>1, <2>2, <3>1, PathIsNesting
  <2> QED
    BY <2>2 DEF NestingPreserved
<1> QED
  BY <1>1, <1>2, TypesInit, PathsInit, PTL DEF Spec
=============================================================================
