------------------------------ MODULE MCChunking ------------------------------
(* Every document of up to MaxLen elements with headings of levels 1 to 3,    *)
(* cut both ways with windows that overlap not at all, in part and entirely.  *)
EXTENDS Chunking

CONSTANT MaxLen

MCTexts == UNION {[1 .. n -> {Word, Blank, 1, 2, 3}] : n \in 0 .. MaxLen}

\* No pages; a page break in the middle; in short texts, that break with a gap.
MCPageMaps ==
  {<<>>}
  \cup {[p \in 1 .. n |-> IF p <= n \div 2 THEN 1 ELSE 2] : n \in 1 .. MaxLen}
  \cup {[p \in 1 .. n |-> IF p = n \div 2 THEN NoPage ELSE 1] : n \in 1 .. 3}

MCWidths == {<<1, 0>>, <<2, 1>>, <<2, 2>>, <<3, 1>>}
=============================================================================
