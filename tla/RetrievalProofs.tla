---------------------------- MODULE RetrievalProofs ----------------------------
(***************************************************************************)
(* For any rows, tenants, requests and parameters: what a query returns is *)
(* the tenant's own, once, in an order unanimous retrievers agree with;    *)
(* no failure of the reranker shortens it; and the context is its longest  *)
(* prefix that was packed, within the budget.                              *)
(***************************************************************************)
EXTENDS Retrieval, FiniteSetTheorems, SequenceTheorems, TLAPS

-----------------------------------------------------------------------------
(* Ordered arranges a finite set.                                          *)

StrictOrder(I, before) ==
  /\ \A i \in I : <<i, i>> \notin before
  /\ \A i, j, k \in I : <<i, j>> \in before /\ <<j, k>> \in before => <<i, k>> \in before
  /\ \A i, j \in I : i # j => <<i, j>> \in before \/ <<j, i>> \in before

LEMMA OrderedArranges ==
  ASSUME NEW I, IsFiniteSet(I), NEW before, StrictOrder(I, before)
  PROVE  /\ Cardinality(I) \in Nat
         /\ Ordered(I, before) \in [1 .. Cardinality(I) -> I]
         /\ \A i \in I : \E k \in 1 .. Cardinality(I) : Ordered(I, before)[k] = i
         /\ \A k, l \in 1 .. Cardinality(I) :
              k < l => <<Ordered(I, before)[k], Ordered(I, before)[l]>> \in before
<1> DEFINE n == Cardinality(I)
           Below(i) == {j \in I : <<j, i>> \in before}
           Rank(i) == Cardinality(Below(i))
           o == Ordered(I, before)
           r == [i \in I |-> Rank(i)]
<1>1. n \in Nat
  BY FS_CardinalityType
<1>2. ASSUME NEW i \in I
      PROVE  IsFiniteSet(Below(i)) /\ Rank(i) \in 0 .. n - 1
  <2>1. Below(i) \in SUBSET I /\ i \notin Below(i)
    BY DEF StrictOrder
  <2>2. /\ IsFiniteSet(Below(i)) /\ Cardinality(Below(i)) <= n
        /\ n = Cardinality(Below(i)) => I = Below(i)
    BY <2>1, FS_Subset
  <2>3. Rank(i) \in Nat
    BY <2>2, FS_CardinalityType
  <2>4. Rank(i) # n
    BY <2>1, <2>2
  <2> QED
    BY <1>1, <2>2, <2>3, <2>4
<1>3. ASSUME NEW i \in I, NEW j \in I, <<i, j>> \in before
      PROVE  Rank(i) < Rank(j)
  <2>1. Below(i) \in SUBSET Below(j) /\ i \in Below(j) /\ i \notin Below(i)
    BY <1>3 DEF StrictOrder
  <2>2. /\ Cardinality(Below(i)) <= Cardinality(Below(j))
        /\ Cardinality(Below(j)) = Cardinality(Below(i)) => Below(j) = Below(i)
    BY <1>2, <2>1, FS_Subset
  <2>3. Rank(i) \in 0 .. n - 1 /\ Rank(j) \in 0 .. n - 1
    BY <1>2
  <2>4. Rank(j) # Rank(i) /\ Rank(i) <= Rank(j)
    BY <2>1, <2>2
  <2> HIDE DEF Rank, n
  <2> QED
    BY <1>1, <2>3, <2>4
<1> HIDE DEF Rank
<1>4. ASSUME NEW i \in I, NEW j \in I, Rank(i) = Rank(j)
      PROVE  i = j
  <2>1. <<i, j>> \notin before /\ <<j, i>> \notin before
    <3>1. Rank(i) \in 0 .. n - 1 /\ Rank(j) \in 0 .. n - 1
      BY <1>2
    <3> QED
      BY <1>3, <1>4, <3>1
  <2> QED
    BY <2>1 DEF StrictOrder
<1>5. ASSUME NEW k \in 1 .. n PROVE \E i \in I : Rank(i) = k - 1
  <2>1. r \in [I -> 0 .. n - 1]
    BY <1>2
  <2>2. r \in Injection(I, 0 .. n - 1)
    BY <1>4, <2>1 DEF Injection, IsInjective
  <2>3. IsFiniteSet(0 .. n - 1) /\ Cardinality(0 .. n - 1) = n
    <3> HIDE DEF n
    <3>1. 0 \in Int /\ n - 1 \in Int /\ (IF 0 > n - 1 THEN 0 ELSE (n - 1) - 0 + 1) = n
      BY <1>1
    <3> QED
      BY <3>1, FS_Interval
  <2>4. r \in Surjection(I, 0 .. n - 1)
    BY <2>2, <2>3, FS_Injection
  <2>5. k - 1 \in 0 .. n - 1
    BY <1>1
  <2> QED
    BY <2>4, <2>5 DEF Surjection
<1>6. o = [k \in 1 .. n |-> CHOOSE i \in I : Rank(i) = k - 1]
  BY DEF Ordered, Rank
<1>7. ASSUME NEW k \in 1 .. n PROVE o[k] \in I /\ Rank(o[k]) = k - 1
  BY <1>5, <1>6
<1> HIDE DEF o, Below
<1>8. o \in [1 .. n -> I]
  BY <1>6, <1>7
<1>9. ASSUME NEW i \in I PROVE \E k \in 1 .. n : o[k] = i
  <2>1. Rank(i) + 1 \in 1 .. n /\ (Rank(i) + 1) - 1 = Rank(i)
    BY <1>1, <1>2
  <2>2. o[Rank(i) + 1] = i
    BY <1>4, <1>7, <2>1
  <2> QED
    BY <2>1, <2>2
<1>10. ASSUME NEW k \in 1 .. n, NEW l \in 1 .. n, k < l
       PROVE  <<o[k], o[l]>> \in before
  <2>1. /\ o[k] \in I /\ Rank(o[k]) = k - 1
        /\ o[l] \in I /\ Rank(o[l]) = l - 1
    BY <1>7
  <2>2. ~(Rank(o[l]) < Rank(o[k])) /\ Rank(o[k]) # Rank(o[l])
    BY <1>10, <2>1
  <2>3. <<o[l], o[k]>> \notin before /\ o[k] # o[l]
    BY <1>3, <2>1, <2>2
  <2> QED
    BY <2>1, <2>3 DEF StrictOrder
<1> QED
  BY <1>1, <1>8, <1>9, <1>10 DEF o

-----------------------------------------------------------------------------
(* The helpers on lists.                                                   *)

\* A list read at other positions, each of them once.
LEMMA AtReads ==
  ASSUME NEW R, NEW s \in Seq(R), NEW n \in Nat, NEW I \in SUBSET (1 .. Len(s)),
         NEW o \in [1 .. n -> I]
  PROVE  /\ At(s, o) \in Seq(R) /\ Len(At(s, o)) = n
         /\ \A k \in 1 .. n : At(s, o)[k] = s[o[k]] /\ o[k] \in I /\ o[k] \in 1 .. Len(s)
<1>1. DOMAIN o = 1 .. n /\ \A k \in 1 .. n : o[k] \in I /\ o[k] \in 1 .. Len(s)
  OBVIOUS
<1>2. At(s, o) = [k \in 1 .. n |-> s[o[k]]]
  BY <1>1 DEF At
<1>3. \A k \in 1 .. n : s[o[k]] \in R
  BY <1>1
<1> QED
  BY <1>1, <1>2, <1>3

LEMMA RangeOf ==
  ASSUME NEW R, NEW s \in Seq(R), NEW x
  PROVE  x \in Range(s) <=> \E i \in 1 .. Len(s) : s[i] = x
BY DEF Range

LEMMA KeepingKeeps ==
  ASSUME NEW R, NEW s \in Seq(R), NEW T
  PROVE  /\ Keeping(s, T) \in Seq(R)
         /\ Range(Keeping(s, T)) = Range(s) \cap T
         /\ IsInjective(s) => IsInjective(Keeping(s, T))
<1> DEFINE I == {i \in DOMAIN s : s[i] \in T}
           before == {p \in I \X I : p[1] < p[2]}
           n == Cardinality(I)
           o == Ordered(I, before)
           t == Keeping(s, T)
<1>1. DOMAIN s = 1 .. Len(s) /\ Len(s) \in Nat
  OBVIOUS
<1>2. I \in SUBSET (1 .. Len(s)) /\ I \in SUBSET Nat
  BY <1>1
<1>3. IsFiniteSet(I)
  <2>1. IsFiniteSet(1 .. Len(s))
    BY <1>1, FS_Interval
  <2> QED
    BY <1>2, <2>1, FS_Subset
<1>4. StrictOrder(I, before)
  <2>1. \A i, j \in I : <<i, j>> \in before <=> i < j
    OBVIOUS
  <2> HIDE DEF before, I
  <2> QED
    BY <1>2, <2>1 DEF StrictOrder
<1>5. /\ n \in Nat /\ o \in [1 .. n -> I]
      /\ \A i \in I : \E k \in 1 .. n : o[k] = i
      /\ \A k, l \in 1 .. n : k < l => <<o[k], o[l]>> \in before
  <2> HIDE DEF before, I
  <2> QED
    BY <1>3, <1>4, OrderedArranges
<1>6. t = At(s, o)
  BY DEF Keeping
<1>7. \A i \in I, j \in I : <<i, j>> \in before => i # j
  BY <1>4 DEF StrictOrder
<1> HIDE DEF o, n, t, before
<1>8. /\ t \in Seq(R) /\ Len(t) = n
      /\ \A k \in 1 .. n : t[k] = s[o[k]] /\ o[k] \in I /\ o[k] \in 1 .. Len(s)
  <2> HIDE DEF I
  <2> QED
    BY <1>2, <1>5, <1>6, AtReads
<1>9. Range(t) = Range(s) \cap T
  <2>1. ASSUME NEW x \in Range(t) PROVE x \in Range(s) /\ x \in T
    <3>1. PICK k \in 1 .. n : t[k] = x
      BY <1>8, RangeOf
    <3>2. s[o[k]] = x /\ o[k] \in I /\ o[k] \in 1 .. Len(s)
      BY <1>8, <3>1
    <3> QED
      BY <3>2, RangeOf
  <2>2. ASSUME NEW x \in Range(s), x \in T PROVE x \in Range(t)
    <3>1. PICK i \in 1 .. Len(s) : s[i] = x
      BY RangeOf
    <3>2. i \in I
      BY <1>1, <2>2, <3>1
    <3>3. PICK k \in 1 .. n : o[k] = i
      BY <1>5, <3>2
    <3>4. t[k] = x
      BY <1>8, <3>1, <3>3
    <3> QED
      BY <1>8, <3>4, RangeOf
  <2> QED
    BY <2>1, <2>2
<1>10. ASSUME IsInjective(s) PROVE IsInjective(t)
  <2>1. DOMAIN t = 1 .. n
    BY <1>8
  <2>2. ASSUME NEW k \in 1 .. n, NEW l \in 1 .. n, t[k] = t[l] PROVE k = l
    <3>1. o[k] = o[l]
      BY <1>1, <1>8, <1>10, <2>2 DEF IsInjective
    <3>2. ~(k < l) /\ ~(l < k)
      BY <1>5, <1>7, <3>1
    <3> QED
      BY <1>5, <3>2
  <2> QED
    BY <2>1, <2>2 DEF IsInjective
<1> QED
  BY <1>8, <1>9, <1>10 DEF t

LEMMA SortedBySorts ==
  ASSUME NEW R, NEW s \in Seq(R), NEW score \in [R -> Int]
  PROVE  /\ SortedBy(s, score) \in Seq(R)
         /\ Len(SortedBy(s, score)) = Len(s)
         /\ Range(SortedBy(s, score)) = Range(s)
         /\ IsInjective(s) => IsInjective(SortedBy(s, score))
         /\ \A k, l \in 1 .. Len(s) :
              k < l => score[SortedBy(s, score)[k]] >= score[SortedBy(s, score)[l]]
<1> DEFINE I == DOMAIN s
           before == {p \in I \X I : \/ score[s[p[1]]] > score[s[p[2]]]
                                     \/ score[s[p[1]]] = score[s[p[2]]] /\ p[1] < p[2]}
           n == Len(s)
           o == Ordered(I, before)
           t == SortedBy(s, score)
<1>1. I = 1 .. n /\ n \in Nat
  OBVIOUS
<1>2. IsFiniteSet(I) /\ Cardinality(I) = n
  <2> HIDE DEF I, n
  <2>1. 1 \in Int /\ n \in Int /\ (IF 1 > n THEN 0 ELSE n - 1 + 1) = n
    BY <1>1
  <2> QED
    BY <1>1, <2>1, FS_Interval
<1>3. \A i, j \in I : <<i, j>> \in before <=>
        (score[s[i]] > score[s[j]] \/ (score[s[i]] = score[s[j]] /\ i < j))
  OBVIOUS
<1>4. \A i \in I : i \in Int /\ score[s[i]] \in Int
  OBVIOUS
<1>5. StrictOrder(I, before)
  <2> HIDE DEF before, I
  <2>1. \A i \in I : <<i, i>> \notin before
    BY <1>3, <1>4
  <2>2. \A i, j \in I : i # j => <<i, j>> \in before \/ <<j, i>> \in before
    BY <1>3, <1>4
  <2>3. ASSUME NEW i \in I, NEW j \in I, NEW k \in I, <<i, j>> \in before, <<j, k>> \in before
        PROVE  <<i, k>> \in before
    BY <1>3, <1>4, <2>3
  <2> QED
    BY <2>1, <2>2, <2>3 DEF StrictOrder
<1>6. /\ o \in [1 .. n -> I]
      /\ \A i \in I : \E k \in 1 .. n : o[k] = i
      /\ \A k, l \in 1 .. n : k < l => <<o[k], o[l]>> \in before
  <2> HIDE DEF before, I, n
  <2> QED
    BY <1>2, <1>5, OrderedArranges
<1>7. t = At(s, o)
  BY DEF SortedBy
<1> HIDE DEF o, t, before
<1>8. /\ t \in Seq(R) /\ Len(t) = n
      /\ \A k \in 1 .. n : t[k] = s[o[k]] /\ o[k] \in I /\ o[k] \in 1 .. Len(s)
  <2>1. I \in SUBSET (1 .. Len(s))
    BY <1>1
  <2>3. n \in Nat /\ o \in [1 .. n -> I]
    BY <1>1, <1>6
  <2> HIDE DEF I, n
  <2>2. /\ At(s, o) \in Seq(R) /\ Len(At(s, o)) = n
        /\ \A k \in 1 .. n : At(s, o)[k] = s[o[k]] /\ o[k] \in I /\ o[k] \in 1 .. Len(s)
    BY <2>1, <2>3, AtReads
  <2> QED
    BY <1>7, <2>2
<1>9. Range(t) = Range(s)
  <2>1. ASSUME NEW x \in Range(t) PROVE x \in Range(s)
    <3>1. PICK k \in 1 .. n : t[k] = x
      BY <1>8, RangeOf
    <3>2. s[o[k]] = x /\ o[k] \in 1 .. Len(s)
      BY <1>8, <3>1
    <3> QED
      BY <3>2, RangeOf
  <2>2. ASSUME NEW x \in Range(s) PROVE x \in Range(t)
    <3>1. PICK i \in 1 .. Len(s) : s[i] = x
      BY RangeOf
    <3>2. PICK k \in 1 .. n : o[k] = i
      BY <1>1, <1>6, <3>1
    <3>3. t[k] = x
      BY <1>8, <3>1, <3>2
    <3> QED
      BY <1>8, <3>3, RangeOf
  <2> QED
    BY <2>1, <2>2
<1>10. ASSUME NEW k \in 1 .. n, NEW l \in 1 .. n, k < l
       PROVE  score[t[k]] >= score[t[l]] /\ o[k] # o[l]
  <2>1. <<o[k], o[l]>> \in before /\ o[k] \in I /\ o[l] \in I
    BY <1>6, <1>10
  <2>2. t[k] = s[o[k]] /\ t[l] = s[o[l]]
    BY <1>8
  <2> HIDE DEF I
  <2>3. \/ score[s[o[k]]] > score[s[o[l]]]
        \/ score[s[o[k]]] = score[s[o[l]]] /\ o[k] < o[l]
    BY <1>3, <2>1
  <2>4. /\ o[k] \in Int /\ o[l] \in Int
        /\ score[s[o[k]]] \in Int /\ score[s[o[l]]] \in Int
    BY <1>4, <2>1
  <2> QED
    BY <2>2, <2>3, <2>4
<1>11. ASSUME IsInjective(s) PROVE IsInjective(t)
  <2>1. DOMAIN t = 1 .. n
    BY <1>8
  <2>2. ASSUME NEW k \in 1 .. n, NEW l \in 1 .. n, t[k] = t[l] PROVE k = l
    <3>1. o[k] = o[l]
      BY <1>8, <1>11, <2>2 DEF IsInjective
    <3>2. ~(k < l) /\ ~(l < k)
      BY <1>10, <3>1
    <3> QED
      BY <1>1, <3>2
  <2> QED
    BY <2>1, <2>2 DEF IsInjective
<1> QED
  BY <1>8, <1>9, <1>10, <1>11 DEF t

\* What has the higher score comes first.
LEMMA HigherComesFirst ==
  ASSUME NEW R, NEW s \in Seq(R), NEW score \in [R -> Int],
         NEW a \in Range(s), NEW b \in Range(s), score[a] > score[b]
  PROVE  Precedes(SortedBy(s, score), a, b)
<1> DEFINE t == SortedBy(s, score)
<1>1. /\ t \in Seq(R) /\ Len(t) = Len(s) /\ Range(t) = Range(s)
      /\ \A k, l \in 1 .. Len(s) : k < l => score[t[k]] >= score[t[l]]
  BY SortedBySorts
<1> HIDE DEF t
<1>2. PICK k, l \in DOMAIN t : t[k] = a /\ t[l] = b
  BY <1>1 DEF Range
<1>3. a \in R /\ b \in R
  BY DEF Range
<1>4. score[a] \in Int /\ score[b] \in Int
  BY <1>3
<1>5. k \in 1 .. Len(s) /\ l \in 1 .. Len(s)
  BY <1>1
<1>6. ~(l < k)
  BY <1>1, <1>2, <1>4, <1>5
<1>7. k # l
  BY <1>2, <1>4
<1>8. k < l
  BY <1>5, <1>6, <1>7
<1> QED
  BY <1>2, <1>8 DEF Precedes, t

\* s[:n] is some first part of s; for n >= 0 as long as n allows.
LEMMA SliceIsPrefix ==
  ASSUME NEW R, NEW s \in Seq(R), NEW n \in Int
  PROVE  /\ Slice(s, n) \in Seq(R)
         /\ Len(Slice(s, n)) \in 0 .. Len(s)
         /\ n >= 0 => Len(Slice(s, n)) = IF n < Len(s) THEN n ELSE Len(s)
         /\ \A i \in 1 .. Len(Slice(s, n)) : Slice(s, n)[i] = s[i]
<1> DEFINE end == IF n < 0 THEN Len(s) + n ELSE n
           m == IF end < Len(s) THEN end ELSE Len(s)
           t == SubSeq(s, 1, m)
<1>1. Len(s) \in Nat /\ m \in Int /\ m <= Len(s) /\ (n >= 0 => m = IF n < Len(s) THEN n ELSE Len(s))
  OBVIOUS
<1>2. Slice(s, n) = t
  BY DEF Slice
<1> HIDE DEF m
<1>3. CASE m >= 0
  BY <1>1, <1>2, <1>3
<1>4. CASE m < 0
  <2>1. t = <<>>
    BY <1>1, <1>4
  <2> QED
    BY <1>1, <1>2, <1>4, <2>1
<1> QED
  BY <1>1, <1>3, <1>4
-----------------------------------------------------------------------------
(* Where a query is, and what its rankings hold.                           *)

Selecting == {"embed", "vector", "bm25", "fetch"}

Progress ==
  /\ pc \in {"embed", "vector"} => rankings = <<>>
  /\ pc = "bm25" => Len(rankings) = 1
  /\ pc \in {"fetch", "rerank", "cut", "pack", "generate", "done"} => Len(rankings) \in {1, 2}
  /\ pc \in Selecting => candidates = <<>>
  /\ pc \in Selecting \cup {"rerank", "cut"} => result = <<>>
  /\ pc \in Selecting \cup {"rerank", "cut"} => parts = <<>> /\ looked = 0 /\ used = 0

\* What a SELECT returned: rows the tenant had then and, since none goes, has now.
Selected(ids) ==
  /\ ids \in Seq(Rows) /\ IsInjective(ids) /\ Len(ids) <= CandidateK
  /\ Range(ids) \subseteq OwnRows(table)

RankingsOwn == \A i \in 1 .. Len(rankings) : Selected(rankings[i])

QInv == TypeOK /\ Progress /\ RankingsOwn

LEMMA QInit == Init => QInv
  BY ParameterAssumption DEF Init, QInv, TypeOK, Progress, RankingsOwn, Selecting

LEMMA Returns == Returned \in {"pack", "done"}
  BY DEF Returned

LEMMA RankingsOfSelect ==
  ASSUME TypeOK, NEW ids \in RankingsOf(OwnRows(table))
  PROVE  Selected(ids)
<1>1. PICK n \in 0 .. CandidateK : ids \in Injection(1 .. n, OwnRows(table))
  BY DEF RankingsOf
<1>2. n \in Nat /\ n <= CandidateK /\ OwnRows(table) \subseteq Rows
  BY ParameterAssumption DEF TypeOK, OwnRows
<1>3. ids \in [1 .. n -> OwnRows(table)] /\ IsInjective(ids)
  BY <1>1 DEF Injection
<1>4. ids \in Seq(OwnRows(table)) /\ Len(ids) = n
  BY <1>2, <1>3
<1>5. ids \in Seq(Rows) /\ Range(ids) \subseteq OwnRows(table)
  BY <1>2, <1>3, <1>4 DEF Range
<1> QED
  BY <1>2, <1>3, <1>4, <1>5 DEF Selected

LEMMA StillSelected ==
  ASSUME UNCHANGED <<req, rankings>>, table \subseteq table', RankingsOwn
  PROVE  RankingsOwn'
BY DEF RankingsOwn, Selected, OwnRows

LEMMA SelectedOne ==
  ASSUME NEW ids, Selected(ids), UNCHANGED <<req, table>>, rankings' = <<ids>>
  PROVE  rankings' \in Seq(Seq(Rows)) /\ RankingsOwn' /\ Len(rankings') = 1
<1>1. ids \in Seq(Rows)
  BY DEF Selected
<1>2. Selected(ids)'
  BY DEF Selected, OwnRows
<1>3. rankings' \in Seq(Seq(Rows)) /\ Len(rankings') = 1 /\ rankings'[1] = ids
  BY <1>1
<1>4. \A i \in 1 .. Len(rankings') : rankings'[i] = ids
  BY <1>3
<1> QED
  BY <1>2, <1>3, <1>4 DEF RankingsOwn

LEMMA AppendedSecond ==
  ASSUME NEW S, NEW s \in Seq(S), Len(s) = 1, NEW x \in S
  PROVE  /\ Append(s, x) \in Seq(S) /\ Len(Append(s, x)) = 2
         /\ Append(s, x)[1] = s[1] /\ Append(s, x)[2] = x
<1>1. Append(s, x) \in Seq(S)
  BY AppendProperties
<1>2. Len(Append(s, x)) = Len(s) + 1
  BY AppendProperties
<1>3. Append(s, x)[1] = s[1]
  BY AppendProperties
<1>4. Append(s, x)[Len(s) + 1] = x
  BY AppendProperties
<1>5. Len(s) + 1 = 2
  OBVIOUS
<1> QED
  BY <1>1, <1>2, <1>3, <1>4, <1>5

LEMMA SelectedTwo ==
  ASSUME NEW ids, Selected(ids), UNCHANGED <<req, table>>, rankings' = Append(rankings, ids),
         rankings \in Seq(Seq(Rows)), Len(rankings) = 1, RankingsOwn
  PROVE  rankings' \in Seq(Seq(Rows)) /\ RankingsOwn' /\ Len(rankings') = 2
<1>1. ids \in Seq(Rows)
  BY DEF Selected
<1>2. \A s : Selected(s)' <=> Selected(s)
  BY DEF Selected, OwnRows
<1>3. /\ rankings' \in Seq(Seq(Rows)) /\ Len(rankings') = 2
      /\ rankings'[1] = rankings[1] /\ rankings'[2] = ids
  BY <1>1, AppendedSecond
<1>4. Selected(rankings[1])
  BY DEF RankingsOwn
<1>5. \A i \in 1 .. Len(rankings') : rankings'[i] = ids \/ rankings'[i] = rankings[1]
  BY <1>3
<1> QED
  BY <1>2, <1>3, <1>4, <1>5 DEF RankingsOwn

-----------------------------------------------------------------------------
(* The scores.                                                             *)

LEMMA DivisionIsExact ==
  ASSUME NEW s \in Nat \ {0}, NEW m \in Nat \ {0}, NEW n \in Nat \ {0}, m < n,
         s % m = 0, s % n = 0
  PROVE  s \div m > s \div n
<1> DEFINE q == s \div m
           p == s \div n
<1>1. q \in Nat /\ p \in Nat /\ s = m * q /\ s = n * p
  OBVIOUS
<1> HIDE DEF p, q
<1>2. p > 0
  BY <1>1
<1>3. n * p > m * p
  BY <1>1, <1>2
<1>4. ~(q <= p)
  <2>1. SUFFICES ASSUME q <= p PROVE FALSE
    OBVIOUS
  <2>2. m * q <= m * p
    BY <1>1, <2>1
  <2> QED
    BY <1>1, <1>3, <2>2
<1> QED
  BY <1>1, <1>4 DEF p, q

LEMMA DivisionFalls ==
  ASSUME NEW s \in Nat, NEW m \in Nat \ {0}, NEW n \in Nat \ {0}, m <= n
  PROVE  s \div m >= s \div n /\ s \div n \in Nat
<1> DEFINE q == s \div m
           p == s \div n
<1>1. q \in Nat /\ p \in Nat /\ s < m * (q + 1) /\ n * p <= s
  OBVIOUS
<1> HIDE DEF p, q
<1>2. ~(q < p)
  <2>1. SUFFICES ASSUME q < p PROVE FALSE
    OBVIOUS
  <2>2. q + 1 <= p
    BY <1>1, <2>1
  <2>3. m * (q + 1) <= m * p
    BY <1>1, <2>2
  <2>4. m * p <= n * p
    BY <1>1
  <2> QED
    BY <1>1, <2>3, <2>4
<1> QED
  BY <1>1, <1>2 DEF p, q

LEMMA ProductsArePositive ==
  ASSUME NEW m \in Nat \ {0}, NEW n \in Nat \ {0}
  PROVE  m * n \in Nat \ {0}
OBVIOUS

PlaceOf(s, r) == CHOOSE i \in DOMAIN s : s[i] = r

LEMMA PointsAre ==
  ASSUME NEW s, Selected(s), NEW r
  PROVE  /\ Points(s, r) \in Nat
         /\ r \notin Range(s) => Points(s, r) = 0
         /\ r \in Range(s) => /\ PlaceOf(s, r) \in 1 .. Len(s) /\ s[PlaceOf(s, r)] = r
                              /\ Points(s, r) = Scale \div (RrfK + (PlaceOf(s, r) - 1))
<1>1. s \in Seq(Rows) /\ Len(s) \in Nat
  BY DEF Selected
<1>2. CASE r \notin Range(s)
  BY <1>2 DEF Points
<1>3. CASE r \in Range(s)
  <2>1. \E i \in DOMAIN s : s[i] = r
    BY <1>3 DEF Range
  <2>2. PlaceOf(s, r) \in DOMAIN s /\ s[PlaceOf(s, r)] = r
    BY <2>1 DEF PlaceOf
  <2>3. PlaceOf(s, r) \in 1 .. Len(s)
    BY <1>1, <2>2
  <2>4. Points(s, r) = Scale \div (RrfK + (PlaceOf(s, r) - 1))
    BY <1>3 DEF Points, PlaceOf
  <2>5. RrfK + (PlaceOf(s, r) - 1) \in Nat \ {0}
    BY <1>1, <2>3, ParameterAssumption
  <2>6. Points(s, r) \in Nat
    BY <2>4, <2>5, ScaleAssumption, DivisionFalls
  <2> QED
    BY <1>3, <2>2, <2>3, <2>4, <2>6
<1> QED
  BY <1>2, <1>3

\* The earlier of two rows of a ranking has more points.
LEMMA PointsFall ==
  ASSUME NEW s, Selected(s), NEW a, NEW b, Precedes(s, a, b)
  PROVE  /\ a \in Range(s) /\ b \in Range(s)
         /\ Points(s, a) > Points(s, b)
<1>1. s \in Seq(Rows) /\ IsInjective(s) /\ Len(s) \in Nat /\ Len(s) <= CandidateK
  BY DEF Selected
<1>2. PICK i, j \in DOMAIN s : i < j /\ s[i] = a /\ s[j] = b
  BY DEF Precedes
<1>3. a \in Range(s) /\ b \in Range(s)
  BY <1>2 DEF Range
<1>4. PlaceOf(s, a) = i /\ PlaceOf(s, b) = j
  BY <1>1, <1>2 DEF IsInjective, PlaceOf
<1>5. /\ Points(s, a) = Scale \div (RrfK + (i - 1))
      /\ Points(s, b) = Scale \div (RrfK + (j - 1))
  BY <1>3, <1>4, PointsAre
<1>6. i \in 1 .. Len(s) /\ j \in 1 .. Len(s) /\ i < j
  BY <1>1, <1>2
<1>7. i - 1 \in 0 .. CandidateK - 1 /\ j - 1 \in 0 .. CandidateK - 1
  BY <1>1, <1>6, ParameterAssumption
<1>8. Scale % (RrfK + (i - 1)) = 0 /\ Scale % (RrfK + (j - 1)) = 0
  BY <1>7, ScaleAssumption
<1>9. /\ RrfK + (i - 1) \in Nat \ {0} /\ RrfK + (j - 1) \in Nat \ {0}
      /\ RrfK + (i - 1) < RrfK + (j - 1)
  <2>1. RrfK \in Nat \ {0}
    BY ParameterAssumption
  <2> QED
    BY <1>1, <1>6, <2>1
<1> QED
  BY <1>3, <1>5, <1>8, <1>9, ScaleAssumption, DivisionIsExact

\* The first part of a list without repetitions has none either.
LEMMA PrefixKeeps ==
  ASSUME NEW R, NEW s \in Seq(R), NEW t \in Seq(R), Len(t) <= Len(s),
         \A i \in 1 .. Len(t) : t[i] = s[i]
  PROVE  /\ Range(t) \subseteq Range(s)
         /\ IsInjective(s) => IsInjective(t)
<1>1. /\ DOMAIN t = 1 .. Len(t) /\ DOMAIN s = 1 .. Len(s)
      /\ Len(s) \in Nat /\ Len(t) \in Nat
  OBVIOUS
<1>2. 1 .. Len(t) \subseteq 1 .. Len(s)
  BY <1>1
<1>3. Range(t) \subseteq Range(s)
  BY <1>1, <1>2 DEF Range
<1>4. ASSUME IsInjective(s) PROVE IsInjective(t)
  BY <1>1, <1>2, <1>4 DEF IsInjective
<1> QED
  BY <1>3, <1>4

-----------------------------------------------------------------------------
(* Fusion.                                                                 *)

\* What some retriever found.
Found == {r \in Rows : \E i \in 1 .. Len(rankings) : r \in Range(rankings[i])}

LEMMA EachRankingOnce ==
  ASSUME RankingsOwn, TypeOK, NEW i \in 1 .. Len(rankings)
  PROVE  /\ rankings[i] \in Seq(Rows) /\ IsInjective(rankings[i]) /\ Selected(rankings[i])
         /\ Range(rankings[i]) \subseteq OwnRows(table) /\ Range(rankings[i]) \subseteq Rows
BY DEF RankingsOwn, Selected, TypeOK, OwnRows

LEMMA FoundAreOwn ==
  ASSUME RankingsOwn, TypeOK
  PROVE  Found \subseteq OwnRows(table)
BY EachRankingOnce DEF Found

LEMMA ConcatOnce ==
  ASSUME NEW R, NEW s \in Seq(R), NEW t \in Seq(R), IsInjective(s), IsInjective(t),
         \A r \in Range(t) : r \notin Range(s)
  PROVE  IsInjective(s \o t)
<1> DEFINE u == s \o t
           m == Len(s)
           n == Len(t)
<1>1. /\ Len(u) = m + n /\ u \in Seq(R)
      /\ \A i \in 1 .. m + n : u[i] = IF i <= m THEN s[i] ELSE t[i - m]
  BY ConcatProperties
<1>2. m \in Nat /\ n \in Nat /\ DOMAIN s = 1 .. m /\ DOMAIN t = 1 .. n
  OBVIOUS
<1>3. DOMAIN u = 1 .. m + n
  BY <1>1
<1> HIDE DEF m, n, u
<1>4. ASSUME NEW i \in 1 .. m PROVE u[i] = s[i] /\ s[i] \in Range(s)
  <2>1. i \in 1 .. m + n /\ i <= m
    BY <1>2
  <2> QED
    BY <1>1, <1>2, <2>1 DEF Range
<1>5. ASSUME NEW i \in 1 .. m + n, ~(i <= m)
      PROVE  i - m \in 1 .. n /\ u[i] = t[i - m] /\ t[i - m] \in Range(t)
  <2>1. i - m \in 1 .. n
    BY <1>2, <1>5
  <2> QED
    BY <1>1, <1>2, <1>5, <2>1 DEF Range
<1>6. ASSUME NEW i \in 1 .. m + n, NEW j \in 1 .. m + n, u[i] = u[j] PROVE i = j
  <2>1. CASE i <= m /\ j <= m
    <3>1. i \in 1 .. m /\ j \in 1 .. m
      BY <1>2, <2>1
    <3> QED
      BY <1>2, <1>4, <1>6, <3>1 DEF IsInjective
  <2>2. CASE i <= m /\ ~(j <= m)
    <3>1. i \in 1 .. m
      BY <1>2, <2>2
    <3> QED
      BY <1>4, <1>5, <1>6, <2>2, <3>1
  <2>3. CASE ~(i <= m) /\ j <= m
    <3>1. j \in 1 .. m
      BY <1>2, <2>3
    <3> QED
      BY <1>4, <1>5, <1>6, <2>3, <3>1
  <2>4. CASE ~(i <= m) /\ ~(j <= m)
    <3>1. i - m = j - m
      BY <1>2, <1>5, <1>6, <2>4 DEF IsInjective
    <3> QED
      BY <1>2, <3>1
  <2> QED
    BY <2>1, <2>2, <2>3, <2>4
<1> QED
  BY <1>3, <1>6 DEF IsInjective, u

\* The dict of scores holds every row found, once.
LEMMA InsertionOrderHolds ==
  ASSUME RankingsOwn, TypeOK, Len(rankings) \in {1, 2}
  PROVE  /\ InsertionOrder \in Seq(Rows) /\ IsInjective(InsertionOrder)
         /\ Range(InsertionOrder) = Found
<1>1. CASE Len(rankings) = 1
  <2>1. 1 \in 1 .. Len(rankings) /\ \A i \in 1 .. Len(rankings) : i = 1
    BY <1>1
  <2>2. InsertionOrder = rankings[1]
    BY <1>1 DEF InsertionOrder
  <2> QED
    BY <2>1, <2>2, EachRankingOnce DEF Found
<1>2. CASE Len(rankings) = 2
  <2>1. 1 \in 1 .. Len(rankings) /\ 2 \in 1 .. Len(rankings)
        /\ \A i \in 1 .. Len(rankings) : i = 1 \/ i = 2
    BY <1>2
  <2> DEFINE s == rankings[1]
             more == Keeping(rankings[2], Rows \ Range(s))
  <2>2. InsertionOrder = s \o more
    BY <1>2 DEF InsertionOrder
  <2>3. /\ s \in Seq(Rows) /\ IsInjective(s) /\ Range(s) \subseteq Rows
        /\ rankings[2] \in Seq(Rows) /\ IsInjective(rankings[2]) /\ Range(rankings[2]) \subseteq Rows
    BY <2>1, EachRankingOnce
  <2>4. /\ more \in Seq(Rows) /\ IsInjective(more)
        /\ Range(more) = Range(rankings[2]) \cap (Rows \ Range(s))
    BY <2>3, KeepingKeeps
  <2> HIDE DEF s, more
  <2>5. s \o more \in Seq(Rows) /\ Range(s \o more) = Range(s) \cup Range(more)
    BY <2>3, <2>4, ConcatProperties, RangeConcatenation
  <2>6. \A r \in Range(more) : r \notin Range(s)
    BY <2>4
  <2>7. IsInjective(s \o more)
    BY <2>3, <2>4, <2>6, ConcatOnce
  <2>8. Range(s) \cup Range(more) = Range(s) \cup Range(rankings[2])
    BY <2>3, <2>4
  <2>9. Found = Range(s) \cup Range(rankings[2])
    BY <2>1, <2>3 DEF Found, s
  <2> QED
    BY <2>2, <2>5, <2>7, <2>8, <2>9
<1> QED
  BY <1>1, <1>2

LEMMA ScoresAreNumbers ==
  ASSUME RankingsOwn, TypeOK, Len(rankings) \in {1, 2}, NEW r \in Rows
  PROVE  Fused(r) \in Nat /\ Boost(r) \in Nat
<1>1. ASSUME Len(rankings) = 1 PROVE Fused(r) \in Nat
  <2>1. 1 \in 1 .. Len(rankings)
    BY <1>1
  <2>2. Points(rankings[1], r) \in Nat
    BY <2>1, EachRankingOnce, PointsAre
  <2> QED
    BY <1>1, <2>2 DEF Fused
<1>2. ASSUME Len(rankings) = 2 PROVE Fused(r) \in Nat
  <2>1. 1 \in 1 .. Len(rankings) /\ 2 \in 1 .. Len(rankings)
    BY <1>2
  <2>2. Points(rankings[1], r) \in Nat /\ Points(rankings[2], r) \in Nat
    BY <2>1, EachRankingOnce, PointsAre
  <2> QED
    BY <1>2, <2>2 DEF Fused
<1>3. Boost(r) \in Nat
  <2>1. RrfK \in Nat \ {0} /\ Decay[r] \in Nat \ {0}
    BY ParameterAssumption
  <2>2. 2 * RrfK \in Nat \ {0}
    BY <2>1
  <2>3. (2 * RrfK) * Decay[r] \in Nat \ {0}
    BY <2>1, <2>2, ProductsArePositive
  <2>4. Scale \div (2 * RrfK * Decay[r]) \in Nat
    BY <2>3, ScaleAssumption, DivisionFalls
  <2> QED
    BY <2>4 DEF Boost
<1> QED
  BY <1>1, <1>2, <1>3

\* A row both retrievers put first has more points.
LEMMA FusedRespects ==
  ASSUME RankingsOwn, TypeOK, Len(rankings) \in {1, 2}, NEW a \in Rows, NEW b \in Rows,
         ClearlyBetter(a, b)
  PROVE  a \in Found /\ b \in Found /\ Fused(a) > Fused(b)
<1> DEFINE I == 1 .. Len(rankings)
<1>1. DOMAIN rankings = I /\ 1 \in I
  <2>1. rankings \in Seq(Seq(Rows))
    BY DEF TypeOK
  <2>2. DOMAIN rankings = I
    BY <2>1, LenProperties
  <2> QED
    BY <2>2
<1>2. ASSUME NEW i \in I
      PROVE  /\ Points(rankings[i], a) \in Nat /\ Points(rankings[i], b) \in Nat
             /\ Points(rankings[i], a) >= Points(rankings[i], b)
             /\ Precedes(rankings[i], a, b) =>
                  /\ a \in Range(rankings[i]) /\ b \in Range(rankings[i])
                  /\ Points(rankings[i], a) > Points(rankings[i], b)
  <2>1. Selected(rankings[i])
    BY EachRankingOnce
  <2>2. Points(rankings[i], a) \in Nat /\ Points(rankings[i], b) \in Nat
    BY <2>1, PointsAre
  <2>3. CASE b \in Range(rankings[i])
    <3>1. Precedes(rankings[i], a, b)
      BY <1>1, <2>3 DEF ClearlyBetter
    <3> QED
      BY <2>1, <2>2, <3>1, PointsFall
  <2>4. CASE b \notin Range(rankings[i])
    <3>1. Points(rankings[i], b) = 0
      BY <2>1, <2>4, PointsAre
    <3>2. ~Precedes(rankings[i], a, b)
      BY <2>4 DEF Precedes, Range
    <3> QED
      BY <2>2, <3>1, <3>2
  <2> QED
    BY <2>3, <2>4
<1>3. PICK i \in I : Precedes(rankings[i], a, b)
  BY <1>1 DEF ClearlyBetter
<1>4. a \in Found /\ b \in Found
  BY <1>2, <1>3 DEF Found
<1>5. CASE Len(rankings) = 1
  <2>1. i = 1
    BY <1>5
  <2> QED
    BY <1>2, <1>3, <1>4, <1>5, <2>1 DEF Fused
<1>6. CASE Len(rankings) = 2
  <2> DEFINE x == Points(rankings[1], a)
             y == Points(rankings[1], b)
             z == Points(rankings[2], a)
             w == Points(rankings[2], b)
  <2>1. 2 \in I /\ (i = 1 \/ i = 2)
    BY <1>6
  <2>2. /\ x \in Nat /\ y \in Nat /\ z \in Nat /\ w \in Nat
        /\ x >= y /\ z >= w
        /\ x > y \/ z > w
    BY <1>1, <1>2, <1>3, <2>1
  <2>3. Fused(a) = x + z /\ Fused(b) = y + w
    BY <1>6 DEF Fused
  <2> HIDE DEF x, y, z, w
  <2>4. x + z > y + w
    BY <2>2
  <2> QED
    BY <1>4, <2>3, <2>4
<1> QED
  BY <1>5, <1>6

\* A fresher row has the greater boost.
LEMMA BoostFalls ==
  ASSUME NEW a \in Rows, NEW b \in Rows, Decay[a] <= Decay[b]
  PROVE  Boost(a) >= Boost(b)
<1>1. RrfK \in Nat \ {0} /\ Decay[a] \in Nat \ {0} /\ Decay[b] \in Nat \ {0}
  BY ParameterAssumption
<1>2. 2 * RrfK \in Nat \ {0}
  BY <1>1
<1>3. (2 * RrfK) * Decay[a] \in Nat \ {0} /\ (2 * RrfK) * Decay[b] \in Nat \ {0}
  BY <1>1, <1>2, ProductsArePositive
<1>4. (2 * RrfK) * Decay[a] <= (2 * RrfK) * Decay[b]
  BY <1>1
<1>5. Scale \div (2 * RrfK * Decay[a]) >= Scale \div (2 * RrfK * Decay[b])
  BY <1>3, <1>4, ScaleAssumption, DivisionFalls
<1> QED
  BY <1>5 DEF Boost

\* Before the cut, a row with more points comes earlier: it survives with the other.
LEMMA CandidateIdsHold ==
  ASSUME RankingsOwn, TypeOK, Len(rankings) \in {1, 2}
  PROVE  /\ CandidateIds \in Seq(Rows) /\ IsInjective(CandidateIds)
         /\ Range(CandidateIds) \subseteq Found
         /\ \A a \in Found, b \in Range(CandidateIds) :
              Fused(a) > Fused(b) => a \in Range(CandidateIds)
<1> DEFINE score == [r \in Rows |-> Fused(r)]
           s == SortedBy(InsertionOrder, score)
           t == CandidateIds
<1>1. score \in [Rows -> Int]
  BY ScoresAreNumbers
<1>2. /\ InsertionOrder \in Seq(Rows) /\ IsInjective(InsertionOrder)
      /\ Range(InsertionOrder) = Found
  BY InsertionOrderHolds
<1>3. \A r \in Rows : score[r] = Fused(r)
  OBVIOUS
<1>4. t = Slice(s, CandidateK)
  BY DEF CandidateIds
<1> HIDE DEF score
<1>5. s \in Seq(Rows) /\ Range(s) = Found /\ IsInjective(s)
  BY <1>1, <1>2, SortedBySorts
<1>6. ASSUME NEW a \in Found, NEW b \in Found, Fused(a) > Fused(b) PROVE Precedes(s, a, b)
  <2>1. a \in Rows /\ b \in Rows
    BY DEF Found
  <2>2. score[a] > score[b] /\ a \in Range(InsertionOrder) /\ b \in Range(InsertionOrder)
    BY <1>2, <1>3, <1>6, <2>1
  <2> QED
    BY <1>1, <1>2, <2>2, HigherComesFirst
<1> HIDE DEF s, t
<1>7. /\ t \in Seq(Rows) /\ Len(t) \in 0 .. Len(s)
      /\ \A i \in 1 .. Len(t) : t[i] = s[i]
  <2>1. CandidateK \in Int
    BY ParameterAssumption
  <2> QED
    BY <1>4, <1>5, <2>1, SliceIsPrefix
<1>8. Range(t) \subseteq Range(s) /\ IsInjective(t)
  BY <1>5, <1>7, PrefixKeeps
<1>9. ASSUME NEW a \in Found, NEW b \in Range(t), Fused(a) > Fused(b) PROVE a \in Range(t)
  <2>1. PICK j \in 1 .. Len(t) : t[j] = b
    BY <1>7, RangeOf
  <2>2. j \in 1 .. Len(s) /\ s[j] = b /\ b \in Found /\ Len(s) \in Nat
    BY <1>5, <1>7, <1>8, <2>1
  <2>3. PICK i, k \in DOMAIN s : i < k /\ s[i] = a /\ s[k] = b
    BY <1>6, <1>9, <2>2 DEF Precedes
  <2>4. k = j /\ DOMAIN s = 1 .. Len(s)
    BY <1>5, <2>2, <2>3 DEF IsInjective
  <2>5. i \in 1 .. Len(t)
    BY <1>7, <2>1, <2>2, <2>3, <2>4
  <2>6. t[i] = a
    BY <1>7, <2>3, <2>5
  <2> QED
    BY <1>7, <2>5, <2>6, RangeOf
<1> QED
  BY <1>5, <1>7, <1>8, <1>9 DEF t

-----------------------------------------------------------------------------
(* The fetch, and the cut to top_k.                                        *)

LEMMA FetchedRows ==
  ASSUME QInv, FetchRows
  PROVE  /\ candidates' \in Seq(Rows) /\ IsInjective(candidates')
         /\ Range(candidates') = Range(CandidateIds)
         /\ Range(candidates') \subseteq Found /\ Range(candidates') \subseteq OwnRows(table)
         /\ \A a, b \in Range(candidates') :
              Fused(a) + Boost(a) > Fused(b) + Boost(b) => Precedes(candidates', a, b)
<1> DEFINE score == [r \in Rows |-> Fused(r) + Boost(r)]
           s == Keeping(CandidateIds, OwnRows(table))
<1>1. RankingsOwn /\ TypeOK /\ Len(rankings) \in {1, 2}
  BY DEF QInv, FetchRows, Progress
<1>2. score \in [Rows -> Int]
  BY <1>1, ScoresAreNumbers
<1>3. /\ CandidateIds \in Seq(Rows) /\ IsInjective(CandidateIds)
      /\ Range(CandidateIds) \subseteq Found
  BY <1>1, CandidateIdsHold
<1>4. Found \subseteq OwnRows(table)
  BY <1>1, FoundAreOwn
<1>5. /\ s \in Seq(Rows) /\ IsInjective(s)
      /\ Range(s) = Range(CandidateIds) \cap OwnRows(table)
  BY <1>3, KeepingKeeps
<1>6. Range(s) = Range(CandidateIds)
  BY <1>3, <1>4, <1>5
<1>7. candidates' = SortedBy(s, score)
  BY DEF FetchRows
<1>8. \A r \in Rows : score[r] = Fused(r) + Boost(r)
  OBVIOUS
<1> HIDE DEF s, score
<1>9. /\ candidates' \in Seq(Rows) /\ IsInjective(candidates')
      /\ Range(candidates') = Range(s)
  BY <1>2, <1>5, <1>7, SortedBySorts
<1>10. ASSUME NEW a \in Range(candidates'), NEW b \in Range(candidates'),
              Fused(a) + Boost(a) > Fused(b) + Boost(b)
       PROVE  Precedes(candidates', a, b)
  <2>1. a \in Range(s) /\ b \in Range(s) /\ a \in Rows /\ b \in Rows
    BY <1>3, <1>6, <1>9 DEF Found
  <2>2. score[a] > score[b]
    BY <1>8, <1>10, <2>1
  <2> QED
    BY <1>2, <1>5, <1>7, <2>1, <2>2, HigherComesFirst
<1> QED
  BY <1>3, <1>4, <1>6, <1>9, <1>10

LEMMA MinOfTwo ==
  ASSUME NEW m \in Int, NEW n \in Int
  PROVE  Min({m, n}) = IF m < n THEN m ELSE n
<1> DEFINE least == IF m < n THEN m ELSE n
<1>1. least \in {m, n} /\ \A y \in {m, n} : least <= y
  OBVIOUS
<1>2. \A x \in {m, n} : (\A y \in {m, n} : x <= y) => x = least
  OBVIOUS
<1>3. Min({m, n}) = CHOOSE x \in {m, n} : \A y \in {m, n} : x <= y
  BY DEF Min
<1> HIDE DEF least
<1>4. Min({m, n}) = least
  BY <1>1, <1>2, <1>3
<1> QED
  BY <1>4 DEF least

\* What retrieve may return of its candidates.
CutOf(s) ==
  /\ s \in Seq(Rows)
  /\ Range(s) \subseteq Range(candidates)
  /\ IsInjective(candidates) => IsInjective(s)
  /\ req.topK >= 0 => Len(s) = Min({req.topK, Len(candidates)})

LEMMA SliceCuts ==
  ASSUME NEW s \in Seq(Rows), candidates \in Seq(Rows), req.topK \in Int,
         Range(s) \subseteq Range(candidates), IsInjective(candidates) => IsInjective(s),
         Len(s) = Len(candidates) \/ (req.topK >= 0 => Len(s) = Min({req.topK, Len(candidates)}))
  PROVE  CutOf(Slice(s, req.topK))
<1> DEFINE t == Slice(s, req.topK)
<1>1. /\ t \in Seq(Rows) /\ Len(t) \in 0 .. Len(s)
      /\ req.topK >= 0 => Len(t) = IF req.topK < Len(s) THEN req.topK ELSE Len(s)
      /\ \A i \in 1 .. Len(t) : t[i] = s[i]
  BY SliceIsPrefix
<1> HIDE DEF t
<1>2. Len(s) \in Nat /\ Len(candidates) \in Nat
  OBVIOUS
<1>3. Range(t) \subseteq Range(s) /\ (IsInjective(s) => IsInjective(t))
  <2>1. Len(t) <= Len(s)
    BY <1>1, <1>2
  <2> QED
    BY <1>1, <2>1, PrefixKeeps
<1>4. ASSUME req.topK >= 0 PROVE Len(t) = Min({req.topK, Len(candidates)})
  <2>1. Min({req.topK, Len(candidates)}) = IF req.topK < Len(candidates) THEN req.topK ELSE Len(candidates)
    BY <1>2, MinOfTwo
  <2> QED
    BY <1>1, <1>2, <1>4, <2>1
<1> QED
  BY <1>1, <1>3, <1>4 DEF CutOf, t

LEMMA TopKIsInteger ==
  ASSUME TypeOK
  PROVE  candidates \in Seq(Rows) /\ req.topK \in Int
BY ParameterAssumption DEF TypeOK, Request

LEMMA CutCuts ==
  ASSUME TypeOK, Cut
  PROVE  CutOf(result')
BY TopKIsInteger, SliceCuts DEF Cut

LEMMA PassThroughCuts ==
  ASSUME TypeOK, PassThrough
  PROVE  CutOf(result')
<1> DEFINE keep == IF req.topK < Len(candidates) THEN req.topK ELSE Len(candidates)
           s == SubSeq(candidates, 1, keep)
<1>1. candidates \in Seq(Rows) /\ req.topK \in Int
  BY TopKIsInteger
<1>2. result' = Slice(s, req.topK)
  BY DEF PassThrough
<1>3. CASE req.topK >= 0
  <2>1. s = Slice(candidates, req.topK)
    BY <1>1, <1>3 DEF Slice
  <2>2. CutOf(s)
    BY <1>1, <2>1, SliceCuts
  <2> HIDE DEF s
  <2> QED
    BY <1>1, <1>2, <2>2, SliceCuts DEF CutOf
<1>4. CASE req.topK < 0
  <2>1. s = <<>>
    BY <1>1, <1>4
  <2>2. <<>> \in Seq(Rows) /\ Range(<<>>) \subseteq Range(candidates) /\ IsInjective(<<>>)
    BY DEF Range, IsInjective
  <2>3. ~(req.topK >= 0)
    BY <1>1, <1>4
  <2> HIDE DEF s
  <2> QED
    BY <1>1, <1>2, <2>1, <2>2, <2>3, SliceCuts
<1> QED
  BY <1>1, <1>3, <1>4

LEMMA RerankCuts ==
  ASSUME TypeOK, Rerank
  PROVE  CutOf(result')
<1>1. candidates \in Seq(Rows) /\ req.topK \in Int
  BY TopKIsInteger
<1>2. PICK order \in RerankerOrders :
        result' = Slice(Slice([i \in DOMAIN order |-> candidates[order[i]]], req.topK), req.topK)
  BY DEF Rerank
<1> DEFINE s == [i \in DOMAIN order |-> candidates[order[i]]]
           n == Len(candidates)
<1>3. n \in Nat /\ DOMAIN candidates = 1 .. n
  BY <1>1
<1>4. order \in [1 .. n -> 1 .. n] /\ IsInjective(order)
  <2>1. order \in Injection(DOMAIN candidates, DOMAIN candidates)
    BY DEF RerankerOrders, Bijection
  <2> QED
    BY <1>3, <2>1 DEF Injection
<1>5. s = [i \in 1 .. n |-> candidates[order[i]]] /\ \A i \in 1 .. n : order[i] \in 1 .. n
  BY <1>4
<1>6. s \in Seq(Rows) /\ Len(s) = n
  BY <1>1, <1>3, <1>5
<1>7. Range(s) \subseteq Range(candidates)
  BY <1>3, <1>5 DEF Range
<1>8. IsInjective(candidates) => IsInjective(s)
  BY <1>3, <1>4, <1>5 DEF IsInjective
<1> HIDE DEF s, n
<1>9. CutOf(Slice(s, req.topK))
  BY <1>1, <1>6, <1>7, <1>8, SliceCuts DEF n
<1>10. CutOf(Slice(Slice(s, req.topK), req.topK))
  BY <1>1, <1>9, SliceCuts DEF CutOf
<1> QED
  BY <1>2, <1>10 DEF s

-----------------------------------------------------------------------------
(* The context.                                                            *)

LEMMA PackedCosts ==
  ASSUME QInv, Pack
  PROVE  \E cost \in Nat :
           /\ used + cost <= Budget
           /\ parts' = Append(parts, [row |-> result[looked + 1], cost |-> cost])
           /\ used' = used + cost
           /\ [row |-> result[looked + 1], cost |-> cost] \in [row : Rows, cost : Nat]
           /\ looked + 1 \in 1 .. Len(result)
<1>1. looked + 1 \in 1 .. Len(result) /\ result \in Seq(Rows)
  BY DEF QInv, TypeOK, Pack
<1> DEFINE r == result[looked + 1]
<1>2. r \in Rows
  BY <1>1
<1>3. TextCosts(r) \subseteq Nat
  <2>1. Tokens[r] \in Nat
    BY <1>2, ParameterAssumption
  <2> QED
    BY <2>1 DEF TextCosts
<1>4. PICK body \in TextCosts(r) :
        /\ Packs(Citation + body)
        /\ parts' = Append(parts, [row |-> r, cost |-> Citation + body])
        /\ used' = used + (Citation + body)
  BY DEF Pack
<1>5. Citation + body \in Nat
  BY <1>3, ParameterAssumption
<1> HIDE DEF r
<1>6. [row |-> r, cost |-> Citation + body] \in [row : Rows, cost : Nat]
  BY <1>2, <1>5
<1> QED
  BY <1>1, <1>4, <1>5, <1>6 DEF r, Packs

-----------------------------------------------------------------------------
(* The invariant.                                                          *)

LEMMA QuietKeepsRankings ==
  ASSUME QInv, UNCHANGED <<req, rankings, table>>
  PROVE  RankingsOwn'
BY StillSelected DEF QInv

LEMMA QStep == QInv /\ [Next]_vars => QInv'
<1> SUFFICES ASSUME QInv, [Next]_vars PROVE QInv'
  OBVIOUS
<1> USE DEF QInv
<1>1. CASE Replicate
  <2>1. table \subseteq table' /\ table' \subseteq Rows
    BY <1>1 DEF Replicate, TypeOK
  <2>2. RankingsOwn'
    BY <1>1, <2>1, StillSelected DEF Replicate
  <2>3. Progress'
    BY <1>1 DEF Replicate, Progress
  <2>4. TypeOK'
    BY <1>1, <2>1 DEF Replicate, TypeOK
  <2> QED
    BY <2>2, <2>3, <2>4
<1>2. CASE Embed
  <2>1. Progress' /\ TypeOK'
    BY <1>2 DEF Embed, Progress, TypeOK, Selecting
  <2>2. RankingsOwn'
    BY <1>2, QuietKeepsRankings DEF Embed
  <2> QED
    BY <2>1, <2>2
<1>3. CASE VectorIds
  <2>1. PICK ids \in RankingsOf(OwnRows(table)) : rankings' = <<ids>>
    BY <1>3 DEF VectorIds
  <2>2. Selected(ids)
    BY <2>1, RankingsOfSelect
  <2>3. rankings' \in Seq(Seq(Rows)) /\ RankingsOwn' /\ Len(rankings') = 1
    BY <1>3, <2>1, <2>2, SelectedOne DEF VectorIds
  <2>4. pc' \in {"bm25", "fetch"}
    BY <1>3 DEF VectorIds
  <2>5. Progress'
    BY <1>3, <2>3, <2>4 DEF VectorIds, Progress, Selecting
  <2>6. TypeOK'
    BY <1>3, <2>3, <2>4 DEF VectorIds, TypeOK
  <2> QED
    BY <2>3, <2>5, <2>6
<1>4. CASE Bm25Ids
  <2>1. PICK ids \in RankingsOf(OwnRows(table)) : rankings' = Append(rankings, ids)
    BY <1>4 DEF Bm25Ids
  <2>2. Selected(ids)
    BY <2>1, RankingsOfSelect
  <2>3. rankings \in Seq(Seq(Rows)) /\ Len(rankings) = 1
    BY <1>4 DEF Bm25Ids, TypeOK, Progress
  <2>4. rankings' \in Seq(Seq(Rows)) /\ RankingsOwn' /\ Len(rankings') = 2
    BY <1>4, <2>1, <2>2, <2>3, SelectedTwo DEF Bm25Ids
  <2>5. Progress'
    BY <1>4, <2>4 DEF Bm25Ids, Progress, Selecting
  <2>6. TypeOK'
    BY <1>4, <2>4 DEF Bm25Ids, TypeOK
  <2> QED
    BY <2>4, <2>5, <2>6
<1>5. CASE SelectFails
  <2>1. Progress' /\ TypeOK'
    BY <1>5 DEF SelectFails, Progress, TypeOK, Selecting
  <2>2. RankingsOwn'
    BY <1>5, QuietKeepsRankings DEF SelectFails
  <2> QED
    BY <2>1, <2>2
<1>6. CASE NothingFound
  <2>1. pc' \in {"pack", "done"}
    BY <1>6, Returns DEF NothingFound
  <2>2. Progress' /\ TypeOK'
    BY <1>6, <2>1 DEF NothingFound, Progress, TypeOK, Selecting
  <2>3. RankingsOwn'
    BY <1>6, QuietKeepsRankings DEF NothingFound
  <2> QED
    BY <2>2, <2>3
<1>7. CASE FetchRows
  <2>1. pc' \in {"rerank", "cut"}
    BY <1>7 DEF FetchRows
  <2>2. candidates' \in Seq(Rows)
    BY <1>7, FetchedRows
  <2>3. Progress' /\ TypeOK'
    BY <1>7, <2>1, <2>2 DEF FetchRows, Progress, TypeOK, Selecting
  <2>4. RankingsOwn'
    BY <1>7, QuietKeepsRankings DEF FetchRows
  <2> QED
    BY <2>3, <2>4
<1>8. ASSUME PassThrough \/ Rerank \/ Cut
      PROVE  QInv'
  <2>1. result' \in Seq(Rows)
    BY <1>8, PassThroughCuts, RerankCuts, CutCuts DEF CutOf
  <2>2. pc' \in {"pack", "done"} /\ pc \in {"rerank", "cut"}
    BY <1>8, Returns DEF PassThrough, Rerank, Cut
  <2>3. UNCHANGED <<req, reranker, table, rankings, candidates, looked, parts, used>>
    BY <1>8 DEF PassThrough, Rerank, Cut
  <2>4. looked = 0 /\ parts = <<>> /\ used = 0 /\ Len(result') \in Nat
    BY <2>1, <2>2 DEF Progress
  <2>5. Progress'
    BY <2>2, <2>3 DEF Progress, Selecting
  <2>6. TypeOK'
    BY <2>1, <2>2, <2>3, <2>4 DEF TypeOK
  <2>7. RankingsOwn'
    BY <2>3, QuietKeepsRankings
  <2> QED
    BY <2>5, <2>6, <2>7
<1>9. CASE RerankFails
  <2>1. Progress' /\ TypeOK'
    BY <1>9 DEF RerankFails, Progress, TypeOK, Selecting
  <2>2. RankingsOwn'
    BY <1>9, QuietKeepsRankings DEF RerankFails
  <2> QED
    BY <2>1, <2>2
<1>10. CASE Pack
  <2>1. PICK cost \in Nat :
           /\ used + cost <= Budget
           /\ parts' = Append(parts, [row |-> result[looked + 1], cost |-> cost])
           /\ used' = used + cost
           /\ [row |-> result[looked + 1], cost |-> cost] \in [row : Rows, cost : Nat]
           /\ looked + 1 \in 1 .. Len(result)
    BY <1>10, PackedCosts
  <2>2. parts \in Seq([row : Rows, cost : Nat])
    BY DEF TypeOK
  <2>3. parts' \in Seq([row : Rows, cost : Nat])
    BY <2>1, <2>2, AppendProperties
  <2>4. used' \in 0 .. Budget
    <3>1. used \in Nat /\ Budget \in Nat
      BY ParameterAssumption DEF TypeOK
    <3> QED
      BY <2>1, <3>1
  <2>5. looked' \in 0 .. Len(result')
    BY <1>10, <2>1 DEF Pack
  <2>6. TypeOK'
    BY <1>10, <2>3, <2>4, <2>5 DEF Pack, TypeOK
  <2>7. Progress'
    BY <1>10 DEF Pack, Progress, Selecting
  <2>8. RankingsOwn'
    BY <1>10, QuietKeepsRankings DEF Pack
  <2> QED
    BY <2>6, <2>7, <2>8
<1>11. CASE Overflow \/ AllPacked
  <2>1. pc = "pack" /\ pc' = "generate"
        /\ UNCHANGED <<req, reranker, table, rankings, candidates, result, looked, parts, used>>
    BY <1>11 DEF Overflow, AllPacked
  <2>2. Progress' /\ TypeOK'
    BY <2>1 DEF Progress, TypeOK, Selecting
  <2>3. RankingsOwn'
    BY <2>1, QuietKeepsRankings
  <2> QED
    BY <2>2, <2>3
<1>12. CASE Generate
  <2>1. Progress' /\ TypeOK'
    BY <1>12 DEF Generate, Progress, TypeOK, Selecting
  <2>2. RankingsOwn'
    BY <1>12, QuietKeepsRankings DEF Generate
  <2> QED
    BY <2>1, <2>2
<1>13. CASE UNCHANGED vars
  <2>1. Progress' /\ TypeOK'
    BY <1>13 DEF vars, Progress, TypeOK, Selecting
  <2>2. RankingsOwn'
    BY <1>13, QuietKeepsRankings DEF vars
  <2> QED
    BY <2>1, <2>2
<1> QED
  BY <1>1, <1>2, <1>3, <1>4, <1>5, <1>6, <1>7, <1>8, <1>9, <1>10, <1>11, <1>12, <1>13 DEF Next

\* A query's state stays well-formed and its count within the budget.
THEOREM TypeCorrect == Spec => []TypeOK
<1>1. QInv => TypeOK
  BY DEF QInv
<1> QED
  BY <1>1, QInit, QStep, PTL DEF Spec

LEMMA QInvariant == Spec => []QInv
BY QInit, QStep, PTL DEF Spec

-----------------------------------------------------------------------------
(* What is returned.                                                       *)

\* The steps, by what they do to the lists.
LEMMA StepsOfLists ==
  ASSUME QInv, [Next]_vars
  PROVE  /\ UNCHANGED req
         /\ \/ FetchRows /\ UNCHANGED <<rankings, result>>
            \/ (PassThrough \/ Rerank \/ Cut) /\ UNCHANGED <<rankings, candidates>>
            \/ candidates = <<>> /\ result = <<>> /\ UNCHANGED <<candidates, result>>
            \/ UNCHANGED <<rankings, candidates, result>>
<1>1. Replicate \/ Embed \/ VectorIds \/ Bm25Ids \/ SelectFails \/ NothingFound
        => candidates = <<>> /\ result = <<>> /\ UNCHANGED <<req, candidates, result>>
  BY DEF QInv, Progress, Selecting, Replicate, Embed, VectorIds, Bm25Ids, SelectFails, NothingFound
<1>2. FetchRows => UNCHANGED <<req, rankings, result>>
  BY DEF FetchRows
<1>3. PassThrough \/ Rerank \/ Cut => UNCHANGED <<req, rankings, candidates>>
  BY DEF PassThrough, Rerank, Cut
<1>4. RerankFails \/ Pack \/ Overflow \/ AllPacked \/ Generate \/ UNCHANGED vars
        => UNCHANGED <<req, rankings, candidates, result>>
  BY DEF RerankFails, Pack, Overflow, AllPacked, Generate, vars
<1> QED
  BY <1>1, <1>2, <1>3, <1>4 DEF Next

LEMMA ResultIsCut ==
  ASSUME QInv, PassThrough \/ Rerank \/ Cut
  PROVE  CutOf(result')
BY PassThroughCuts, RerankCuts, CutCuts DEF QInv

LEMMA EvidenceStep == QInv /\ EvidenceOwnAndOnce /\ [Next]_vars => EvidenceOwnAndOnce'
<1> SUFFICES ASSUME QInv, EvidenceOwnAndOnce, [Next]_vars PROVE EvidenceOwnAndOnce'
  OBVIOUS
<1>1. CASE FetchRows /\ UNCHANGED <<rankings, result>>
  <2>1. /\ IsInjective(candidates')
        /\ Range(candidates') \subseteq Found /\ Range(candidates') \subseteq OwnRows(table)
    BY <1>1, FetchedRows
  <2>2. result' = <<>> /\ IsInjective(<<>>) /\ Range(<<>>) = {}
    BY <1>1 DEF FetchRows, QInv, Progress, Selecting, IsInjective, Range
  <2>3. ASSUME NEW r \in Range(candidates')
        PROVE  Owner[r] = req.tenant /\ \E i \in DOMAIN rankings : r \in Range(rankings[i])
    <3>1. r \in Found /\ r \in OwnRows(table)
      BY <2>1
    <3>2. DOMAIN rankings = 1 .. Len(rankings)
      BY LenProperties DEF QInv, TypeOK
    <3> QED
      BY <3>1, <3>2 DEF Found, OwnRows
  <2> QED
    BY <1>1, <2>1, <2>2, <2>3, StepsOfLists DEF EvidenceOwnAndOnce
<1>2. CASE (PassThrough \/ Rerank \/ Cut) /\ UNCHANGED <<rankings, candidates>>
  <2>1. CutOf(result')
    BY <1>2, ResultIsCut
  <2> QED
    BY <1>2, <2>1, StepsOfLists DEF EvidenceOwnAndOnce, CutOf
<1>3. CASE candidates = <<>> /\ result = <<>> /\ UNCHANGED <<candidates, result>>
  <2>1. IsInjective(<<>>) /\ Range(<<>>) = {}
    BY DEF IsInjective, Range
  <2> QED
    BY <1>3, <2>1 DEF EvidenceOwnAndOnce
<1>4. CASE UNCHANGED <<rankings, candidates, result>>
  BY <1>4, StepsOfLists DEF EvidenceOwnAndOnce
<1> QED
  BY <1>1, <1>2, <1>3, <1>4, StepsOfLists

\* The evidence is the tenant's, each row once, and found by a retriever: neither
\* a row replicated between two SELECTs nor the second list adds to it.
THEOREM EvidenceIsOwnAndOnce == Spec => []EvidenceOwnAndOnce
<1>1. Init => EvidenceOwnAndOnce
  BY DEF Init, EvidenceOwnAndOnce, IsInjective, Range
<1> QED
  BY <1>1, EvidenceStep, QInvariant, PTL DEF Spec

LEMMA UnanimityStep == QInv /\ UnanimityKept /\ [Next]_vars => UnanimityKept'
<1> SUFFICES ASSUME QInv, UnanimityKept, [Next]_vars PROVE UnanimityKept'
  OBVIOUS
<1>1. CASE FetchRows /\ UNCHANGED <<rankings, result>>
  <2>1. /\ Range(candidates') = Range(CandidateIds)
        /\ \A a, b \in Range(candidates') :
             Fused(a) + Boost(a) > Fused(b) + Boost(b) => Precedes(candidates', a, b)
    BY <1>1, FetchedRows
  <2>2. RankingsOwn /\ TypeOK /\ Len(rankings) \in {1, 2}
    BY <1>1 DEF QInv, FetchRows, Progress
  <2>3. ASSUME NEW a \in Rows, NEW b \in Rows, ClearlyBetter(a, b), Decay[a] <= Decay[b],
               b \in Range(candidates')
        PROVE  Precedes(candidates', a, b)
    <3>1. a \in Found /\ b \in Found /\ Fused(a) > Fused(b)
      BY <2>2, <2>3, FusedRespects
    <3>2. a \in Range(candidates')
      BY <2>1, <2>2, <2>3, <3>1, CandidateIdsHold
    <3>3. Boost(a) >= Boost(b)
      BY <2>3, BoostFalls
    <3>4. /\ Fused(a) \in Nat /\ Fused(b) \in Nat
          /\ Boost(a) \in Nat /\ Boost(b) \in Nat
      BY <2>2, ScoresAreNumbers
    <3>5. Fused(a) + Boost(a) > Fused(b) + Boost(b)
      BY <3>1, <3>3, <3>4
    <3> QED
      BY <2>1, <2>3, <3>2, <3>5
  <2>4. \A a, b : ClearlyBetter(a, b)' <=> ClearlyBetter(a, b)
    BY <1>1 DEF ClearlyBetter, Precedes
  <2> QED
    BY <2>3, <2>4 DEF UnanimityKept, Precedes
<1>2. CASE UNCHANGED <<rankings, candidates>>
  BY <1>2 DEF UnanimityKept, ClearlyBetter, Precedes
<1>3. CASE candidates = <<>> /\ UNCHANGED candidates
  BY <1>3 DEF UnanimityKept
<1> QED
  BY <1>1, <1>2, <1>3, StepsOfLists

\* Fusion, its ties, the cut to candidate_k and the boost leave a before b when
\* every retriever that found b put a, at least as fresh, before it.
THEOREM UnanimityHolds == Spec => []UnanimityKept
<1>1. Init => UnanimityKept
  BY DEF Init, UnanimityKept
<1> QED
  BY <1>1, UnanimityStep, QInvariant, PTL DEF Spec

-----------------------------------------------------------------------------
(* How much is returned, and what is packed of it.                         *)

CutInv ==
  pc \in {"pack", "generate", "done"} /\ req.topK >= 0 =>
    Len(result) = Min({req.topK, Len(candidates)})

LEMMA CutStep == QInv /\ CutInv /\ [Next]_vars => CutInv'
<1> SUFFICES ASSUME QInv, CutInv, [Next]_vars PROVE CutInv'
  OBVIOUS
<1>1. CASE Replicate \/ Embed \/ VectorIds \/ Bm25Ids \/ SelectFails
  <2>1. pc' \in {"embed", "vector", "bm25", "fetch", "failed"}
    BY <1>1 DEF Replicate, Embed, VectorIds, Bm25Ids, SelectFails
  <2> QED
    BY <2>1 DEF CutInv
<1>2. CASE NothingFound
  <2>1. candidates' = <<>> /\ result' = <<>> /\ req' = req
    BY <1>2 DEF NothingFound, QInv, Progress, Selecting
  <2>2. req.topK \in Int
    BY TopKIsInteger DEF QInv
  <2>3. ASSUME req.topK >= 0 PROVE Min({req.topK, 0}) = 0
    <3>1. Min({req.topK, 0}) = IF req.topK < 0 THEN req.topK ELSE 0
      BY <2>2, MinOfTwo
    <3> QED
      BY <2>2, <2>3, <3>1
  <2> QED
    BY <2>1, <2>3 DEF CutInv
<1>3. CASE FetchRows \/ RerankFails
  <2>1. pc' \in {"rerank", "cut"}
    BY <1>3 DEF FetchRows, RerankFails
  <2> QED
    BY <2>1 DEF CutInv
<1>4. CASE PassThrough \/ Rerank \/ Cut
  <2>1. CutOf(result')
    BY <1>4, ResultIsCut
  <2>2. UNCHANGED <<req, candidates>>
    BY <1>4 DEF PassThrough, Rerank, Cut
  <2> QED
    BY <2>1, <2>2 DEF CutOf, CutInv
<1>5. CASE Pack \/ Overflow \/ AllPacked \/ Generate
  <2>1. pc \in {"pack", "generate"} /\ UNCHANGED <<req, candidates, result>>
    BY <1>5 DEF Pack, Overflow, AllPacked, Generate
  <2> QED
    BY <2>1 DEF CutInv
<1>6. CASE UNCHANGED vars
  BY <1>6 DEF CutInv, vars
<1> QED
  BY <1>1, <1>2, <1>3, <1>4, <1>5, <1>6 DEF Next

\* With the reranker off, down or up, a query returns top_k of its candidates.
THEOREM RerankingLosesNothing == Spec => []RerankLosesNothing
<1>1. Init => CutInv
  BY DEF Init, CutInv
<1>2. CutInv => RerankLosesNothing
  BY DEF CutInv, RerankLosesNothing
<1> QED
  BY <1>1, <1>2, CutStep, QInvariant, PTL DEF Spec

ContextInv ==
  /\ ContextIsBestPrefix
  /\ pc = "pack" => looked = Len(parts)

\* The count of an empty context.
LEMMA EmptyContext ==
  \E total \in [0 .. 0 -> 0 .. Budget] : total[0] = 0
<1> DEFINE total == [i \in 0 .. 0 |-> 0]
<1>1. Budget \in Nat
  BY ParameterAssumption
<1>2. total \in [0 .. 0 -> 0 .. Budget] /\ total[0] = 0
  BY <1>1
<1> QED
  BY <1>2

LEMMA ContextStep == QInv /\ ContextInv /\ [Next]_vars => ContextInv'
<1> SUFFICES ASSUME QInv, ContextInv, [Next]_vars PROVE ContextInv'
  OBVIOUS
<1>1. CASE parts' = <<>> /\ used' = 0 /\ looked' = 0
  <2>1. Len(parts') = 0 /\ DOMAIN parts' = {} /\ 0 <= Len(result')
    <3>1. (result \in Seq(Rows))'
      BY QStep DEF QInv, TypeOK
    <3> QED
      BY <1>1, <3>1
  <2> QED
    BY <1>1, <2>1, EmptyContext DEF ContextInv, ContextIsBestPrefix
<1>2. CASE Pack
  <2>1. PICK cost \in Nat :
           /\ used + cost <= Budget
           /\ parts' = Append(parts, [row |-> result[looked + 1], cost |-> cost])
           /\ used' = used + cost
           /\ [row |-> result[looked + 1], cost |-> cost] \in [row : Rows, cost : Nat]
           /\ looked + 1 \in 1 .. Len(result)
    BY <1>2, PackedCosts
  <2> DEFINE part == [row |-> result[looked + 1], cost |-> cost]
             n == Len(parts)
  <2>2. parts \in Seq([row : Rows, cost : Nat]) /\ n \in Nat
    BY DEF QInv, TypeOK
  <2>3. part.row = result[looked + 1] /\ part.cost = cost
    OBVIOUS
  <2>4. looked = n /\ looked' = looked + 1 /\ result' = result
    BY <1>2 DEF Pack, ContextInv
  <2>5. PICK total \in [0 .. n -> 0 .. Budget] :
          /\ total[0] = 0 /\ total[n] = used
          /\ \A i \in DOMAIN parts : total[i] = total[i - 1] + parts[i].cost
    BY DEF ContextInv, ContextIsBestPrefix
  <2>6. DOMAIN parts = 1 .. n
    BY <2>2, LenProperties
  <2> HIDE DEF part, n
  <2>7. /\ Len(parts') = n + 1
        /\ \A i \in 1 .. n : parts'[i] = parts[i]
        /\ parts'[n + 1] = part
        /\ parts' \in Seq([row : Rows, cost : Nat])
    BY <2>1, <2>2, AppendProperties DEF part, n
  <2>8. DOMAIN parts' = 1 .. n + 1
    BY <2>7, LenProperties
  <2>9. \A i \in 1 .. n + 1 : i \in 1 .. n \/ i = n + 1
    BY <2>2
  <2>10. Len(parts') <= Len(result') /\ looked' = Len(parts')
    BY <2>1, <2>2, <2>4, <2>7
  <2>11. \A i \in DOMAIN parts' : parts'[i].row = result'[i]
    <3>1. \A i \in 1 .. n : parts[i].row = result[i]
      BY <2>6 DEF ContextInv, ContextIsBestPrefix
    <3> QED
      BY <2>3, <2>4, <2>7, <2>8, <2>9, <3>1
  <2> DEFINE more == [i \in 0 .. n + 1 |-> IF i = n + 1 THEN used + cost ELSE total[i]]
  <2>12. used \in Nat /\ Budget \in Nat
    BY ParameterAssumption DEF QInv, TypeOK
  <2>13. more \in [0 .. n + 1 -> 0 .. Budget]
    <3>1. used + cost \in 0 .. Budget
      BY <2>1, <2>12
    <3>2. \A i \in 0 .. n + 1 : i # n + 1 => i \in 0 .. n
      BY <2>2
    <3> QED
      BY <2>5, <3>1, <3>2
  <2>14. more[0] = 0 /\ more[n + 1] = used'
    BY <2>1, <2>2, <2>5
  <2>15. ASSUME NEW i \in 1 .. n + 1 PROVE more[i] = more[i - 1] + parts'[i].cost
    <3>1. CASE i \in 1 .. n
      <4>1. more[i] = total[i] /\ more[i - 1] = total[i - 1]
        BY <2>2, <3>1
      <4> QED
        BY <2>5, <2>6, <2>7, <3>1, <4>1
    <3>2. CASE i = n + 1
      <4>1. more[i] = used + cost /\ more[i - 1] = used
        BY <2>2, <2>5, <3>2
      <4> QED
        BY <2>3, <2>7, <3>2, <4>1
    <3> QED
      BY <2>9, <3>1, <3>2
  <2> HIDE DEF more
  <2>16. ContextIsBestPrefix'
    BY <2>7, <2>8, <2>10, <2>11, <2>13, <2>14, <2>15 DEF ContextIsBestPrefix
  <2> QED
    BY <2>10, <2>16 DEF ContextInv
<1>3. CASE pc \in {"pack", "generate", "done", "failed"} /\ pc' \in {"generate", "done", "failed", pc}
             /\ UNCHANGED <<result, parts, used, looked>>
  BY <1>3 DEF ContextInv, ContextIsBestPrefix
<1>4. CASE UNCHANGED vars
  BY <1>4 DEF ContextInv, ContextIsBestPrefix, vars
<1>5. Replicate \/ Embed \/ VectorIds \/ Bm25Ids \/ SelectFails \/ NothingFound \/ FetchRows
      \/ PassThrough \/ Rerank \/ RerankFails \/ Cut
        => parts' = <<>> /\ used' = 0 /\ looked' = 0
  BY DEF QInv, Progress, Selecting, Replicate, Embed, VectorIds, Bm25Ids, SelectFails,
         NothingFound, FetchRows, PassThrough, Rerank, RerankFails, Cut
<1>6. Overflow \/ AllPacked \/ Generate
        => /\ pc \in {"pack", "generate"} /\ pc' \in {"generate", "done", "failed"}
           /\ UNCHANGED <<result, parts, used, looked>>
  BY DEF Overflow, AllPacked, Generate
<1> QED
  BY <1>1, <1>2, <1>3, <1>4, <1>5, <1>6 DEF Next

\* What is packed is the first of the result, counted as it costs.
THEOREM ContextIsPrefix == Spec => []ContextIsBestPrefix
<1>1. Init => ContextInv
  <2> SUFFICES ASSUME Init PROVE ContextInv
    OBVIOUS
  <2>1. parts = <<>> /\ result = <<>> /\ used = 0 /\ looked = 0
    BY DEF Init
  <2>2. Len(parts) = 0 /\ DOMAIN parts = {} /\ 0 <= Len(result)
    BY <2>1
  <2> QED
    BY <2>1, <2>2, EmptyContext DEF ContextInv, ContextIsBestPrefix
<1>2. ContextInv => ContextIsBestPrefix
  BY DEF ContextInv
<1> QED
  BY <1>1, <1>2, ContextStep, QInvariant, PTL DEF Spec

\* Through both retrievers, fusion, reranker and packing, what the LLM reads is the
\* tenant's own and holds no row twice.
THEOREM ContextIsOwnAndOnce == Spec => []ContextOwnAndOnce
<1>1. EvidenceOwnAndOnce /\ ContextIsBestPrefix /\ TypeOK => ContextOwnAndOnce
  <2> SUFFICES ASSUME EvidenceOwnAndOnce, ContextIsBestPrefix, TypeOK,
                      NEW i \in DOMAIN parts
               PROVE  /\ Owner[parts[i].row] = req.tenant
                      /\ \A j \in DOMAIN parts : parts[j].row = parts[i].row => j = i
    BY DEF ContextOwnAndOnce
  <2>1. /\ DOMAIN parts = 1 .. Len(parts) /\ DOMAIN result = 1 .. Len(result)
        /\ Len(parts) \in Nat /\ Len(result) \in Nat
    BY DEF TypeOK
  <2>2. /\ DOMAIN parts \subseteq DOMAIN result
        /\ \A j \in DOMAIN parts : parts[j].row = result[j]
    BY <2>1 DEF ContextIsBestPrefix
  <2>3. Owner[parts[i].row] = req.tenant
    BY <2>2 DEF EvidenceOwnAndOnce, Range
  <2>4. ASSUME NEW j \in DOMAIN parts, parts[j].row = parts[i].row
        PROVE  j = i
    BY <2>2, <2>4 DEF EvidenceOwnAndOnce, IsInjective
  <2> QED
    BY <2>3, <2>4
<1> QED
  BY <1>1, EvidenceIsOwnAndOnce, ContextIsPrefix, TypeCorrect, PTL
=============================================================================
