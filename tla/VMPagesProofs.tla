---------------------------- MODULE VMPagesProofs ---------------------------
(***************************************************************************)
(* What the memory manager does to pages, for every choice of the          *)
(* constants: the free list, the page frames, and the loops that make and  *)
(* free page tables and pages.                                             *)
(***************************************************************************)
EXTENDS VMManager, ListLemmas

Blocks == [start : Nat, size : Nat]

(* The larger and the smaller of two page numbers. *)
LEMMA MaxMin ==
    ASSUME NEW a \in Int, NEW b \in Int
    PROVE  /\ Max({a, b}) = IF a >= b THEN a ELSE b
           /\ Min({a, b}) = IF a <= b THEN a ELSE b
BY DEF Max, Min

(* A run of pages that ends earlier is within the longer one. *)
LEMMA RunWithin ==
    ASSUME NEW first \in Nat, NEW last \in Nat, NEW end \in Nat, last <= end
    PROVE  first..last \subseteq first..end
OBVIOUS

(* The last of some positions in a list. *)
LEMMA MaxPosition ==
    ASSUME NEW n \in Nat, NEW I \in SUBSET (0..n), I # {}
    PROVE  Max(I) \in I /\ \A i \in I : i <= Max(I)
<1> DEFINE J == {i + 1 : i \in I}
<1>1. J \in SUBSET (1..n + 1) /\ J # {} /\ n + 1 \in Nat
  <2>1. \A i \in I : i \in 0..n
    OBVIOUS
  <2>2. \A i \in 0..n : i + 1 \in 1..n + 1
    OBVIOUS
  <2>3. J \subseteq 1..n + 1
    BY <2>1, <2>2
  <2>4. J # {}
    OBVIOUS
  <2> QED
    BY <2>3, <2>4
<1>2. \E m \in J : \A j \in J : j <= m
  <2> HIDE DEF J
  <2> QED
    BY <1>1, LastPosition
<1>3. PICK m \in I : \A i \in I : i + 1 <= m + 1
  BY <1>2
<1>4. \A i \in I : m >= i
  BY <1>3
<1>5. Max(I) \in I /\ \A i \in I : Max(I) >= i
  BY <1>4 DEF Max
<1> QED
  BY <1>5

(* A page is free exactly when a block holds it. *)
LEMMA InBlock ==
    ASSUME NEW list \in Seq(Blocks), NEW p
    PROVE  p \in FreePages(list) <=>
              \E i \in 1..Len(list) : p \in list[i].start..list[i].start + list[i].size - 1
BY DEF FreePages, BlockEnd

-----------------------------------------------------------------------------
(* A list made of the first l blocks of another, some blocks in the middle, and the blocks  *)
(* from r on.                                                                           *)
Splice(s, l, mid, r) == SubSeq(s, 1, l) \o mid \o SubSeq(s, r, Len(s))

(* Element by element. *)
IsSplice(t, s, l, mid, r) ==
    /\ Len(t) = l + Len(mid) + (Len(s) - r + 1)
    /\ \A i \in 1..l : t[i] = s[i]
    /\ \A i \in 1..Len(mid) : t[l + i] = mid[i]
    /\ \A i \in 1..Len(s) - r + 1 : t[l + Len(mid) + i] = s[r + i - 1]

(* What Splice makes. *)
LEMMA SpliceElements ==
    ASSUME NEW S, NEW s \in Seq(S), NEW mid \in Seq(S),
           NEW l \in 0..Len(s), NEW r \in 1..Len(s) + 1
    PROVE  Splice(s, l, mid, r) \in Seq(S) /\ IsSplice(Splice(s, l, mid, r), s, l, mid, r)
<1> DEFINE a == SubSeq(s, 1, l)
           b == SubSeq(s, r, Len(s))
           am == a \o mid
           t == am \o b
<1>0. Len(s) \in Nat /\ Len(mid) \in Nat /\ l \in Nat /\ Len(s) - r + 1 \in Nat
  OBVIOUS
<1>1. /\ a \in Seq(S)
      /\ Len(a) = l
      /\ \A i \in 1..l : a[i] = s[i]
  BY SubSeqProperties, \A i \in 1..l : s[i] \in S
<1>2. /\ b \in Seq(S)
      /\ Len(b) = Len(s) - r + 1
      /\ \A i \in 1..Len(s) - r + 1 : b[i] = s[r + i - 1]
  BY SubSeqProperties, \A i \in r..Len(s) : s[i] \in S
<1> HIDE DEF a, b
<1>3. /\ am \in Seq(S)
      /\ Len(am) = l + Len(mid)
      /\ \A i \in 1..l + Len(mid) : am[i] = IF i <= l THEN a[i] ELSE mid[i - l]
  BY <1>1, ConcatProperties
<1>4. /\ \A i \in 1..l : am[i] = s[i]
      /\ \A i \in 1..Len(mid) : am[l + i] = mid[i]
  BY <1>0, <1>1, <1>3
<1> HIDE DEF am
<1>5. /\ t \in Seq(S)
      /\ Len(t) = l + Len(mid) + (Len(s) - r + 1)
      /\ \A i \in 1..l + Len(mid) : t[i] = am[i]
      /\ \A i \in 1..Len(s) - r + 1 : t[l + Len(mid) + i] = b[i]
  <2> DEFINE x == l + Len(mid)
             y == Len(s) - r + 1
  <2>1. /\ t \in Seq(S)
        /\ Len(t) = Len(am) + Len(b)
        /\ \A i \in 1..Len(am) + Len(b) : t[i] = IF i <= Len(am) THEN am[i] ELSE b[i - Len(am)]
    BY <1>2, <1>3, ConcatProperties
  <2>2. x \in Nat /\ y \in Nat /\ Len(am) = x /\ Len(b) = y
    BY <1>0, <1>2, <1>3
  <2> HIDE DEF x, y, t
  <2>3. /\ Len(t) = x + y
        /\ \A i \in 1..x : t[i] = am[i]
        /\ \A i \in 1..y : t[x + i] = b[i]
    BY <2>1, <2>2
  <2> QED
    BY <2>1, <2>3 DEF x, y
<1> HIDE DEF t
<1>6. /\ \A i \in 1..l : t[i] = s[i]
      /\ \A i \in 1..Len(mid) : t[l + i] = mid[i]
  BY <1>0, <1>4, <1>5
<1>7. \A i \in 1..Len(s) - r + 1 : t[l + Len(mid) + i] = s[r + i - 1]
  BY <1>2, <1>5
<1> QED
  BY <1>5, <1>6, <1>7 DEF t, am, a, b, Splice, IsSplice

(* Blocks that fit between those kept on either side: the list stays coalesced, and it      *)
(* holds the pages kept and theirs.                                                     *)
LEMMA SpliceBlocks ==
    ASSUME NEW s \in Seq(Blocks), NEW mid \in Seq(Blocks), Coalesced(s), Coalesced(mid),
           NEW l \in 0..Len(s), NEW r \in 1..Len(s) + 1, l < r,
           \A i \in 1..l, k \in 1..Len(mid) : BlockEnd(s[i]) + 1 < mid[k].start,
           \A k \in 1..Len(mid), j \in r..Len(s) : BlockEnd(mid[k]) + 1 < s[j].start
    PROVE  LET t == Splice(s, l, mid, r)
           IN  /\ t \in Seq(Blocks)
               /\ Coalesced(t)
               /\ \A p : p \in FreePages(t) <=>
                     \/ \E i \in 1..Len(s) : (i <= l \/ i >= r) /\ p \in s[i].start..BlockEnd(s[i])
                     \/ p \in FreePages(mid)
<1> DEFINE t == Splice(s, l, mid, r)
           m == Len(mid)
           q == Len(s) - r + 1
<1>1. /\ t \in Seq(Blocks)
      /\ Len(t) = l + m + q
      /\ \A i \in 1..l : t[i] = s[i]
      /\ \A i \in 1..m : t[l + i] = mid[i]
      /\ \A i \in 1..q : t[l + m + i] = s[r + i - 1]
  <2>1. t \in Seq(Blocks) /\ IsSplice(t, s, l, mid, r)
    BY SpliceElements
  <2> HIDE DEF t
  <2> QED
    BY <2>1 DEF IsSplice
<1>2. m \in Nat /\ q \in Nat /\ l \in Nat /\ r \in Nat /\ Len(s) \in Nat /\ Len(s) = r + q - 1
      /\ l <= Len(s) /\ r >= 1
  OBVIOUS
<1> HIDE DEF t, q
<1>3. DOMAIN t = 1..l + m + q /\ DOMAIN s = 1..Len(s) /\ DOMAIN mid = 1..m
  BY <1>1
<1> HIDE DEF m
<1>4. ASSUME NEW i \in DOMAIN t
      PROVE  \/ i \in 1..l
             \/ \E k \in 1..m : i = l + k
             \/ \E k \in 1..q : i = l + m + k
  <2>1. CASE i <= l
    BY <1>2, <1>3, <2>1
  <2>2. CASE i > l /\ i <= l + m
    <3>1. i - l \in 1..m /\ i = l + (i - l)
      BY <1>2, <1>3, <2>2
    <3> QED
      BY <3>1
  <2>3. CASE i > l + m
    <3>1. i - (l + m) \in 1..q /\ i = l + m + (i - (l + m))
      BY <1>2, <1>3, <2>3
    <3> QED
      BY <3>1
  <2> QED
    BY <1>2, <1>3, <2>1, <2>2, <2>3
<1>5. ASSUME NEW i \in DOMAIN t PROVE t[i].size > 0
  <2>1. CASE i \in 1..l
    BY <1>1, <1>2, <1>3, <2>1 DEF Coalesced
  <2>2. ASSUME NEW k \in 1..m, i = l + k PROVE t[i].size > 0
    BY <1>1, <1>3, <2>2 DEF Coalesced
  <2>3. ASSUME NEW k \in 1..q, i = l + m + k PROVE t[i].size > 0
    <3>1. r + k - 1 \in DOMAIN s
      BY <1>2, <1>3
    <3> QED
      BY <1>1, <2>3, <3>1 DEF Coalesced
  <2> QED
    BY <1>4, <2>1, <2>2, <2>3
<1>6. ASSUME NEW i \in DOMAIN t, NEW j \in DOMAIN t, i < j
      PROVE  BlockEnd(t[i]) + 1 < t[j].start
  <2>1. CASE i \in 1..l /\ j \in 1..l
    BY <1>1, <1>2, <1>3, <1>6, <2>1 DEF Coalesced
  <2>2. ASSUME i \in 1..l, NEW k \in 1..m, j = l + k PROVE BlockEnd(t[i]) + 1 < t[j].start
    BY <1>1, <2>2 DEF m
  <2>3. ASSUME i \in 1..l, NEW k \in 1..q, j = l + m + k PROVE BlockEnd(t[i]) + 1 < t[j].start
    <3>1. i \in DOMAIN s /\ r + k - 1 \in DOMAIN s /\ i < r + k - 1
      BY <1>2, <1>3, <2>3, SMTT(30)
    <3>2. t[i] = s[i] /\ t[j] = s[r + k - 1]
      BY <1>1, <2>3
    <3> QED
      BY <3>1, <3>2 DEF Coalesced
  <2>4. ASSUME NEW k \in 1..m, i = l + k, NEW k2 \in 1..m, j = l + k2
        PROVE  BlockEnd(t[i]) + 1 < t[j].start
    <3>1. k < k2
      BY <1>2, <1>6, <2>4
    <3>2. t[i] = mid[k] /\ t[j] = mid[k2]
      BY <1>1, <2>4
    <3>3. k \in DOMAIN mid /\ k2 \in DOMAIN mid
      BY <1>3 DEF m
    <3> QED
      BY <3>1, <3>2, <3>3 DEF Coalesced
  <2>5. ASSUME NEW k \in 1..m, i = l + k, NEW k2 \in 1..q, j = l + m + k2
        PROVE  BlockEnd(t[i]) + 1 < t[j].start
    <3>1. r + k2 - 1 \in r..Len(s)
      BY <1>2
    <3>2. t[i] = mid[k] /\ t[j] = s[r + k2 - 1]
      BY <1>1, <2>5
    <3> QED
      BY <3>1, <3>2 DEF m
  <2>6. ASSUME NEW k \in 1..q, i = l + m + k, NEW k2 \in 1..q, j = l + m + k2
        PROVE  BlockEnd(t[i]) + 1 < t[j].start
    <3>4. k \in 1..q /\ k2 \in 1..q
      OBVIOUS
    <3>1. r + k - 1 \in DOMAIN s /\ r + k2 - 1 \in DOMAIN s
      BY ONLY <1>2, <1>3, <3>4
    <3>3. r + k - 1 < r + k2 - 1
      BY <1>2, <1>6, <2>6
    <3>2. t[i] = s[r + k - 1] /\ t[j] = s[r + k2 - 1]
      BY <1>1, <2>6
    <3> QED
      BY <3>1, <3>2, <3>3 DEF Coalesced
  <2>7. CASE i \in 1..l
    BY <1>4, <2>1, <2>2, <2>3, <2>7
  <2>8. ASSUME NEW k \in 1..m, i = l + k PROVE BlockEnd(t[i]) + 1 < t[j].start
    <3>1. j \notin 1..l
      BY <1>2, <1>6, <2>8
    <3> QED
      BY <1>4, <2>4, <2>5, <2>8, <3>1
  <2>9. ASSUME NEW k \in 1..q, i = l + m + k PROVE BlockEnd(t[i]) + 1 < t[j].start
    <3>1. j \notin 1..l /\ \A k2 \in 1..m : j # l + k2
      BY <1>2, <1>6, <2>9
    <3> QED
      BY <1>4, <2>6, <2>9, <3>1
  <2> QED
    BY <1>4, <2>7, <2>8, <2>9
<1>7. Coalesced(t)
  BY <1>5, <1>6 DEF Coalesced
<1>8. ASSUME NEW p
      PROVE  p \in FreePages(t) <=>
                \/ \E i \in 1..Len(s) : (i <= l \/ i >= r) /\ p \in s[i].start..BlockEnd(s[i])
                \/ p \in FreePages(mid)
  <2>1. ASSUME NEW i \in DOMAIN t, p \in t[i].start..BlockEnd(t[i])
        PROVE  \/ \E j \in 1..Len(s) : (j <= l \/ j >= r) /\ p \in s[j].start..BlockEnd(s[j])
               \/ p \in FreePages(mid)
    <3>1. CASE i \in 1..l
      <4>1. i \in 1..Len(s) /\ i <= l /\ t[i] = s[i]
        BY <1>1, <1>2, <3>1
      <4> QED
        BY <2>1, <4>1
    <3>2. ASSUME NEW k \in 1..m, i = l + k PROVE p \in FreePages(mid)
      BY <1>1, <1>3, <2>1, <3>2 DEF FreePages
    <3>3. ASSUME NEW k \in 1..q, i = l + m + k
          PROVE  \E j \in 1..Len(s) : (j <= l \/ j >= r) /\ p \in s[j].start..BlockEnd(s[j])
      <4>1. r + k - 1 \in 1..Len(s) /\ r + k - 1 >= r
        BY <1>2
      <4>2. t[i] = s[r + k - 1]
        BY <1>1, <3>3
      <4> QED
        BY <2>1, <4>1, <4>2
    <3> QED
      BY <1>4, <3>1, <3>2, <3>3
  <2>2. ASSUME NEW j \in 1..Len(s), j <= l \/ j >= r, p \in s[j].start..BlockEnd(s[j])
        PROVE  p \in FreePages(t)
    <3>1. CASE j <= l
      <4>1. j \in 1..l /\ j \in DOMAIN t
        BY <1>2, <1>3, <3>1
      <4>2. t[j] = s[j]
        BY <1>1, <4>1
      <4> QED
        BY <2>2, <4>1, <4>2 DEF FreePages
    <3>2. CASE j >= r
      <4>1. j - r + 1 \in 1..q /\ r + (j - r + 1) - 1 = j /\ l + m + (j - r + 1) \in DOMAIN t
        BY <1>2, <1>3, <3>2
      <4>2. t[l + m + (j - r + 1)] = s[j]
        BY <1>1, <4>1
      <4> QED
        BY <2>2, <4>1, <4>2 DEF FreePages
    <3> QED
      BY <2>2, <3>1, <3>2
  <2>3. ASSUME p \in FreePages(mid) PROVE p \in FreePages(t)
    <3>1. PICK k \in 1..m : p \in mid[k].start..BlockEnd(mid[k])
      BY <1>3, <2>3 DEF FreePages
    <3>2. l + k \in DOMAIN t /\ t[l + k] = mid[k]
      BY <1>1, <1>2, <1>3
    <3> QED
      BY <3>1, <3>2 DEF FreePages
  <2>4. p \in FreePages(t) => \E i \in DOMAIN t : p \in t[i].start..BlockEnd(t[i])
    BY DEF FreePages
  <2> QED
    BY <2>1, <2>2, <2>3, <2>4
<1> QED
  BY <1>1, <1>7, <1>8 DEF t

(* Where InsertFree stops in a coalesced list: the blocks up to there start below. *)
LEMMA PositionSplits ==
    ASSUME NEW list \in Seq(Blocks), Coalesced(list), NEW start \in Nat
    PROVE  /\ Position(list, start) \in 0..Len(list)
           /\ \A j \in 1..Len(list) :
                 list[j].start < start <=> j <= Position(list, start)
<1> DEFINE I == {0} \cup {i \in DOMAIN list : list[i].start < start}
<1>1. Len(list) \in Nat /\ DOMAIN list = 1..Len(list) /\ \A j \in 1..Len(list) : list[j] \in Blocks
  OBVIOUS
<1>2. I \in SUBSET (0..Len(list)) /\ I # {}
  BY <1>1
<1>3. Max(I) \in I /\ \A i \in I : i <= Max(I)
  <2> HIDE DEF I
  <2> QED
    BY <1>1, <1>2, MaxPosition
<1>4. Position(list, start) = Max(I)
  BY DEF Position
<1>5. ASSUME NEW j \in 1..Len(list), list[j].start < start PROVE j <= Max(I)
  BY <1>1, <1>3, <1>5
<1>6. ASSUME NEW j \in 1..Len(list), j <= Max(I) PROVE list[j].start < start
  <2> DEFINE i == Max(I)
  <2>1. i \in 1..Len(list) /\ list[i].start < start /\ j <= i
    BY <1>1, <1>3, <1>6
  <2> HIDE DEF i, I
  <2>2. CASE j = i
    BY <2>1, <2>2
  <2>3. CASE j < i
    <3>1. BlockEnd(list[j]) + 1 < list[i].start /\ list[j].size > 0
      BY <1>1, <2>1, <2>3 DEF Coalesced
    <3> QED
      BY <1>1, <2>1, <3>1 DEF BlockEnd, Blocks
  <2> QED
    BY <2>1, <2>2, <2>3
<1>7. Max(I) \in 0..Len(list)
  BY <1>2, <1>3
<1> HIDE DEF I
<1> QED
  BY <1>4, <1>5, <1>6, <1>7

(* The block InsertFree makes ends where the pages end, or where the block after them does:  *)
(* a and x are the start and the size of the block before, b and y of the block after.  *)
LEMMA MergedEnd ==
    ASSUME NEW a \in Nat, NEW x \in Nat, NEW b \in Nat, NEW y \in Nat,
           NEW start \in Nat, NEW end \in Nat, start <= end, a + x - 1 + 1 = start
    PROVE  /\ x + end - start + 1 \in Nat \ {0}
           /\ a + (x + end - start + 1) - 1 = end
           /\ y + x + end - start + 1 \in Nat \ {0}
           /\ end + 1 = b => a + (y + x + end - start + 1) - 1 = b + y - 1
OBVIOUS

(* InsertFree: pages that are not free are put into a coalesced list.  It stays coalesced,  *)
(* whichever of the two neighbours the pages are merged with, and its pages are exactly  *)
(* those it had and the new ones.                                                       *)
THEOREM InsertFreeExact ==
    ASSUME NEW list \in Seq(Blocks), Coalesced(list), NEW start \in Nat, NEW end \in Nat,
           start <= end, start..end \cap FreePages(list) = {}
    PROVE  /\ InsertFree(list, start, end) \in Seq(Blocks)
           /\ Coalesced(InsertFree(list, start, end))
           /\ FreePages(InsertFree(list, start, end)) = FreePages(list) \cup start..end
<1> DEFINE n == Len(list)
           i == Position(list, start)
           S(j) == list[j].start
           E(j) == BlockEnd(list[j])
           forward == i < n /\ end + 1 = S(i + 1)
           backward == i > 0 /\ E(i) + 1 = start
           from == IF backward THEN S(i) ELSE start
           size == (IF forward THEN list[i + 1].size ELSE 0)
                   + (IF backward THEN list[i].size ELSE 0) + end - start + 1
           to == from + size - 1
           l == IF backward THEN i - 1 ELSE i
           r == IF forward THEN i + 2 ELSE i + 1
           mid == <<Block(from, size)>>
<1>1. n \in Nat /\ DOMAIN list = 1..n
  OBVIOUS
<1>2. \A j \in 1..n : /\ list[j] \in Blocks
                      /\ S(j) \in Nat /\ list[j].size \in Nat /\ list[j].size > 0
                      /\ E(j) \in Nat /\ E(j) = S(j) + list[j].size - 1 /\ S(j) <= E(j)
  <2> TAKE j \in 1..n
  <2>1. list[j] \in Blocks /\ list[j].size > 0
    BY <1>1 DEF Coalesced
  <2> QED
    BY <2>1 DEF Blocks, BlockEnd
<1>3. \A j, k \in 1..n : j < k => E(j) + 1 < S(k)
  BY <1>1 DEF Coalesced
<1>4. i \in 0..n /\ \A j \in 1..n : S(j) < start <=> j <= i
  BY PositionSplits
<1>5. InsertFree(list, start, end) = Splice(list, l, mid, r)
  BY DEF InsertFree, Splice
<1>6. \A j \in 1..n, p \in Nat : S(j) <= p /\ p <= E(j) => p \in FreePages(list)
  <2> TAKE j \in 1..n, p \in Nat
  <2>1. S(j) <= p /\ p <= E(j) => p \in S(j)..E(j)
    BY <1>2
  <2> QED
    BY <1>1, <2>1 DEF FreePages
<1> HIDE DEF i, S, E
<1>7. \A j \in 1..n : j <= i => E(j) < start
  <2> SUFFICES ASSUME NEW j \in 1..n, j <= i, E(j) >= start PROVE FALSE
    BY <1>2
  <2>1. start \in FreePages(list)
    BY <1>2, <1>4, <1>6
  <2> QED
    BY <2>1
<1>8. \A j \in 1..n : j > i => S(j) > end
  <2> SUFFICES ASSUME NEW j \in 1..n, j > i, S(j) <= end PROVE FALSE
    BY <1>2
  <2>1. S(j) >= start
    BY <1>2, <1>4
  <2>2. S(j) \in FreePages(list)
    BY <1>2, <1>6
  <2> QED
    BY <1>2, <2>1, <2>2
<1> HIDE DEF n
<1>9. forward \in BOOLEAN /\ backward \in BOOLEAN
  OBVIOUS
<1>10. /\ l \in 0..n /\ r \in 1..n + 1 /\ l < r
       /\ from \in Nat /\ size \in Nat /\ size > 0
       /\ from = (IF backward THEN S(i) ELSE start)
       /\ to = (IF forward THEN E(i + 1) ELSE end)
  <2>1. i \in Nat /\ i <= n
    BY <1>1, <1>4
  <2>2. CASE forward /\ backward
    <3>1. i \in 1..n /\ i + 1 \in 1..n
      BY <1>1, <2>1, <2>2
    <3>2. S(i) \in Nat /\ E(i) = S(i) + list[i].size - 1 /\ E(i + 1) = S(i + 1) + list[i + 1].size - 1
          /\ list[i].size \in Nat /\ list[i + 1].size \in Nat /\ S(i + 1) \in Nat
      BY <1>2, <3>1
    <3>3. from = S(i) /\ l = i - 1 /\ r = i + 2
      BY <2>2
    <3>4. size = list[i + 1].size + list[i].size + end - start + 1
      BY <2>2
    <3>5. end + 1 = S(i + 1) /\ E(i) + 1 = start
      BY <2>2
    <3> HIDE DEF from, size, l, r, forward, backward
    <3>6. size \in Nat \ {0} /\ to = E(i + 1)
      <4> DEFINE a == S(i)
                 b == S(i + 1)
                 x == list[i].size
                 y == list[i + 1].size
      <4>1. a \in Nat /\ b \in Nat /\ x \in Nat /\ y \in Nat /\ E(i + 1) = b + y - 1
            /\ a + x - 1 + 1 = start /\ end + 1 = b
        BY <3>2, <3>5
      <4>2. from = a /\ size = y + x + end - start + 1
        BY <3>3, <3>4
      <4> HIDE DEF a, b, x, y
      <4> QED
        BY <4>1, <4>2, MergedEnd
    <3>7. l \in 0..n /\ r \in 1..n + 1 /\ l < r
      BY <1>1, <2>1, <3>1, <3>3
    <3> HIDE DEF to
    <3> QED
      BY <2>2, <3>2, <3>3, <3>6, <3>7
  <2>3. CASE forward /\ ~backward
    <3>1. i + 1 \in 1..n
      BY <1>1, <2>1, <2>3
    <3>2. E(i + 1) = S(i + 1) + list[i + 1].size - 1 /\ list[i + 1].size \in Nat /\ S(i + 1) \in Nat
      BY <1>2, <3>1
    <3>3. from = start /\ l = i /\ r = i + 2 /\ end + 1 = S(i + 1)
      BY <2>3
    <3>4. size = list[i + 1].size + end - start + 1
      BY <2>3, <3>2
    <3> HIDE DEF from, size, l, r, forward, backward
    <3>5. size \in Nat \ {0} /\ to = E(i + 1)
      <4> DEFINE y == list[i + 1].size
      <4>1. y \in Nat /\ size = y + end - start + 1 /\ E(i + 1) = end + 1 + y - 1
        BY <3>2, <3>3, <3>4
      <4> HIDE DEF y
      <4> QED
        BY <3>3, <4>1
    <3>6. l \in 0..n /\ r \in 1..n + 1 /\ l < r
      BY <1>1, <2>1, <3>1, <3>3
    <3> HIDE DEF to
    <3> QED
      BY <2>3, <3>2, <3>3, <3>5, <3>6
  <2>4. CASE ~forward /\ backward
    <3>1. i \in 1..n
      BY <1>1, <2>1, <2>4
    <3>2. S(i) \in Nat /\ E(i) = S(i) + list[i].size - 1 /\ list[i].size \in Nat
      BY <1>2, <3>1
    <3>3. from = S(i) /\ l = i - 1 /\ r = i + 1
      BY <2>4
    <3>4. size = list[i].size + end - start + 1
      BY <2>4, <3>2
    <3>5. E(i) + 1 = start
      BY <2>4
    <3> HIDE DEF from, size, l, r, forward, backward
    <3>6. size \in Nat \ {0} /\ to = end
      <4> DEFINE a == S(i)
                 x == list[i].size
      <4>1. a \in Nat /\ x \in Nat /\ a + x - 1 + 1 = start
        BY <3>2, <3>5
      <4>2. from = a /\ size = x + end - start + 1
        BY <3>3, <3>4
      <4> HIDE DEF a, x
      <4> QED
        BY <4>1, <4>2, MergedEnd
    <3>7. l \in 0..n /\ r \in 1..n + 1 /\ l < r
      BY <1>1, <2>1, <3>1, <3>3
    <3> HIDE DEF to
    <3> QED
      BY <2>4, <3>2, <3>3, <3>6, <3>7
  <2>5. CASE ~forward /\ ~backward
    BY <1>1, <2>1, <2>5
  <2> QED
    BY <1>9, <2>2, <2>3, <2>4, <2>5
<1> HIDE DEF size
<1>11. mid \in Seq(Blocks) /\ Len(mid) = 1 /\ mid[1] = Block(from, size)
  BY <1>10 DEF Block, Blocks
<1>12. Block(from, size).start = from /\ Block(from, size).size = size
       /\ BlockEnd(Block(from, size)) = to
  BY DEF Block, BlockEnd
<1>13. FreePages(mid) = from..to
  <2> HIDE DEF from, to
  <2>1. DOMAIN mid = {1}
    BY <1>11
  <2>2. mid[1].start = from /\ BlockEnd(mid[1]) = to
    BY <1>11, <1>12
  <2> QED
    BY <2>1, <2>2 DEF FreePages
<1>14. Coalesced(mid)
  <2> HIDE DEF from, to
  <2>1. DOMAIN mid = {1} /\ mid[1].size > 0
    BY <1>10, <1>11, <1>12
  <2> HIDE DEF mid
  <2> QED
    BY <2>1 DEF Coalesced
<1>15. \A j \in 1..l : E(j) + 1 < from
  <2> SUFFICES ASSUME NEW j \in 1..l PROVE E(j) + 1 < from
    OBVIOUS
  <2>1. j \in 1..n /\ j <= i /\ i \in 0..n
    BY <1>1, <1>4, <1>10
  <2>2. CASE backward
    <3>1. i \in 1..n /\ j < i /\ from = S(i)
      BY <1>1, <2>1, <2>2
    <3> QED
      BY <1>3, <2>1, <3>1
  <2>3. CASE ~backward
    <3>1. i \in 1..n /\ from = start /\ E(i) + 1 # start
      BY <1>1, <2>1, <2>3
    <3>2. E(i) + 1 < start
      BY <1>2, <1>7, <3>1
    <3>3. CASE j = i
      BY <3>1, <3>2, <3>3
    <3>4. CASE j < i
      BY <1>2, <1>3, <1>4, <2>1, <3>1, <3>4
    <3> QED
      BY <2>1, <3>3, <3>4
  <2> QED
    BY <2>2, <2>3
<1>16. \A j \in r..n : to + 1 < S(j)
  <2> SUFFICES ASSUME NEW j \in r..n PROVE to + 1 < S(j)
    OBVIOUS
  <2>1. j \in 1..n /\ j > i /\ i \in 0..n
    BY <1>1, <1>4, <1>10
  <2>2. CASE forward
    <3>1. i + 1 \in 1..n /\ i + 1 < j /\ to = E(i + 1)
      BY <1>1, <1>10, <2>1, <2>2
    <3> QED
      BY <1>3, <2>1, <3>1
  <2>3. CASE ~forward
    <3>1. i + 1 \in 1..n /\ to = end /\ end + 1 # S(i + 1)
      BY <1>1, <1>10, <2>1, <2>3
    <3>2. end + 1 < S(i + 1)
      BY <1>2, <1>8, <2>1, <3>1
    <3>3. CASE j = i + 1
      BY <3>1, <3>2, <3>3
    <3>4. CASE j > i + 1
      <4>1. E(i + 1) + 1 < S(j)
        BY <1>3, <2>1, <3>1, <3>4
      <4>3. S(i + 1) <= E(i + 1)
        BY <1>2, <3>1
      <4>2. S(i + 1) \in Nat /\ E(i + 1) \in Nat /\ S(j) \in Nat
        BY <1>2, <2>1, <3>1
      <4> QED
        BY <3>1, <3>2, <4>1, <4>2, <4>3
    <3> QED
      BY <2>1, <3>3, <3>4
  <2> QED
    BY <2>2, <2>3
<1> DEFINE t == Splice(list, l, mid, r)
<1>17. /\ t \in Seq(Blocks)
       /\ Coalesced(t)
       /\ \A p : p \in FreePages(t) <=>
             \/ \E j \in 1..n : (j <= l \/ j >= r) /\ p \in S(j)..E(j)
             \/ p \in from..to
  <2> HIDE DEF from, to, l, r, mid
  <2>1. \A j \in 1..l, k \in 1..Len(mid) : BlockEnd(list[j]) + 1 < mid[k].start
    BY <1>11, <1>12, <1>15 DEF E
  <2>2. \A k \in 1..Len(mid), j \in r..Len(list) : BlockEnd(mid[k]) + 1 < list[j].start
    BY <1>11, <1>12, <1>16 DEF S, n
  <2>3. l \in 0..Len(list) /\ r \in 1..Len(list) + 1 /\ l < r
    BY <1>10 DEF n
  <2> QED
    BY <1>11, <1>13, <1>14, <2>1, <2>2, <2>3, SpliceBlocks DEF S, E, n
<1>18. ASSUME NEW p \in FreePages(list) PROVE p \in FreePages(t)
  <2>1. PICK j \in 1..n : p \in S(j)..E(j)
    BY <1>1 DEF FreePages, S, E
  <2> HIDE DEF t, to, mid
  <2>2. j < r /\ j > l => p \in from..to
    <3> SUFFICES ASSUME j < r, j > l PROVE p \in from..to
      OBVIOUS
    <3>1. CASE j = i /\ backward
      <4>1. i \in 1..n /\ from = S(i) /\ E(i) < start
        BY <1>7, <3>1
      <4>2. to >= end /\ to \in Int
        <5>1. CASE forward
          <6>1. i + 1 \in 1..n /\ to = E(i + 1) /\ S(i + 1) = end + 1
            BY <1>1, <1>4, <1>10, <5>1
          <6>2. E(i + 1) \in Nat /\ E(i + 1) >= S(i + 1)
            BY <1>2, <6>1
          <6> HIDE DEF from, to, forward, backward
          <6> QED
            BY <6>1, <6>2
        <5>2. CASE ~forward
          BY <1>10, <5>2
        <5> QED
          BY <5>1, <5>2
      <4> QED
        BY <1>2, <2>1, <3>1, <4>1, <4>2
    <3>2. CASE j = i + 1 /\ forward
      BY <1>2, <1>7, <1>8, <1>10, <1>4, <2>1, <3>2
    <3> QED
      BY <1>1, <1>4, <3>1, <3>2
  <2>3. j >= r \/ j <= l \/ (j < r /\ j > l)
    BY <1>10
  <2> QED
    BY <1>17, <2>1, <2>2, <2>3
<1>19. ASSUME NEW p \in start..end PROVE p \in FreePages(t)
  <2> HIDE DEF t, to, mid
  <2>1. CASE backward /\ forward
    <3>1. i \in 1..n /\ i + 1 \in 1..n
      BY <1>1, <1>4, <2>1
    <3>2. from = S(i) /\ to = E(i + 1)
      BY <1>10, <2>1
    <3>4. S(i) <= start /\ E(i + 1) >= end
      <4>1. S(i) \in Nat /\ S(i + 1) \in Nat /\ E(i + 1) \in Nat /\ S(i + 1) <= E(i + 1)
        BY <1>2, <3>1
      <4>2. S(i) < start /\ S(i + 1) = end + 1
        BY <1>4, <2>1, <3>1
      <4> HIDE DEF from, forward, backward
      <4> QED
        BY <4>1, <4>2
    <3>3. p \in from..to
      BY <1>2, <3>1, <3>2, <3>4
    <3> QED
      BY <1>17, <3>3
  <2>2. CASE backward /\ ~forward
    <3>1. i \in 1..n
      BY <1>1, <1>4, <2>2
    <3>2. p \in from..to
      BY <1>2, <1>4, <1>10, <2>2, <3>1
    <3> QED
      BY <1>17, <3>2
  <2>3. CASE ~backward /\ forward
    <3>1. i + 1 \in 1..n
      BY <1>1, <1>4, <2>3
    <3>2. p \in from..to
      BY <1>2, <1>8, <1>4, <1>10, <2>3, <3>1
    <3> QED
      BY <1>17, <3>2
  <2>4. CASE ~backward /\ ~forward
    BY <1>10, <1>17, <2>4
  <2> QED
    BY <1>9, <2>1, <2>2, <2>3, <2>4
<1>20. ASSUME NEW p \in FreePages(t) PROVE p \in FreePages(list) \cup start..end
  <2> HIDE DEF t, mid, to
  <2>1. CASE \E j \in 1..n : p \in S(j)..E(j)
    BY <1>1, <2>1 DEF FreePages, S, E
  <2>2. CASE p \in from..to
    <3>1. p \in Nat /\ from <= p /\ p <= to
      <4>1. to \in Int
        BY <1>1, <1>2, <1>4, <1>10
      <4> QED
        BY <1>10, <2>2, <4>1
    <3>2. CASE p < start
      <4>1. backward /\ i \in 1..n
        BY <1>1, <1>4, <3>1, <3>2
      <4>2. S(i) <= p /\ p <= E(i)
        BY <1>2, <3>1, <3>2, <4>1
      <4> QED
        BY <1>6, <3>1, <4>1, <4>2
    <3>3. CASE p > end
      <4>1. forward /\ i + 1 \in 1..n
        BY <1>1, <1>4, <1>10, <3>1, <3>3
      <4>2. S(i + 1) <= p /\ p <= E(i + 1)
        BY <1>2, <1>10, <3>1, <3>3, <4>1
      <4> QED
        BY <1>6, <3>1, <4>1, <4>2
    <3> QED
      BY <3>1, <3>2, <3>3
  <2> QED
    BY <1>17, <2>1, <2>2
<1> QED
  BY <1>5, <1>17, <1>18, <1>19, <1>20

-----------------------------------------------------------------------------
(* Alignment *)

(* Division with remainder. *)
LEMMA DivMod ==
    ASSUME NEW x \in Nat, NEW a \in Nat \ {0}
    PROVE  x % a \in 0..a - 1 /\ x \div a \in Nat /\ x = a * (x \div a) + (x % a)
<1>1. x % a = x - a * (x \div a)
  BY Z3T(60)
<1>2. x % a \in 0..a - 1
  OBVIOUS
<1>3. x \div a \in Nat
  OBVIOUS
<1> DEFINE q == x \div a
           r == x % a
<1>4. r = x - a * q /\ r \in Int /\ q \in Nat
  BY <1>1, <1>2, <1>3
<1> HIDE DEF q, r
<1>5. a * q \in Nat
  BY <1>4
<1>6. x = a * q + r
  BY <1>4, <1>5
<1> QED
  BY <1>2, <1>3, <1>6 DEF q, r

(* The numbers of an alignment are its multiples. *)
LEMMA AlignedIs ==
    ASSUME NEW x \in Nat, NEW a \in Nat \ {0}
    PROVE  x % a = 0 <=> \E k \in Nat : x = a * k
<1>1. ASSUME x % a = 0 PROVE \E k \in Nat : x = a * k
  <2>1. x \div a \in Nat /\ x = a * (x \div a) + 0
    BY <1>1, DivMod
  <2>2. x = a * (x \div a)
    BY <2>1
  <2> QED
    BY <2>1, <2>2
<1>2. ASSUME NEW k \in Nat, x = a * k PROVE x % a = 0
  BY <1>2
<1> QED
  BY <1>1, <1>2

(* The number rounding down gives is the last aligned one that is not above. *)
LEMMA RoundDownIs ==
    ASSUME NEW x \in Nat, NEW a \in Nat \ {0}
    PROVE  /\ RoundDown(x, a) \in Nat
           /\ RoundDown(x, a) <= x
           /\ x < RoundDown(x, a) + a
           /\ RoundDown(x, a) % a = 0
           /\ \A m \in Nat : m % a = 0 /\ m <= x => m <= RoundDown(x, a)
<1> DEFINE q == x \div a
           r == x % a
<1>1. q \in Nat /\ r \in 0..a - 1 /\ x = a * q + r
  BY DivMod
<1>2. RoundDown(x, a) = x - r
  BY DEF RoundDown
<1> HIDE DEF q, r
<1>3. a * q \in Nat
  BY <1>1
<1>4. RoundDown(x, a) = a * q
  BY <1>1, <1>2, <1>3
<1>5. RoundDown(x, a) % a = 0
  BY <1>1, <1>3, <1>4, AlignedIs
<1>6. ASSUME NEW m \in Nat, m % a = 0, m <= x PROVE m <= a * q
  <2>1. PICK k \in Nat : m = a * k
    BY <1>6, AlignedIs
  <2>2. k <= q
    <3> SUFFICES ASSUME k >= q + 1 PROVE FALSE
      BY <1>1
    <3>1. a * k >= a * (q + 1)
      BY <1>1
    <3>2. a * (q + 1) = a * q + a
      BY <1>1
    <3> QED
      BY <1>1, <1>3, <1>6, <2>1, <3>1, <3>2
  <2> QED
    BY <1>1, <2>1, <2>2
<1>7. a * q <= x /\ x < a * q + a
  BY <1>1, <1>3
<1> QED
  BY <1>3, <1>4, <1>5, <1>6, <1>7

(* Sums and differences of aligned numbers are aligned. *)
LEMMA AlignedSums ==
    ASSUME NEW x \in Nat, NEW y \in Nat, NEW a \in Nat \ {0}, x % a = 0, y % a = 0
    PROVE  (x + y) % a = 0 /\ (y <= x => x - y \in Nat /\ (x - y) % a = 0)
<1>1. PICK k \in Nat : x = a * k
  BY AlignedIs
<1>2. PICK j \in Nat : y = a * j
  BY AlignedIs
<1>3. x + y = a * (k + j)
  BY <1>1, <1>2
<1>4. (x + y) % a = 0
  <2>1. x + y \in Nat /\ k + j \in Nat
    OBVIOUS
  <2> QED
    BY <1>3, <2>1, AlignedIs
<1>5. ASSUME y <= x PROVE x - y \in Nat /\ (x - y) % a = 0
  <2>1. j <= k
    BY <1>1, <1>2, <1>5
  <2>2. k - j \in Nat /\ x - y \in Nat /\ x - y = a * (k - j)
    BY <1>1, <1>2, <1>5, <2>1
  <2> QED
    BY <2>2, AlignedIs
<1> QED
  BY <1>4, <1>5

(* The size rounding up gives is the first aligned one that is not below. *)
LEMMA RoundUpIs ==
    ASSUME NEW n \in Nat, NEW a \in Nat \ {0}
    PROVE  /\ RoundUp(n, a) \in Nat
           /\ n <= RoundUp(n, a)
           /\ RoundUp(n, a) < n + a
           /\ RoundUp(n, a) % a = 0
<1>1. n + a - 1 \in Nat
  OBVIOUS
<1>2. RoundUp(n, a) = RoundDown(n + a - 1, a)
  BY DEF RoundUp
<1> DEFINE x == n + a - 1
           d == RoundDown(x, a)
<1>3. d \in Nat /\ d <= x /\ x < d + a /\ d % a = 0
  <2> HIDE DEF x
  <2> QED
    BY <1>1, RoundDownIs DEF x
<1> HIDE DEF d
<1>4. n <= d /\ d < n + a
  BY <1>3
<1> QED
  BY <1>2, <1>3, <1>4 DEF d

(* A page number that does not wrap. *)
LEMMA NoWrap ==
    ASSUME NEW x \in Nat, x < Word
    PROVE  x % Word = x
BY WordAssumption

(* A page number below zero wraps once. *)
LEMMA WrapBelow ==
    ASSUME NEW x \in Int, x < 0, x >= 0 - Word
    PROVE  x % Word = IF x = 0 - Word THEN 0 ELSE x + Word
<1> Word \in Nat \ {0}
  BY WordAssumption
<1> QED
  OBVIOUS

-----------------------------------------------------------------------------
(* RemoveFree *)

(* The pages of a request, rounded up to its alignment. *)
Rounded(n, align) == IF align = 0 THEN n ELSE RoundUp(n, align)

(* A page number of the wanted alignment. *)
Aligned(p, align) == align # 0 => p % align = 0

(* A run of n pages at p that a request may have. *)
Room(list, p, n, align, lo, hi) ==
    /\ Aligned(p, align)
    /\ p..p + n - 1 \subseteq FreePages(list)
    /\ lo <= p /\ p + n - 1 <= hi

(* The end of the request inside one block: nothing wraps, and the pages that end there     *)
(* start at an aligned page.                                                            *)
LEMMA RequestEndIs ==
    ASSUME NEW b \in Blocks, b.size > 0, BlockEnd(b) + 1 < Word,
           NEW n \in Nat \ {0}, NEW align \in Nat, NEW hi \in Nat,
           Min({hi, BlockEnd(b)}) + 1 >= align
    PROVE  LET end == Min({hi, BlockEnd(b)})
               top == RequestEnd(b, n, align, hi)
           IN  /\ top \in Nat /\ top <= end
               /\ align = 0 => top = end
               /\ align # 0 => top + 1 = RoundDown(end + 1, align) - RoundUp(n, align) + n
               /\ top + 1 >= n => Aligned(top + 1 - n, align)
<1> DEFINE end == Min({hi, BlockEnd(b)})
           top == RequestEnd(b, n, align, hi)
<1>1. BlockEnd(b) \in Nat
  BY DEF BlockEnd, Blocks
<1>2. end \in Nat /\ end < Word /\ Word \in Nat
  <2> DEFINE e == BlockEnd(b)
  <2>1. e \in Nat /\ e + 1 < Word /\ e \in Int /\ hi \in Int
    BY <1>1
  <2> HIDE DEF e
  <2>2. Min({hi, e}) = IF hi <= e THEN hi ELSE e
    BY <2>1, MaxMin
  <2> QED
    BY <2>1, <2>2, WordAssumption DEF e
<1> HIDE DEF end
<1>3. CASE align = 0
  <2>1. top = end
    BY <1>3 DEF RequestEnd, end
  <2> QED
    BY <1>2, <1>3, <2>1 DEF end, Aligned
<1>4. CASE align # 0
  <2> DEFINE d == RoundDown(end + 1, align)
             u == RoundUp(n, align)
  <2>1. top = (d - (u - n + 1)) % Word
    BY <1>4 DEF RequestEnd, end
  <2>2. d \in Nat /\ d <= end + 1 /\ d % align = 0 /\ align <= d
    <3>1. align % align = 0
      BY <1>4
    <3>2. end + 1 \in Nat /\ align <= end + 1
      BY <1>2 DEF end
    <3> QED
      BY <1>4, <3>1, <3>2, RoundDownIs
  <2>3. u \in Nat /\ n <= u /\ u < n + align /\ u % align = 0
    BY <1>4, RoundUpIs
  <2> HIDE DEF top, d, u
  <2>4. d - (u - n + 1) \in Nat /\ d - (u - n + 1) <= end
    BY <1>2, <2>2, <2>3
  <2>5. top = d - (u - n + 1)
    BY <1>2, <2>1, <2>4, NoWrap
  <2>6. ASSUME top + 1 >= n PROVE (top + 1 - n) % align = 0
    <3>1. u <= d /\ top + 1 - n = d - u
      BY <2>2, <2>3, <2>5, <2>6
    <3>2. (d - u) % align = 0
      <4>1. align \in Nat \ {0} /\ d \in Nat /\ u \in Nat /\ d % align = 0 /\ u % align = 0
        BY <1>4, <2>2, <2>3
      <4> QED
        BY <3>1, <4>1, AlignedSums
    <3> QED
      BY <3>1, <3>2
  <2>7. top \in Nat /\ top <= end /\ top + 1 = d - u + n
    BY <2>2, <2>3, <2>4, <2>5
  <2> QED
    BY <1>4, <2>6, <2>7 DEF end, top, d, u, Aligned
<1> QED
  BY <1>3, <1>4

(* RemoveFree's tests of a block, without the wrapping: there is room for n pages up to the *)
(* end of the request.                                                                  *)
LEMMA RequestFitsIs ==
    ASSUME NEW b \in Blocks, b.size > 0, BlockEnd(b) + 1 < Word,
           NEW n \in Nat \ {0}, NEW align \in Nat, NEW lo \in Nat, NEW hi \in Nat,
           Min({hi, BlockEnd(b)}) + 1 >= align
    PROVE  RequestFits(b, n, align, lo, hi) <=>
              RequestEnd(b, n, align, hi) + 1 >= Max({lo, b.start}) + n
<1> DEFINE end == Min({hi, BlockEnd(b)})
           top == RequestEnd(b, n, align, hi)
           from == Max({lo, b.start})
<1>1. BlockEnd(b) \in Nat /\ BlockEnd(b) = b.start + b.size - 1 /\ b.start \in Nat /\ b.size \in Nat
  BY DEF BlockEnd, Blocks
<1>2. end \in Nat /\ end <= BlockEnd(b) /\ end + 1 < Word /\ Word \in Nat
  <2> DEFINE e == BlockEnd(b)
  <2>1. e \in Nat /\ e + 1 < Word /\ e \in Int /\ hi \in Int
    BY <1>1
  <2> HIDE DEF e
  <2>2. Min({hi, e}) = IF hi <= e THEN hi ELSE e
    BY <2>1, MaxMin
  <2> QED
    BY <2>1, <2>2, WordAssumption DEF e
<1>3. from \in Nat /\ from >= b.start
  BY <1>1, MaxMin
<1>4. top \in Nat /\ top <= end /\ (align = 0 => top = end)
  BY RequestEndIs
<1>5. RequestFits(b, n, align, lo, hi) <=>
        /\ b.size >= n
        /\ end >= from
        /\ end - from + 1 >= n
        /\ align # 0 => top >= from /\ (top - from + 1) % Word >= n
  BY DEF RequestFits
<1> HIDE DEF end, top, from
<1>6. top >= from => (top - from + 1) % Word = top - from + 1
  <2> SUFFICES ASSUME top >= from PROVE (top - from + 1) % Word = top - from + 1
    OBVIOUS
  <2>1. top - from + 1 \in Nat /\ top - from + 1 < Word
    BY <1>2, <1>3, <1>4
  <2> QED
    BY <2>1, NoWrap
<1>7. ASSUME RequestFits(b, n, align, lo, hi) PROVE top + 1 >= from + n
  <2>1. CASE align = 0
    BY <1>2, <1>3, <1>4, <1>5, <1>7, <2>1
  <2>2. CASE align # 0
    <3>1. top - from + 1 >= n
      BY <1>5, <1>6, <1>7, <2>2
    <3> QED
      BY <1>3, <1>4, <3>1
  <2> QED
    BY <2>1, <2>2
<1>8. ASSUME top + 1 >= from + n PROVE RequestFits(b, n, align, lo, hi)
  <2>1. top >= from /\ top - from + 1 >= n
    BY <1>3, <1>4, <1>8
  <2>2. end >= from /\ end - from + 1 >= n /\ b.size >= n
    BY <1>1, <1>2, <1>3, <1>4, <2>1
  <2> QED
    BY <1>5, <1>6, <2>1, <2>2
<1> QED
  BY <1>7, <1>8 DEF top, from

(* What is left of a block on both sides of the pages taken. *)
LEMMA TwoBlocks ==
    ASSUME NEW a \in Blocks, NEW b \in Blocks, BlockEnd(a) + 1 < b.start
    PROVE  LET mid == NonEmpty(a) \o NonEmpty(b)
           IN  /\ mid \in Seq(Blocks)
               /\ Coalesced(mid)
               /\ \A k \in 1..Len(mid) : mid[k] = a \/ mid[k] = b
               /\ FreePages(mid) = a.start..BlockEnd(a) \cup b.start..BlockEnd(b)
<1> DEFINE mid == NonEmpty(a) \o NonEmpty(b)
<1>1. a.start \in Nat /\ a.size \in Nat /\ b.start \in Nat /\ b.size \in Nat
      /\ BlockEnd(a) = a.start + a.size - 1 /\ BlockEnd(b) = b.start + b.size - 1
  BY DEF Blocks, BlockEnd
<1>2. /\ a.size = 0 => a.start..BlockEnd(a) = {}
      /\ b.size = 0 => b.start..BlockEnd(b) = {}
  BY <1>1
<1>3. CASE a.size = 0 /\ b.size = 0
  <2>1. mid = <<>>
    BY <1>3 DEF NonEmpty
  <2> HIDE DEF mid
  <2>2. mid \in Seq(Blocks) /\ Len(mid) = 0 /\ DOMAIN mid = {}
    BY <2>1
  <2>3. FreePages(mid) = {} /\ Coalesced(mid)
    BY <2>2 DEF FreePages, Coalesced
  <2> QED
    BY <1>2, <1>3, <2>2, <2>3 DEF mid
<1>4. ASSUME NEW c \in Blocks, c.size > 0, <<c>> = mid
      PROVE  /\ mid \in Seq(Blocks) /\ Coalesced(mid)
             /\ \A k \in 1..Len(mid) : mid[k] = c
             /\ FreePages(mid) = c.start..BlockEnd(c)
  <2> HIDE DEF mid
  <2>1. mid \in Seq(Blocks) /\ Len(mid) = 1 /\ DOMAIN mid = {1} /\ mid[1] = c
    <3>1. <<c>> \in Seq(Blocks) /\ Len(<<c>>) = 1 /\ DOMAIN <<c>> = {1} /\ <<c>>[1] = c
      OBVIOUS
    <3> QED
      BY <1>4, <3>1
  <2>2. Coalesced(mid)
    BY <1>4, <2>1 DEF Coalesced
  <2>3. FreePages(mid) = c.start..BlockEnd(c)
    BY <2>1 DEF FreePages
  <2> QED
    BY <2>1, <2>2, <2>3
<1>5. CASE a.size = 0 /\ b.size # 0
  <2>1. <<b>> = mid /\ b.size > 0
    BY <1>1, <1>5 DEF NonEmpty
  <2> HIDE DEF mid
  <2> QED
    BY <1>2, <1>4, <1>5, <2>1 DEF mid
<1>6. CASE a.size # 0 /\ b.size = 0
  <2>1. <<a>> = mid /\ a.size > 0
    BY <1>1, <1>6 DEF NonEmpty
  <2> HIDE DEF mid
  <2> QED
    BY <1>2, <1>4, <1>6, <2>1 DEF mid
<1>7. CASE a.size # 0 /\ b.size # 0
  <2>1. mid = <<a, b>>
    BY <1>7, ConcatPair DEF NonEmpty
  <2> HIDE DEF mid
  <2>2. mid \in Seq(Blocks) /\ Len(mid) = 2 /\ DOMAIN mid = {1, 2} /\ mid[1] = a /\ mid[2] = b
    BY <2>1
  <2>3. a.size > 0 /\ b.size > 0
    BY <1>1, <1>7
  <2>4. Coalesced(mid)
    BY <2>2, <2>3 DEF Coalesced
  <2>5. FreePages(mid) = a.start..BlockEnd(a) \cup b.start..BlockEnd(b)
    BY <2>2 DEF FreePages
  <2> QED
    BY <2>2, <2>4, <2>5 DEF mid
<1> QED
  BY <1>3, <1>5, <1>6, <1>7

(* Blocks that are not adjacent hold a run of pages only if one of them holds all of it. *)
LEMMA RunInBlock ==
    ASSUME NEW list \in Seq(Blocks), Coalesced(list), NEW p \in Nat, NEW n \in Nat \ {0},
           p..p + n - 1 \subseteq FreePages(list)
    PROVE  \E i \in 1..Len(list) : list[i].start <= p /\ p + n - 1 <= BlockEnd(list[i])
<1>1. \A j \in 1..Len(list) : /\ list[j].start \in Nat /\ BlockEnd(list[j]) \in Nat
                              /\ list[j].start <= BlockEnd(list[j])
  <2> TAKE j \in 1..Len(list)
  <2>1. list[j] \in Blocks /\ list[j].size > 0
    BY DEF Coalesced
  <2> QED
    BY <2>1 DEF Blocks, BlockEnd
<1>2. PICK i \in 1..Len(list) : p \in list[i].start..BlockEnd(list[i])
  <2>1. p \in p..p + n - 1
    OBVIOUS
  <2> QED
    BY <2>1 DEF FreePages
<1>3. list[i].start <= p /\ p <= BlockEnd(list[i])
  BY <1>1, <1>2
<1>4. ASSUME p + n - 1 > BlockEnd(list[i]) PROVE FALSE
  <2> DEFINE q == BlockEnd(list[i]) + 1
  <2>1. q \in p..p + n - 1
    BY <1>1, <1>3, <1>4
  <2>2. PICK j \in 1..Len(list) : q \in list[j].start..BlockEnd(list[j])
    BY <2>1 DEF FreePages
  <2>3. list[j].start <= BlockEnd(list[i]) + 1 /\ BlockEnd(list[i]) + 1 <= BlockEnd(list[j])
    BY <1>1, <2>2
  <2>4. CASE j = i
    BY <1>1, <2>3, <2>4
  <2>5. CASE i < j
    <3>1. BlockEnd(list[i]) + 1 < list[j].start
      BY <2>5 DEF Coalesced
    <3> QED
      BY <1>1, <2>3, <3>1
  <2>6. CASE j < i
    <3>1. BlockEnd(list[j]) + 1 < list[i].start
      BY <2>6 DEF Coalesced
    <3> QED
      BY <1>1, <2>3, <3>1
  <2> QED
    BY <2>4, <2>5, <2>6
<1> QED
  BY <1>1, <1>3, <1>4

(* The block RemoveFree takes pages from. *)
LEMMA ChosenBlock ==
    ASSUME NEW list \in Seq(Blocks), NEW n, NEW align, NEW lo, NEW hi,
           Fitting(list, n, align, lo, hi) # {}
    PROVE  LET i == Max(Fitting(list, n, align, lo, hi))
           IN  i \in 1..Len(list) /\ RequestFits(list[i], n, align, lo, hi)
<1> DEFINE F == Fitting(list, n, align, lo, hi)
<1>1. Len(list) \in Nat /\ DOMAIN list = 1..Len(list)
  OBVIOUS
<1>2. F \in SUBSET (0..Len(list)) /\ F # {}
  BY <1>1 DEF Fitting
<1>3. Max(F) \in F
  <2> HIDE DEF F
  <2> QED
    BY <1>1, <1>2, MaxPosition
<1> QED
  BY <1>1, <1>3 DEF Fitting

(* The pages of a block: it is not empty, and its last page is below the modulus. *)
LEMMA BlockIs ==
    ASSUME NEW list \in Seq(Blocks), Coalesced(list),
           \A j \in 1..Len(list) : BlockEnd(list[j]) + 1 < Word,
           NEW i \in 1..Len(list), NEW hi \in Nat
    PROVE  LET b == list[i]
           IN  /\ b \in Blocks /\ b.size > 0 /\ b.start \in Nat /\ b.size \in Nat
               /\ BlockEnd(b) \in Nat /\ BlockEnd(b) = b.start + b.size - 1 /\ BlockEnd(b) + 1 < Word
               /\ Min({hi, BlockEnd(b)}) \in Nat
               /\ Min({hi, BlockEnd(b)}) = IF hi <= BlockEnd(b) THEN hi ELSE BlockEnd(b)
<1> DEFINE b == list[i]
           e == BlockEnd(b)
<1>1. b \in Blocks /\ b.size > 0 /\ e + 1 < Word
  BY DEF Coalesced
<1> HIDE DEF b
<1>2. b.start \in Nat /\ b.size \in Nat /\ e = b.start + b.size - 1 /\ e \in Nat
  BY <1>1 DEF Blocks, BlockEnd
<1> HIDE DEF e
<1>3. Min({hi, e}) = IF hi <= e THEN hi ELSE e
  <2>1. hi \in Int /\ e \in Int
    BY <1>2
  <2> QED
    BY <2>1, MaxMin
<1>4. Min({hi, e}) \in Nat
  BY <1>2, <1>3
<1> QED
  BY <1>1, <1>2, <1>3, <1>4 DEF b, e

(* Requests without an alignment, or with that of one page, are alignable. *)
LEMMA SmallAlignments ==
    ASSUME NEW list \in Seq(Blocks), Coalesced(list),
           \A j \in 1..Len(list) : BlockEnd(list[j]) + 1 < Word,
           NEW n \in Nat \ {0}, NEW align \in {0, 1}, NEW lo \in Nat, NEW hi \in Nat
    PROVE  Alignable(list, n, align, lo, hi)
<1> DEFINE F == Fitting(list, n, align, lo, hi)
           end == Min({hi, BlockEnd(list[Max(F)])})
<1>1. ASSUME F # {} PROVE end + 1 >= align
  <2>1. Max(F) \in 1..Len(list)
    BY <1>1, ChosenBlock
  <2>2. end \in Nat
    <3> HIDE DEF F
    <3> QED
      BY <2>1, BlockIs
  <2> HIDE DEF end
  <2> QED
    BY <2>2
<1> QED
  BY <1>1 DEF Alignable

(* RemoveFree, when it finds a block that reaches up to the alignment: the pages it gives   *)
(* are free, in the range and of the alignment asked for; exactly these leave the free    *)
(* list, and it stays coalesced.                                                        *)
THEOREM RemoveFreeTakes ==
    ASSUME NEW list \in Seq(Blocks), Coalesced(list),
           \A j \in 1..Len(list) : BlockEnd(list[j]) + 1 < Word,
           NEW n \in Nat \ {0}, NEW align \in Nat, NEW lo \in Nat, NEW hi \in Nat,
           Alignable(list, n, align, lo, hi),
           RemoveFree(list, n, align, lo, hi).found
    PROVE  LET r == RemoveFree(list, n, align, lo, hi)
           IN  /\ r.pfn \in Nat
               /\ Room(list, r.pfn, n, align, lo, hi)
               /\ r.list \in Seq(Blocks)
               /\ Coalesced(r.list)
               /\ FreePages(r.list) = FreePages(list) \ (r.pfn..r.pfn + n - 1)
<1> DEFINE F == Fitting(list, n, align, lo, hi)
           i == Max(F)
           b == list[i]
           e == BlockEnd(b)
           top == RequestEnd(b, n, align, hi)
           pfn == top - n + 1
           A == Block(b.start, pfn - b.start)
           B == Block(top + 1, e - top)
           mid == NonEmpty(A) \o NonEmpty(B)
           r == RemoveFree(list, n, align, lo, hi)
<1>1. Len(list) \in Nat /\ DOMAIN list = 1..Len(list)
  OBVIOUS
<1>2. F # {}
  BY DEF RemoveFree
<1>3. Min({hi, e}) + 1 >= align
  BY <1>2 DEF Alignable
<1>4. i \in 1..Len(list) /\ RequestFits(b, n, align, lo, hi)
  BY <1>2, ChosenBlock
<1> HIDE DEF F, i
<1>5. /\ b \in Blocks /\ b.size > 0 /\ b.start \in Nat /\ b.size \in Nat
      /\ e \in Nat /\ e = b.start + b.size - 1 /\ e + 1 < Word
      /\ Min({hi, e}) + 1 >= align
  BY <1>3, <1>4, BlockIs
<1> HIDE DEF b
<1>6. /\ top \in Nat /\ top <= Min({hi, e})
      /\ top + 1 >= n => Aligned(top + 1 - n, align)
      /\ top + 1 >= Max({lo, b.start}) + n
  BY <1>4, <1>5, RequestEndIs, RequestFitsIs
<1>7. Min({hi, e}) <= hi /\ Min({hi, e}) <= e /\ Max({lo, b.start}) >= lo /\ Max({lo, b.start}) >= b.start
      /\ Min({hi, e}) \in Nat /\ Max({lo, b.start}) \in Nat
  <2> DEFINE s == b.start
  <2>1. e \in Int /\ hi \in Int /\ lo \in Int /\ s \in Int
    BY <1>5
  <2> HIDE DEF e, s
  <2>2. Min({hi, e}) = (IF hi <= e THEN hi ELSE e) /\ Max({lo, s}) = (IF lo >= s THEN lo ELSE s)
    BY <2>1, MaxMin
  <2>3. e \in Nat /\ s \in Nat
    BY <1>5 DEF e, s
  <2>4. Min({hi, e}) <= hi /\ Min({hi, e}) <= e /\ Max({lo, s}) >= lo /\ Max({lo, s}) >= s
        /\ Min({hi, e}) \in Nat /\ Max({lo, s}) \in Nat
    BY <2>2, <2>3
  <2> QED
    BY <2>4 DEF s
<1> DEFINE x == b.start
<1>8. /\ pfn \in Nat /\ lo <= pfn /\ x <= pfn /\ top <= hi /\ top <= e /\ pfn + n - 1 = top
      /\ x \in Nat /\ e + 1 < Word /\ e \in Nat /\ top \in Nat
  <2> DEFINE f == Max({lo, x})
             g == Min({hi, e})
  <2>1. /\ top \in Nat /\ top <= g /\ top + 1 >= f + n
        /\ g <= hi /\ g <= e /\ f >= lo /\ f >= x /\ g \in Nat /\ f \in Nat
    BY <1>6, <1>7
  <2>2. x \in Nat /\ e \in Nat /\ e + 1 < Word
    BY <1>5
  <2> HIDE DEF e, top, x, f, g
  <2> QED
    BY <2>1, <2>2
<1>9. Aligned(pfn, align)
  <2> HIDE DEF e, top
  <2>1. top + 1 - n = pfn /\ top + 1 >= n
    BY <1>8, SMTT(30)
  <2> QED
    BY <1>6, <2>1
<1> HIDE DEF e, x
<1>10. /\ r.pfn = pfn
       /\ r.list = SubSeq(list, 1, i - 1) \o NonEmpty(A) \o NonEmpty(B) \o SubSeq(list, i + 1, Len(list))
  <2>1. Word \in Nat
    BY WordAssumption
  <2>2. r.pfn = pfn % Word
    BY <1>2 DEF RemoveFree, i, b, F
  <2>3. r.list = SubSeq(list, 1, i - 1)
                   \o NonEmpty(Block(b.start, (top - b.start - n + 1) % Word))
                   \o NonEmpty(Block((top + 1) % Word, (e - top) % Word))
                   \o SubSeq(list, i + 1, Len(list))
    BY <1>2 DEF RemoveFree, i, b, e, F
  <2> HIDE DEF top
  <2>4. pfn % Word = pfn
    <3>1. pfn < Word
      BY <1>8, <2>1
    <3> HIDE DEF pfn
    <3> QED
      BY <1>8, <3>1, NoWrap
  <2>5. (top - b.start - n + 1) % Word = pfn - b.start
    <3>1. top - x - n + 1 = pfn - x /\ pfn - x \in Nat /\ pfn - x < Word
      BY <1>8, <2>1
    <3>2. (pfn - x) % Word = pfn - x
      BY <3>1, NoWrap
    <3> QED
      BY <3>1, <3>2 DEF x
  <2>6. (top + 1) % Word = top + 1
    <3>1. top + 1 \in Nat /\ top + 1 < Word
      BY <1>8, <2>1
    <3> QED
      BY <3>1, NoWrap
  <2>7. (e - top) % Word = e - top
    <3>1. e - top \in Nat /\ e - top < Word
      BY <1>8, <2>1
    <3> QED
      BY <3>1, NoWrap
  <2> QED
    BY <2>2, <2>3, <2>4, <2>5, <2>6, <2>7
<1> HIDE DEF r
<1>11. /\ A \in Blocks /\ A.start = x /\ BlockEnd(A) = pfn - 1
       /\ B \in Blocks /\ B.start = top + 1 /\ BlockEnd(B) = e
       /\ BlockEnd(A) + 1 < B.start
  <2> HIDE DEF top
  <2>1. pfn - x \in Nat /\ e - top \in Nat /\ top + 1 \in Nat
    BY <1>8
  <2>2. A = [start |-> x, size |-> pfn - x] /\ B = [start |-> top + 1, size |-> e - top]
    BY DEF Block, x
  <2> HIDE DEF A, B
  <2>3. A \in Blocks /\ B \in Blocks
    BY <1>8, <2>1, <2>2 DEF Blocks
  <2>4. A.start = x /\ BlockEnd(A) = pfn - 1 /\ B.start = top + 1 /\ BlockEnd(B) = e
    BY <1>8, <2>1, <2>2 DEF BlockEnd
  <2> QED
    BY <1>8, <2>3, <2>4
<1> HIDE DEF A, B
<1>12. /\ mid \in Seq(Blocks)
       /\ Coalesced(mid)
       /\ \A k \in 1..Len(mid) : mid[k] = A \/ mid[k] = B
       /\ FreePages(mid) = A.start..BlockEnd(A) \cup B.start..BlockEnd(B)
  BY <1>11, TwoBlocks
<1>13. r.list = Splice(list, i - 1, mid, i + 1)
  <2> DEFINE X == SubSeq(list, 1, i - 1)
             Y == SubSeq(list, i + 1, Len(list))
  <2>1. X \in Seq(Blocks)
    BY <1>1, <1>4, SubSeqProperties, \A j \in 1..i - 1 : list[j] \in Blocks
  <2>2. NonEmpty(A) \in Seq(Blocks) /\ NonEmpty(B) \in Seq(Blocks)
    BY <1>11 DEF NonEmpty
  <2> HIDE DEF X, Y
  <2>3. (X \o NonEmpty(A)) \o NonEmpty(B) = X \o mid
    BY <2>1, <2>2, ConcatAssociative, SMTT(30)
  <2>4. r.list = ((X \o NonEmpty(A)) \o NonEmpty(B)) \o Y
    BY <1>10 DEF X, Y
  <2>5. r.list = (X \o mid) \o Y
    BY <2>3, <2>4
  <2> QED
    BY <2>5 DEF Splice, X, Y
<1> HIDE DEF mid
<1> DEFINE S(j) == list[j].start
           E(j) == BlockEnd(list[j])
<1>14. /\ \A j, k \in 1..Len(list) : j < k => E(j) + 1 < S(k)
       /\ \A j \in 1..Len(list) : S(j) \in Nat /\ E(j) \in Nat /\ S(j) <= E(j)
       /\ S(i) = x /\ E(i) = e
  <2>1. \A j, k \in 1..Len(list) : j < k => E(j) + 1 < S(k)
    BY <1>1 DEF Coalesced
  <2>2. ASSUME NEW j \in 1..Len(list) PROVE S(j) \in Nat /\ E(j) \in Nat /\ S(j) <= E(j)
    <3>1. list[j] \in Blocks /\ list[j].size > 0
      BY <1>1 DEF Coalesced
    <3> QED
      BY <3>1 DEF Blocks, BlockEnd
  <2>3. S(i) = x /\ E(i) = e
    BY DEF x, e, b
  <2> QED
    BY <2>1, <2>2, <2>3
<1>15. \A k \in 1..Len(mid) : mid[k].start >= x /\ BlockEnd(mid[k]) <= e
  <2> HIDE DEF top
  <2>1. A.start >= x /\ BlockEnd(A) <= e /\ B.start >= x /\ BlockEnd(B) <= e
    BY <1>8, <1>11
  <2> QED
    BY <1>12, <2>1
<1>16. \A k \in 1..Len(mid) : mid[k].start \in Nat /\ BlockEnd(mid[k]) \in Int
  <2> HIDE DEF top
  <2> QED
    BY <1>8, <1>11, <1>12
<1>17. /\ r.list \in Seq(Blocks)
       /\ Coalesced(r.list)
       /\ \A p : p \in FreePages(r.list) <=>
             \/ \E j \in 1..Len(list) : (j <= i - 1 \/ j >= i + 1) /\ p \in S(j)..E(j)
             \/ p \in FreePages(mid)
  <2> HIDE DEF pfn, top
  <2>1. i - 1 \in 0..Len(list) /\ i + 1 \in 1..Len(list) + 1 /\ i - 1 < i + 1
    BY <1>1, <1>4
  <2>2. \A j \in 1..i - 1, k \in 1..Len(mid) : BlockEnd(list[j]) + 1 < mid[k].start
    <3> TAKE j \in 1..i - 1, k \in 1..Len(mid)
    <3>1. j \in 1..Len(list) /\ j < i
      BY <1>1, <1>4
    <3>2. E(j) + 1 < S(i) /\ E(j) \in Nat
      BY <1>4, <1>14, <3>1
    <3>3. mid[k].start \in Nat /\ mid[k].start >= x
      BY <1>15, <1>16
    <3> QED
      BY <1>8, <1>14, <3>2, <3>3
  <2>3. \A k \in 1..Len(mid), j \in i + 1..Len(list) : BlockEnd(mid[k]) + 1 < list[j].start
    <3> TAKE k \in 1..Len(mid), j \in i + 1..Len(list)
    <3>1. j \in 1..Len(list) /\ i < j
      BY <1>1, <1>4
    <3>2. E(i) + 1 < S(j) /\ S(j) \in Nat
      BY <1>4, <1>14, <3>1
    <3>3. BlockEnd(mid[k]) \in Int /\ BlockEnd(mid[k]) <= e
      BY <1>15, <1>16
    <3>4. e + 1 < S(j) /\ e \in Nat
      BY <1>8, <1>14, <3>2
    <3> QED
      BY <3>2, <3>3, <3>4, SMTT(30)
  <2> DEFINE t == Splice(list, i - 1, mid, i + 1)
  <2>4. /\ t \in Seq(Blocks)
        /\ Coalesced(t)
        /\ \A p : p \in FreePages(t) <=>
              \/ \E j \in 1..Len(list) : (j <= i - 1 \/ j >= i + 1) /\ p \in list[j].start..BlockEnd(list[j])
              \/ p \in FreePages(mid)
    <3> DEFINE l == i - 1
               q == i + 1
    <3>1. /\ l \in 0..Len(list) /\ q \in 1..Len(list) + 1 /\ l < q
          /\ \A j \in 1..l, k \in 1..Len(mid) : BlockEnd(list[j]) + 1 < mid[k].start
          /\ \A k \in 1..Len(mid), j \in q..Len(list) : BlockEnd(mid[k]) + 1 < list[j].start
      BY <2>1, <2>2, <2>3
    <3> HIDE DEF l, q
    <3>2. /\ Splice(list, l, mid, q) \in Seq(Blocks)
          /\ Coalesced(Splice(list, l, mid, q))
          /\ \A p : p \in FreePages(Splice(list, l, mid, q)) <=>
              \/ \E j \in 1..Len(list) : (j <= l \/ j >= q) /\ p \in list[j].start..BlockEnd(list[j])
              \/ p \in FreePages(mid)
      BY <1>12, <3>1, SpliceBlocks
    <3> QED
      BY <3>2 DEF l, q
  <2> HIDE DEF t
  <2>5. r.list = t
    BY <1>13 DEF t
  <2> QED
    BY <2>4, <2>5
<1>18. \A p : p \in FreePages(list) <=> \E j \in 1..Len(list) : p \in S(j)..E(j)
  BY <1>1 DEF FreePages
<1>19. pfn..pfn + n - 1 \subseteq x..e /\ x..e \subseteq FreePages(list)
  <2>1. pfn..pfn + n - 1 \subseteq x..e
    <3> HIDE DEF top, pfn
    <3> QED
      BY <1>8
  <2> QED
    BY <1>4, <1>14, <1>18, <2>1
<1> HIDE DEF S, E
<1>20. FreePages(mid) = x..e \ (pfn..pfn + n - 1)
  <2> HIDE DEF top, pfn
  <2>1. pfn + n - 1 = top /\ A.start..BlockEnd(A) = x..pfn - 1 /\ B.start..BlockEnd(B) = top + 1..e
    BY <1>8, <1>11
  <2>2. ASSUME NEW p PROVE p \in x..pfn - 1 \cup top + 1..e <=> p \in x..e \ (pfn..top)
    BY <1>8
  <2> QED
    BY <1>12, <2>1, <2>2
<1>21. ASSUME NEW j \in 1..Len(list), j # i, NEW p \in S(j)..E(j) PROVE p \notin x..e
  <2>1. p \in Int /\ S(j) <= p /\ p <= E(j)
    BY <1>14
  <2>2. j < i \/ i < j
    BY <1>4, <1>21
  <2>3. CASE j < i
    <3>1. E(j) + 1 < x /\ E(j) \in Nat /\ x \in Nat /\ e \in Nat
      BY <1>4, <1>8, <1>14, <2>3
    <3> QED
      BY <2>1, <3>1
  <2>4. CASE i < j
    <3>1. e + 1 < S(j) /\ S(j) \in Nat /\ x \in Nat /\ e \in Nat
      BY <1>4, <1>8, <1>14, <2>4
    <3> QED
      BY <2>1, <3>1
  <2> QED
    BY <2>2, <2>3, <2>4
<1>22. \A j \in 1..Len(list) : j # i <=> (j <= i - 1 \/ j >= i + 1)
  BY <1>4
<1>23. FreePages(r.list) = FreePages(list) \ (pfn..pfn + n - 1)
  <2> HIDE DEF pfn
  <2> DEFINE P == pfn..pfn + n - 1
  <2>0. P \subseteq x..e
    BY <1>19
  <2>1. FreePages(mid) = x..e \ P
    BY <1>20
  <2> HIDE DEF P
  <2>2. ASSUME NEW p \in FreePages(r.list) PROVE p \in FreePages(list) \ P
    <3>1. CASE p \in FreePages(mid)
      BY <1>19, <2>1, <3>1
    <3>2. ASSUME NEW j \in 1..Len(list), j # i, p \in S(j)..E(j) PROVE p \in FreePages(list) \ P
      BY <1>18, <1>21, <2>0, <3>2
    <3> QED
      BY <1>17, <1>22, <3>1, <3>2
  <2>3. ASSUME NEW p \in FreePages(list) \ P PROVE p \in FreePages(r.list)
    <3>1. PICK j \in 1..Len(list) : p \in S(j)..E(j)
      BY <1>18
    <3>2. CASE j = i
      <4>1. p \in x..e
        BY <1>14, <3>1, <3>2
      <4> QED
        BY <1>17, <2>1, <4>1
    <3>3. CASE j # i
      BY <1>17, <1>22, <3>1, <3>3
    <3> QED
      BY <3>2, <3>3
  <2>4. FreePages(r.list) = FreePages(list) \ P
    BY <2>2, <2>3
  <2> QED
    BY <2>4 DEF P
<1>24. Room(list, pfn, n, align, lo, hi)
  <2> HIDE DEF top, pfn
  <2>1. pfn + n - 1 <= hi
    BY <1>8
  <2> QED
    BY <1>8, <1>9, <1>19, <2>1 DEF Room
<1> HIDE DEF pfn
<1>25. r.pfn = pfn /\ pfn \in Nat
  BY <1>8, <1>10
<1> QED
  BY <1>17, <1>23, <1>24, <1>25 DEF r

(* RemoveFree, when it takes a block that does not reach up to the alignment: the pages     *)
(* are those just below the modulus of page numbers.  PhysicalMemory.cpp does not refuse    *)
(* the block after the aligned end has wrapped.                                          *)
THEOREM RemoveFreeWraps ==
    ASSUME NEW list \in Seq(Blocks), Coalesced(list),
           \A j \in 1..Len(list) : BlockEnd(list[j]) + 1 < Word,
           NEW n \in Nat \ {0}, NEW align \in Nat, NEW lo \in Nat, NEW hi \in Nat,
           RoundUp(n, align) < Word,
           ~Alignable(list, n, align, lo, hi)
    PROVE  LET r == RemoveFree(list, n, align, lo, hi)
           IN  r.found /\ r.pfn = Word - RoundUp(n, align)
<1> DEFINE F == Fitting(list, n, align, lo, hi)
           i == Max(F)
           b == list[i]
           end == Min({hi, BlockEnd(b)})
           top == RequestEnd(b, n, align, hi)
           u == RoundUp(n, align)
           r == RemoveFree(list, n, align, lo, hi)
<1>1. F # {} /\ ~(end + 1 >= align)
  BY DEF Alignable
<1>2. i \in 1..Len(list)
  BY <1>1, ChosenBlock
<1>3. r.found /\ r.pfn = (top - n + 1) % Word
  BY <1>1 DEF RemoveFree
<1> HIDE DEF F, i
<1>4. end \in Nat
  BY <1>2, BlockIs
<1>5. align \in Nat \ {0} /\ end + 1 < align
  BY <1>1, <1>4
<1>6. top = (RoundDown(end + 1, align) - (u - n + 1)) % Word
  BY <1>5 DEF RequestEnd
<1> HIDE DEF b, end, top, u, r
<1>7. RoundDown(end + 1, align) = 0
  <2>1. end + 1 \in Nat /\ (end + 1) % align = end + 1
    BY <1>4, <1>5
  <2> QED
    BY <2>1 DEF RoundDown
<1>8. u \in Nat /\ n <= u /\ u < Word /\ Word \in Nat
  BY <1>5, RoundUpIs, WordAssumption DEF u
<1>9. top = Word - (u - n + 1)
  <2>1. 0 - (u - n + 1) \in Int /\ 0 - (u - n + 1) < 0 /\ 0 - (u - n + 1) >= 0 - Word
    BY <1>8
  <2> QED
    BY <1>6, <1>7, <1>8, <2>1, WrapBelow
<1>10. (top - n + 1) % Word = Word - u
  <2>1. top - n + 1 = Word - u /\ Word - u \in Nat /\ Word - u < Word
    BY <1>8, <1>9
  <2> QED
    BY <2>1, NoWrap
<1> QED
  BY <1>3, <1>10 DEF r, u

(* RemoveFree fails only when the free pages hold no run, in the range and of the           *)
(* alignment, of the size asked for rounded up to the alignment, whatever the alignment; *)
(* the list is unchanged.                                                               *)
THEOREM RemoveFreeFails ==
    ASSUME NEW list \in Seq(Blocks), Coalesced(list),
           \A j \in 1..Len(list) : BlockEnd(list[j]) + 1 < Word,
           NEW n \in Nat \ {0}, NEW align \in Nat, NEW lo \in Nat, NEW hi \in Nat,
           ~RemoveFree(list, n, align, lo, hi).found
    PROVE  /\ RemoveFree(list, n, align, lo, hi).list = list
           /\ \A p \in Nat : ~Room(list, p, Rounded(n, align), align, lo, hi)
<1>1. Fitting(list, n, align, lo, hi) = {}
  BY DEF RemoveFree
<1>2. RemoveFree(list, n, align, lo, hi).list = list
  BY <1>1 DEF RemoveFree
<1>3. ASSUME NEW p \in Nat, Room(list, p, Rounded(n, align), align, lo, hi) PROVE FALSE
  <2> DEFINE k == Rounded(n, align)
  <2>1. k \in Nat \ {0} /\ k >= n
    <3>1. CASE align = 0
      BY <3>1 DEF Rounded
    <3>2. CASE align # 0
      <4>1. RoundUp(n, align) \in Nat /\ n <= RoundUp(n, align)
        BY <3>2, RoundUpIs
      <4> QED
        BY <3>2, <4>1 DEF Rounded
    <3> QED
      BY <3>1, <3>2
  <2>2. /\ Aligned(p, align) /\ p..p + k - 1 \subseteq FreePages(list)
        /\ lo <= p /\ p + k - 1 <= hi
    BY <1>3 DEF Room
  <2> HIDE DEF k
  <2>3. PICK i \in 1..Len(list) : list[i].start <= p /\ p + k - 1 <= BlockEnd(list[i])
    BY <2>1, <2>2, RunInBlock
  <2> DEFINE b == list[i]
             e == BlockEnd(b)
             x == b.start
             end == Min({hi, e})
             top == RequestEnd(b, n, align, hi)
  <2>4. b \in Blocks /\ b.size > 0 /\ e + 1 < Word
    BY DEF Coalesced
  <2>5. e \in Nat /\ x \in Nat
    BY <2>4 DEF Blocks, BlockEnd
  <2>6. end + 1 >= align =>
           /\ top \in Nat
           /\ align = 0 => top = end
           /\ align # 0 => top + 1 = RoundDown(end + 1, align) - RoundUp(n, align) + n
           /\ RequestFits(b, n, align, lo, hi) <=> top + 1 >= Max({lo, x}) + n
    <3> HIDE DEF b
    <3> QED
      BY <2>4, RequestEndIs, RequestFitsIs
  <2> HIDE DEF e, x, top, b
  <2>7. /\ end = (IF hi <= e THEN hi ELSE e)
        /\ Max({lo, x}) = (IF lo >= x THEN lo ELSE x)
    <3>1. e \in Int /\ hi \in Int /\ lo \in Int /\ x \in Int
      BY <2>5
    <3> QED
      BY <3>1, MaxMin
  <2> DEFINE from == Max({lo, x})
  <2>8. /\ end \in Nat /\ p + k - 1 <= end
        /\ from \in Nat /\ from <= p
    <3>1. x <= p /\ p + k - 1 <= e
      BY <2>3 DEF x, e, b
    <3> HIDE DEF end, from
    <3>2. end = hi \/ end = e
      BY <2>7 DEF end
    <3>3. from = lo \/ from = x
      BY <2>7 DEF from
    <3> QED
      BY <2>1, <2>2, <2>5, <3>1, <3>2, <3>3
  <2> HIDE DEF end, from
  <2>9. end + 1 >= align
    <3>1. CASE align = 0
      BY <2>8, <3>1
    <3>2. CASE align # 0
      <4>1. k = RoundUp(n, align)
        BY <3>2 DEF k, Rounded
      <4>2. k % align = 0 /\ align \in Nat \ {0}
        BY <3>2, <4>1, RoundUpIs
      <4>3. k >= align
        BY <2>1, <4>2
      <4> QED
        BY <2>1, <2>8, <4>3
    <3> QED
      BY <3>1, <3>2
  <2>10. /\ top \in Nat
         /\ align = 0 => top = end
         /\ align # 0 => top + 1 = RoundDown(end + 1, align) - RoundUp(n, align) + n
         /\ RequestFits(b, n, align, lo, hi) <=> top + 1 >= from + n
    BY <2>6, <2>9 DEF end, from
  <2>11. top + 1 >= p + n
    <3>1. CASE align = 0
      <4>1. k = n /\ top = end
        BY <2>10, <3>1 DEF k, Rounded
      <4> QED
        BY <2>8, <4>1
    <3>2. CASE align # 0
      <4> DEFINE d == RoundDown(end + 1, align)
      <4>1. k = RoundUp(n, align) /\ top + 1 = d - k + n
        BY <2>10, <3>2 DEF k, Rounded
      <4>2. k % align = 0 /\ p % align = 0 /\ align \in Nat \ {0}
        BY <2>2, <3>2, <4>1, RoundUpIs DEF Aligned
      <4>3. (p + k) % align = 0 /\ p + k \in Nat /\ p + k <= end + 1 /\ end + 1 \in Nat
        <5>1. (p + k) % align = 0
          BY <2>1, <4>2, AlignedSums
        <5> QED
          BY <2>1, <2>8, <5>1
      <4>4. p + k <= d /\ d \in Nat
        BY <4>2, <4>3, RoundDownIs
      <4> HIDE DEF d
      <4> QED
        BY <2>1, <2>10, <4>1, <4>4
    <3> QED
      BY <3>1, <3>2
  <2>12. RequestFits(b, n, align, lo, hi)
    <3>1. top + 1 >= from + n
      BY <2>10, <2>8, <2>11
    <3> QED
      BY <2>10, <3>1 DEF from
  <2>13. i \in Fitting(list, n, align, lo, hi)
    BY <2>12 DEF Fitting, b
  <2> QED
    BY <1>1, <2>13
<1> QED
  BY <1>2, <1>3

(* A request that is not alignable gets pages that do not exist. *)
LEMMA UnalignableOutside ==
    ASSUME NEW list \in Seq(Blocks), Coalesced(list), FreePages(list) \subseteq Pages,
           NEW n \in Sizes, NEW align \in Alignments, NEW lo \in Nat, NEW hi \in Nat,
           ~Alignable(list, n, align, lo, hi)
    PROVE  RemoveFree(list, n, align, lo, hi).pfn \notin Pages
<1>1. n \in Nat \ {0} /\ align \in Nat \ {0} /\ HighestPage \in Nat /\ HighestPage + 1 < Word
      /\ Word \in Nat
  BY VMAssumption, WordAssumption
<1>2. RoundUp(n, align) + HighestPage < Word /\ RoundUp(n, align) \in Nat
  BY <1>1, VMAssumption, RoundUpIs
<1>3. ASSUME NEW j \in 1..Len(list) PROVE BlockEnd(list[j]) + 1 < Word
  <2>1. list[j] \in Blocks /\ list[j].size > 0
    BY DEF Coalesced
  <2>2. BlockEnd(list[j]) \in Nat /\ BlockEnd(list[j]) \in list[j].start..BlockEnd(list[j])
    BY <2>1 DEF Blocks, BlockEnd
  <2>3. BlockEnd(list[j]) \in FreePages(list)
    BY <2>2 DEF FreePages
  <2>4. BlockEnd(list[j]) \in 0..HighestPage
    BY <2>3 DEF Pages
  <2> QED
    BY <1>1, <2>2, <2>4
<1> DEFINE r == RemoveFree(list, n, align, lo, hi)
<1>4. r.pfn = Word - RoundUp(n, align)
  <2>1. RoundUp(n, align) < Word
    BY <1>1, <1>2
  <2> QED
    BY <1>1, <1>3, <2>1, RemoveFreeWraps
<1> HIDE DEF r
<1>5. r.pfn > HighestPage
  BY <1>1, <1>2, <1>4
<1>6. r.pfn \notin Pages
  BY <1>1, <1>5 DEF Pages
<1> QED
  BY <1>6 DEF r

(* While the free list is coalesced and inside physical memory, every request               *)
(* RemoveFreeExact asks about gets pages it may have, or there are none.                 *)
LEMMA RequestsExact ==
    ASSUME vm.free \in Seq(Blocks), Coalesced(vm.free), FreePages(vm.free) \subseteq Pages
    PROVE  RemoveFreeExact
<1> SUFFICES ASSUME NEW n \in Sizes, NEW align \in Alignments, NEW range \in Ranges
             PROVE  LET hi == Min({range[2], MaxContiguousPfn})
                        lo == Min({range[1], hi})
                        r  == RemoveFree(vm.free, n, align, lo, hi)
                        Good(p, k) == p % align = 0 /\ p .. p + k - 1 \subseteq FreePages(vm.free)
                                      /\ p >= lo /\ p + k - 1 <= hi
                    IN  IF ~r.found THEN \A p \in Pages : ~Good(p, RoundUp(n, align))
                        ELSE IF Alignable(vm.free, n, align, lo, hi) THEN Good(r.pfn, n)
                        ELSE r.pfn \notin Pages
  BY DEF RemoveFreeExact
<1> DEFINE list == vm.free
           hi == Min({range[2], MaxContiguousPfn})
           lo == Min({range[1], hi})
<1>1. n \in Nat \ {0} /\ align \in Nat \ {0} /\ lo \in Nat /\ hi \in Nat
  <2>1. n \in Nat \ {0} /\ align \in Nat \ {0} /\ range[1] \in Nat /\ range[2] \in Nat
        /\ MaxContiguousPfn \in Nat
    BY VMAssumption
  <2> DEFINE a == range[1]
             b == range[2]
  <2>2. hi = b \/ hi = MaxContiguousPfn
    <3> HIDE DEF a, b
    <3>1. b \in Int /\ MaxContiguousPfn \in Int
      BY <2>1 DEF b
    <3> QED
      BY <3>1, MaxMin DEF b
  <2>3. hi \in Nat
    BY <2>1, <2>2
  <2> HIDE DEF hi
  <2>4. lo = a \/ lo = hi
    <3>1. a \in Int /\ hi \in Int
      BY <2>1, <2>3 DEF a
    <3> HIDE DEF a
    <3> QED
      BY <3>1, MaxMin DEF a
  <2> QED
    BY <2>1, <2>3, <2>4
<1>2. list \in Seq(Blocks) /\ Coalesced(list) /\ FreePages(list) \subseteq Pages
  OBVIOUS
<1>3. HighestPage \in Nat /\ HighestPage + 1 < Word /\ Word \in Nat
  BY VMAssumption, WordAssumption
<1>4. RoundUp(n, align) + HighestPage < Word /\ RoundUp(n, align) \in Nat
  BY <1>1, VMAssumption, RoundUpIs
<1> DEFINE r == RemoveFree(list, n, align, lo, hi)
<1> HIDE DEF list, lo, hi
<1>5. ASSUME NEW j \in 1..Len(list) PROVE BlockEnd(list[j]) + 1 < Word
  <2>1. list[j] \in Blocks /\ list[j].size > 0
    BY <1>2 DEF Coalesced
  <2>2. BlockEnd(list[j]) \in Nat /\ BlockEnd(list[j]) \in list[j].start..BlockEnd(list[j])
    BY <2>1 DEF Blocks, BlockEnd
  <2>3. BlockEnd(list[j]) \in FreePages(list)
    BY <1>2, <2>2 DEF FreePages
  <2>4. BlockEnd(list[j]) \in 0..HighestPage
    BY <1>2, <2>3 DEF Pages
  <2> QED
    BY <1>3, <2>2, <2>4
<1>6. CASE r.found /\ Alignable(list, n, align, lo, hi)
  <2>1. Room(list, r.pfn, n, align, lo, hi)
    BY <1>1, <1>2, <1>5, <1>6, RemoveFreeTakes
  <2> HIDE DEF r
  <2>2. r.pfn % align = 0 /\ r.pfn .. r.pfn + n - 1 \subseteq FreePages(list)
        /\ r.pfn >= lo /\ r.pfn + n - 1 <= hi
    BY <1>1, <2>1 DEF Room, Aligned
  <2> QED
    BY <1>6, <2>2 DEF r, list, lo, hi
<1>7. CASE r.found /\ ~Alignable(list, n, align, lo, hi)
  <2>1. r.pfn \notin Pages
    BY <1>1, <1>2, <1>7, UnalignableOutside
  <2> QED
    BY <1>7, <2>1 DEF r, list, lo, hi
<1>8. CASE ~r.found
  <2>1. \A p \in Nat : ~Room(list, p, Rounded(n, align), align, lo, hi)
    BY <1>1, <1>2, <1>5, <1>8, RemoveFreeFails
  <2>2. ASSUME NEW p \in Pages,
               p % align = 0, p .. p + RoundUp(n, align) - 1 \subseteq FreePages(list),
               p >= lo, p + RoundUp(n, align) - 1 <= hi
        PROVE  FALSE
    <3>1. p \in Nat
      BY <1>3 DEF Pages
    <3>2. Rounded(n, align) = RoundUp(n, align)
      BY <1>1 DEF Rounded
    <3>3. Room(list, p, Rounded(n, align), align, lo, hi)
      BY <1>1, <2>2, <3>1, <3>2 DEF Room, Aligned
    <3> QED
      BY <2>1, <3>1, <3>3
  <2> QED
    BY <1>8, <2>2 DEF r, list, lo, hi
<1> QED
  BY <1>6, <1>7, <1>8

(* What holds at the first of some numbers in a row and goes on from each to the next. *)
LEMMA StepByStep ==
    ASSUME NEW a \in Int, NEW b \in Int, NEW T, a \in T,
           \A i \in a + 1..b : i - 1 \in T => i \in T
    PROVE  \A i \in a..b : i \in T
<1> DEFINE D == {k \in Nat : a + k \in a..b /\ a + k \notin T}
<1>1. SUFFICES D = {}
  <2> SUFFICES ASSUME NEW i \in a..b, i \notin T PROVE D # {}
    BY <1>1
  <2>1. i - a \in Nat /\ a + (i - a) = i
    OBVIOUS
  <2>2. i - a \in D
    BY <2>1
  <2> QED
    BY <2>2
<1>2. SUFFICES ASSUME D # {} PROVE FALSE
  OBVIOUS
<1>3. PICK x \in D : \A y \in D : ~(y < x)
  <2>0. D \subseteq Nat
    OBVIOUS
  <2> HIDE DEF D
  <2>1. PICK x \in D : \A y \in D : ~(<<y, x>> \in OpToRel(<, Nat))
    BY <1>2, <2>0, WFMin, NatLessThanWellFounded
  <2>2. \A y \in D : ~(y < x)
    BY <2>0, <2>1 DEF OpToRel
  <2> QED
    BY <2>2
<1>4. x \in Nat /\ a + x \in a..b /\ a + x \notin T
  OBVIOUS
<1>5. x # 0
  BY <1>4
<1>6. x - 1 \in Nat /\ a + (x - 1) \in a..b /\ x - 1 \notin D
  BY <1>3, <1>4, <1>5
<1>7. a + (x - 1) \in T
  BY <1>6
<1>8. a + x \in a + 1..b /\ (a + x) - 1 = a + (x - 1)
  BY <1>4, <1>5
<1> QED
  BY <1>4, <1>7, <1>8

(* The states a loop goes through, one after each step: AllocatePT. *)
LEMMA AllocatePTLoop ==
    ASSUME NEW m, NEW v, NEW n, Pde(v) \in Int, Pde(v + n - 1) \in Int, Pde(v) - 1 <= Pde(v + n - 1)
    PROVE  \E g : /\ AllocatePT(m, v, n) = g[Pde(v + n - 1)]
                  /\ g[Pde(v) - 1] = m
                  /\ \A i \in Pde(v)..Pde(v + n - 1) : g[i] = CommitTable(g[i - 1], i)
<1> DEFINE first == Pde(v)
           last == Pde(v + n - 1)
<1>0. first \in Int /\ last \in Int /\ first - 1 <= last
  OBVIOUS
<1> HIDE DEF first, last
<1> DEFINE IsLoop(g, k) == g = [i \in first - 1..k |-> IF i < first THEN m ELSE CommitTable(g[i - 1], i)]
           T == {k \in first - 1..last : \E g : IsLoop(g, k)}
<1>1. first - 1 \in T
  <2>1. IsLoop([i \in first - 1..first - 1 |-> m], first - 1)
    BY <1>0
  <2> QED
    BY <1>0, <2>1
<1>2. ASSUME NEW k \in (first - 1) + 1..last, k - 1 \in T PROVE k \in T
  <2>1. PICK g : IsLoop(g, k - 1)
    BY <1>2
  <2> DEFINE h == [i \in first - 1..k |-> IF i < k THEN g[i] ELSE CommitTable(g[k - 1], k)]
  <2>2. IsLoop(h, k)
    BY <1>0, <2>1
  <2> HIDE DEF IsLoop
  <2> QED
    BY <1>0, <2>2
<1>3. last \in T
  <2> HIDE DEF T
  <2> QED
    BY <1>0, <1>1, <1>2, StepByStep
<1> DEFINE g == CHOOSE g : IsLoop(g, last)
<1>4. IsLoop(g, last)
  <2> HIDE DEF IsLoop
  <2> QED
    BY <1>3
<1>5. AllocatePT(m, v, n) = g[last]
  BY DEF Loop, AllocatePT, first, last
<1> HIDE DEF g
<1>6. \A i \in first..last : g[i] = CommitTable(g[i - 1], i)
  BY <1>0, <1>4
<1>7. g[first - 1] = m
  BY <1>0, <1>4
<1> QED
  BY <1>5, <1>6, <1>7 DEF first, last

(* The same for DeallocatePT. *)
LEMMA DeallocatePTLoop ==
    ASSUME NEW m, NEW v, NEW n, Pde(v) \in Int, Pde(v + n - 1) \in Int, Pde(v) - 1 <= Pde(v + n - 1)
    PROVE  \E g : /\ DeallocatePT(m, v, n) = g[Pde(v + n - 1)]
                  /\ g[Pde(v) - 1] = m
                  /\ \A i \in Pde(v)..Pde(v + n - 1) : g[i] = FreeTable(g[i - 1], i)
<1> DEFINE first == Pde(v)
           last == Pde(v + n - 1)
<1>0. first \in Int /\ last \in Int /\ first - 1 <= last
  OBVIOUS
<1> HIDE DEF first, last
<1> DEFINE IsLoop(g, k) == g = [i \in first - 1..k |-> IF i < first THEN m ELSE FreeTable(g[i - 1], i)]
           T == {k \in first - 1..last : \E g : IsLoop(g, k)}
<1>1. first - 1 \in T
  <2>1. IsLoop([i \in first - 1..first - 1 |-> m], first - 1)
    BY <1>0
  <2> QED
    BY <1>0, <2>1
<1>2. ASSUME NEW k \in (first - 1) + 1..last, k - 1 \in T PROVE k \in T
  <2>1. PICK g : IsLoop(g, k - 1)
    BY <1>2
  <2> DEFINE h == [i \in first - 1..k |-> IF i < k THEN g[i] ELSE FreeTable(g[k - 1], k)]
  <2>2. IsLoop(h, k)
    BY <1>0, <2>1
  <2> HIDE DEF IsLoop
  <2> QED
    BY <1>0, <2>2
<1>3. last \in T
  <2> HIDE DEF T
  <2> QED
    BY <1>0, <1>1, <1>2, StepByStep
<1> DEFINE g == CHOOSE g : IsLoop(g, last)
<1>4. IsLoop(g, last)
  <2> HIDE DEF IsLoop
  <2> QED
    BY <1>3
<1>5. DeallocatePT(m, v, n) = g[last]
  BY DEF Loop, DeallocatePT, first, last
<1> HIDE DEF g
<1>6. \A i \in first..last : g[i] = FreeTable(g[i - 1], i)
  BY <1>0, <1>4
<1>7. g[first - 1] = m
  BY <1>0, <1>4
<1> QED
  BY <1>5, <1>6, <1>7 DEF first, last

(* The loop of AllocateSystemMemory. *)
LEMMA CommitSystemPagesLoop ==
    ASSUME NEW m, NEW first \in Int, NEW last \in Int, first - 1 <= last
    PROVE  \E g : /\ CommitSystemPages(m, first, last) = g[last]
                  /\ g[first - 1] = m
                  /\ \A i \in first..last : g[i] = CommitSystemPage(g[i - 1], i)
<1> DEFINE IsLoop(g, k) == g = [i \in first - 1..k |-> IF i < first THEN m ELSE CommitSystemPage(g[i - 1], i)]
           T == {k \in first - 1..last : \E g : IsLoop(g, k)}
<1>1. first - 1 \in T
  <2>1. IsLoop([i \in first - 1..first - 1 |-> m], first - 1)
    OBVIOUS
  <2> QED
    BY <2>1
<1>2. ASSUME NEW k \in (first - 1) + 1..last, k - 1 \in T PROVE k \in T
  <2>1. PICK g : IsLoop(g, k - 1)
    BY <1>2
  <2> DEFINE h == [i \in first - 1..k |-> IF i < k THEN g[i] ELSE CommitSystemPage(g[k - 1], k)]
             D == first - 1..k
  <2>2. IsLoop(h, k)
    <3>1. \A i \in D : i \in Int /\ k \in Int /\ first <= k /\ (i < k => i \in first - 1..k - 1)
                         /\ (i >= first => i - 1 \in first - 1..k - 1 /\ i - 1 \in D /\ i - 1 < k)
      BY <1>2
    <3>2. \A i \in first - 1..k - 1 : g[i] = IF i < first THEN m ELSE CommitSystemPage(g[i - 1], i)
      BY <2>1
    <3>3. \A i \in D : h[i] = IF i < first THEN m ELSE CommitSystemPage(h[i - 1], i)
      <4> TAKE i \in D
      <4>1. CASE i < k
        BY <3>1, <3>2, <4>1
      <4>2. CASE ~(i < k)
        BY <3>1, <4>2
      <4> QED
        BY <4>1, <4>2
    <3>4. h = [i \in D |-> h[i]]
      OBVIOUS
    <3> HIDE DEF h
    <3> QED
      BY <3>3, <3>4
  <2> HIDE DEF IsLoop
  <2> QED
    BY <2>2
<1>3. last \in T
  <2> HIDE DEF T
  <2> QED
    BY <1>1, <1>2, StepByStep
<1> DEFINE g == CHOOSE g : IsLoop(g, last)
<1>4. IsLoop(g, last)
  <2> HIDE DEF IsLoop
  <2> QED
    BY <1>3
<1>5. CommitSystemPages(m, first, last) = g[last]
  BY DEF Loop, CommitSystemPages
<1> HIDE DEF g
<1> QED
  BY <1>4, <1>5

(* The loop of XbAllocateVirtualMemory. *)
LEMMA CommitVirtualPagesLoop ==
    ASSUME NEW m, NEW first \in Int, NEW last \in Int, first - 1 <= last
    PROVE  \E g : /\ CommitVirtualPages(m, first, last) = g[last]
                  /\ g[first - 1] = m
                  /\ \A i \in first..last : g[i] = CommitVirtualPage(g[i - 1], i)
<1> DEFINE IsLoop(g, k) == g = [i \in first - 1..k |-> IF i < first THEN m ELSE CommitVirtualPage(g[i - 1], i)]
           T == {k \in first - 1..last : \E g : IsLoop(g, k)}
<1>1. first - 1 \in T
  <2>1. IsLoop([i \in first - 1..first - 1 |-> m], first - 1)
    OBVIOUS
  <2> QED
    BY <2>1
<1>2. ASSUME NEW k \in (first - 1) + 1..last, k - 1 \in T PROVE k \in T
  <2>1. PICK g : IsLoop(g, k - 1)
    BY <1>2
  <2> DEFINE h == [i \in first - 1..k |-> IF i < k THEN g[i] ELSE CommitVirtualPage(g[k - 1], k)]
  <2>2. IsLoop(h, k)
    BY <2>1
  <2> HIDE DEF IsLoop
  <2> QED
    BY <2>2
<1>3. last \in T
  <2> HIDE DEF T
  <2> QED
    BY <1>1, <1>2, StepByStep
<1> DEFINE g == CHOOSE g : IsLoop(g, last)
<1>4. IsLoop(g, last)
  <2> HIDE DEF IsLoop
  <2> QED
    BY <1>3
<1>5. CommitVirtualPages(m, first, last) = g[last]
  BY DEF Loop, CommitVirtualPages
<1> HIDE DEF g
<1> QED
  BY <1>4, <1>5

(* The loop of DeallocateSystemMemory. *)
LEMMA FreeSystemPagesLoop ==
    ASSUME NEW m, NEW first \in Int, NEW last \in Int, first - 1 <= last
    PROVE  \E g : /\ FreeSystemPages(m, first, last) = g[last]
                  /\ g[first - 1] = m
                  /\ \A i \in first..last : g[i] = FreeSystemPage(g[i - 1], i)
<1> DEFINE IsLoop(g, k) == g = [i \in first - 1..k |-> IF i < first THEN m ELSE FreeSystemPage(g[i - 1], i)]
           T == {k \in first - 1..last : \E g : IsLoop(g, k)}
<1>1. first - 1 \in T
  <2>1. IsLoop([i \in first - 1..first - 1 |-> m], first - 1)
    OBVIOUS
  <2> QED
    BY <2>1
<1>2. ASSUME NEW k \in (first - 1) + 1..last, k - 1 \in T PROVE k \in T
  <2>1. PICK g : IsLoop(g, k - 1)
    BY <1>2
  <2> DEFINE h == [i \in first - 1..k |-> IF i < k THEN g[i] ELSE FreeSystemPage(g[k - 1], k)]
             D == first - 1..k
  <2>2. IsLoop(h, k)
    <3>1. \A i \in D : i \in Int /\ k \in Int /\ first <= k /\ (i < k => i \in first - 1..k - 1)
                         /\ (i >= first => i - 1 \in first - 1..k - 1 /\ i - 1 \in D /\ i - 1 < k)
      BY <1>2
    <3>2. \A i \in first - 1..k - 1 : g[i] = IF i < first THEN m ELSE FreeSystemPage(g[i - 1], i)
      BY <2>1
    <3>3. \A i \in D : h[i] = IF i < first THEN m ELSE FreeSystemPage(h[i - 1], i)
      <4> TAKE i \in D
      <4>1. CASE i < k
        BY <3>1, <3>2, <4>1
      <4>2. CASE ~(i < k)
        BY <3>1, <4>2
      <4> QED
        BY <4>1, <4>2
    <3>4. h = [i \in D |-> h[i]]
      OBVIOUS
    <3> HIDE DEF h
    <3> QED
      BY <3>3, <3>4
  <2> HIDE DEF IsLoop
  <2> QED
    BY <2>2
<1>3. last \in T
  <2> HIDE DEF T
  <2> QED
    BY <1>1, <1>2, StepByStep
<1> DEFINE g == CHOOSE g : IsLoop(g, last)
<1>4. IsLoop(g, last)
  <2> HIDE DEF IsLoop
  <2> QED
    BY <1>3
<1>5. FreeSystemPages(m, first, last) = g[last]
  BY DEF Loop, FreeSystemPages
<1> HIDE DEF g
<1> QED
  BY <1>4, <1>5

(* The loop of XbFreeVirtualMemory. *)
LEMMA DecommitPagesLoop ==
    ASSUME NEW m, NEW first \in Int, NEW last \in Int, first - 1 <= last
    PROVE  \E g : /\ DecommitPages(m, first, last) = g[last]
                  /\ g[first - 1] = m
                  /\ \A i \in first..last : g[i] = DecommitPage(g[i - 1], i)
<1> DEFINE IsLoop(g, k) == g = [i \in first - 1..k |-> IF i < first THEN m ELSE DecommitPage(g[i - 1], i)]
           T == {k \in first - 1..last : \E g : IsLoop(g, k)}
<1>1. first - 1 \in T
  <2>1. IsLoop([i \in first - 1..first - 1 |-> m], first - 1)
    OBVIOUS
  <2> QED
    BY <2>1
<1>2. ASSUME NEW k \in (first - 1) + 1..last, k - 1 \in T PROVE k \in T
  <2>1. PICK g : IsLoop(g, k - 1)
    BY <1>2
  <2> DEFINE h == [i \in first - 1..k |-> IF i < k THEN g[i] ELSE DecommitPage(g[k - 1], k)]
  <2>2. IsLoop(h, k)
    BY <2>1
  <2> HIDE DEF IsLoop
  <2> QED
    BY <2>2
<1>3. last \in T
  <2> HIDE DEF T
  <2> QED
    BY <1>1, <1>2, StepByStep
<1> DEFINE g == CHOOSE g : IsLoop(g, last)
<1>4. IsLoop(g, last)
  <2> HIDE DEF IsLoop
  <2> QED
    BY <1>3
<1>5. DecommitPages(m, first, last) = g[last]
  BY DEF Loop, DecommitPages
<1> HIDE DEF g
<1> QED
  BY <1>4, <1>5

(* The states of the memory manager, by type only. *)
VMs ==
    [free : Seq(Blocks), available : Int, type : [Pages -> Types],
     used : [Pages -> 0..PtesUsedWidth - 1], usage : [Types -> Int],
     pde : [Pdes -> Pages \cup {None}], pte : [Virtual -> 0..Device \cup {None}],
     ended : SUBSET Virtual, vma : [Regions -> SUBSET Areas],
     instance : 0..HighestPage - MaxContiguousPfn, reserved : Int, starved : BOOLEAN]

(* What a step leaves alone. *)
SameFree(m, w) == w.free = m.free /\ w.available = m.available
SameFrames(m, w) == w.type = m.type /\ w.used = m.used /\ w.usage = m.usage
SameMaps(m, w) == w.pde = m.pde /\ w.pte = m.pte /\ w.ended = m.ended
SameAreas(m, w) == w.vma = m.vma /\ w.instance = m.instance /\ w.reserved = m.reserved

(* The numbers the constants are. *)
LEMMA Constants ==
    /\ HighestPage \in Nat /\ MaxContiguousPfn \in Nat /\ PtesUsedWidth \in Nat /\ UserFirst \in Nat
    /\ UserLast \in Nat /\ SystemFirst \in Nat /\ SystemLast \in Nat /\ ContiguousFirst \in Nat
    /\ MaxLeaks \in Nat /\ PtesPerTable \in Nat \ {0} /\ Granularity \in Nat \ {0}
    /\ MaxContiguousPfn < HighestPage /\ Word \in Nat /\ HighestPage + 1 < Word
    /\ UserFirst <= UserLast /\ UserLast < SystemFirst
    /\ SystemFirst <= SystemLast /\ SystemLast < ContiguousFirst
    /\ PtesPerTable + MaxLeaks < PtesUsedWidth
BY VMAssumption, WordAssumption DEF MaxLeaks

(* The fields of each primitive step. *)
LEMMA TakenIs ==
    ASSUME NEW m \in VMs, NEW r, NEW n \in Int, r.list \in Seq(Blocks)
    PROVE  LET w == Taken(m, r, n)
           IN  /\ w \in VMs
               /\ w.free = r.list /\ w.available = m.available - n
               /\ SameFrames(m, w) /\ SameMaps(m, w) /\ SameAreas(m, w) /\ w.starved = m.starved
<1> DEFINE free == r.list
           available == m.available - n
<1>1. free \in Seq(Blocks) /\ available \in Int
  BY DEF VMs
<1>2. Taken(m, r, n) = [m EXCEPT !.free = free, !.available = available]
  BY DEF Taken
<1> HIDE DEF free, available
<1>3. LET w == Taken(m, r, n)
      IN  /\ w \in VMs /\ w.free = free /\ w.available = available
          /\ SameFrames(m, w) /\ SameMaps(m, w) /\ SameAreas(m, w) /\ w.starved = m.starved
  BY <1>1, <1>2 DEF VMs, SameFrames, SameMaps, SameAreas
<1> QED
  BY <1>3 DEF free, available

(* Released gives its pages to the free list and counts them. *)
LEMMA ReleasedIs ==
    ASSUME NEW m \in VMs, NEW from \in Int, NEW to \in Int, InsertFree(m.free, from, to) \in Seq(Blocks)
    PROVE  LET w == Released(m, from, to)
           IN  /\ w \in VMs
               /\ w.free = InsertFree(m.free, from, to) /\ w.available = m.available + to - from + 1
               /\ SameFrames(m, w) /\ SameMaps(m, w) /\ SameAreas(m, w) /\ w.starved = m.starved
<1> DEFINE free == InsertFree(m.free, from, to)
           available == m.available + to - from + 1
<1>1. free \in Seq(Blocks) /\ available \in Int
  BY DEF VMs
<1>2. Released(m, from, to) = [m EXCEPT !.free = free, !.available = available]
  BY DEF Released
<1> HIDE DEF free, available
<1>3. LET w == Released(m, from, to)
      IN  /\ w \in VMs /\ w.free = free /\ w.available = available
          /\ SameFrames(m, w) /\ SameMaps(m, w) /\ SameAreas(m, w) /\ w.starved = m.starved
  BY <1>1, <1>2 DEF VMs, SameFrames, SameMaps, SameAreas
<1> QED
  BY <1>3 DEF free, available

(* What WritePfn does for n pages P that become busy, and for pages that become free. *)
WrotePfn(m, w, P, type, n) ==
    /\ w \in VMs
    /\ w.type = [q \in Pages |-> IF q \in P THEN type ELSE m.type[q]]
    /\ w.used = [q \in Pages |-> IF q \in P THEN 0 ELSE m.used[q]]
    /\ w.usage = [m.usage EXCEPT ![type] = @ + n]
    /\ SameFree(m, w) /\ SameMaps(m, w) /\ SameAreas(m, w) /\ w.starved = m.starved

ZeroedPfn(m, w, P, type, n) ==
    /\ w \in VMs
    /\ w.type = [q \in Pages |-> IF q \in P THEN "Unknown" ELSE m.type[q]]
    /\ w.used = [q \in Pages |-> IF q \in P THEN 0 ELSE m.used[q]]
    /\ w.usage = [m.usage EXCEPT ![type] = @ - n]
    /\ SameFree(m, w) /\ SameMaps(m, w) /\ SameAreas(m, w) /\ w.starved = m.starved

(* WritePfn for a run of pages. *)
LEMMA WritePfnRun ==
    ASSUME NEW m \in VMs, NEW from \in Int, NEW to \in Int, NEW type \in Types
    PROVE  WrotePfn(m, WritePfn(m, from, to, type), from..to, type, to - from + 1)
<1> DEFINE type2 == [p \in Pages |-> IF p \in from..to THEN type ELSE m.type[p]]
           used == [p \in Pages |-> IF p \in from..to THEN 0 ELSE m.used[p]]
           usage == [m.usage EXCEPT ![type] = @ + to - from + 1]
           w == WritePfn(m, from, to, type)
           n == to - from + 1
           u == m.usage[type]
<1>1. type2 \in [Pages -> Types] /\ used \in [Pages -> 0..PtesUsedWidth - 1] /\ usage \in [Types -> Int]
  <2>1. type2 \in [Pages -> Types]
    BY DEF VMs, Types
  <2>2. used \in [Pages -> 0..PtesUsedWidth - 1]
    BY Constants DEF VMs
  <2>3. usage \in [Types -> Int]
    BY DEF VMs
  <2> QED
    BY <2>1, <2>2, <2>3
<1>2. w = [m EXCEPT !.type = type2, !.used = used, !.usage = usage]
  BY DEF WritePfn, VMs
<1>3. usage = [m.usage EXCEPT ![type] = @ + n]
  <2>1. u \in Int /\ n \in Int
    BY DEF VMs
  <2>2. u + to - from + 1 = u + n
    BY <2>1
  <2> QED
    BY <2>2
<1> HIDE DEF type2, used, usage, w, n
<1>4. /\ w \in VMs /\ w.type = type2 /\ w.used = used /\ w.usage = usage
      /\ SameFree(m, w) /\ SameMaps(m, w) /\ SameAreas(m, w) /\ w.starved = m.starved
  BY <1>1, <1>2 DEF VMs, SameFree, SameMaps, SameAreas
<1>5. WrotePfn(m, w, from..to, type, n)
  BY <1>3, <1>4 DEF WrotePfn, type2, used
<1> QED
  BY <1>5 DEF w, n

(* WritePfn for one page. *)
LEMMA WritePfnOne ==
    ASSUME NEW m \in VMs, NEW p \in Pages, NEW type \in Types
    PROVE  WrotePfn(m, WritePfn(m, p, p, type), {p}, type, 1)
<1> DEFINE to == p
           w == WritePfn(m, p, to, type)
<1>1. p \in Int /\ to \in Int /\ p..p = {p}
  BY Constants DEF Pages
<1>2. p..to = {p} /\ to - p + 1 = 1
  BY <1>1
<1> HIDE DEF to
<1>3. WrotePfn(m, w, p..to, type, to - p + 1)
  BY <1>1, WritePfnRun
<1> HIDE DEF w
<1>4. WrotePfn(m, w, {p}, type, 1)
  BY <1>2, <1>3
<1> QED
  BY <1>4 DEF w, to

(* ZeroPfn for a run of pages. *)
LEMMA ZeroPfnRun ==
    ASSUME NEW m \in VMs, NEW from \in Int, NEW to \in Int, NEW type \in Types
    PROVE  ZeroedPfn(m, ZeroPfn(m, from, to, type), from..to, type, to - from + 1)
<1> DEFINE type2 == [p \in Pages |-> IF p \in from..to THEN "Unknown" ELSE m.type[p]]
           used == [p \in Pages |-> IF p \in from..to THEN 0 ELSE m.used[p]]
           usage == [m.usage EXCEPT ![type] = @ - (to - from + 1)]
           w == ZeroPfn(m, from, to, type)
           n == to - from + 1
           u == m.usage[type]
<1>1. type2 \in [Pages -> Types] /\ used \in [Pages -> 0..PtesUsedWidth - 1] /\ usage \in [Types -> Int]
  <2>1. type2 \in [Pages -> Types]
    BY DEF VMs, Types
  <2>2. used \in [Pages -> 0..PtesUsedWidth - 1]
    BY Constants DEF VMs
  <2>3. usage \in [Types -> Int]
    BY DEF VMs
  <2> QED
    BY <2>1, <2>2, <2>3
<1>2. w = [m EXCEPT !.type = type2, !.used = used, !.usage = usage]
  BY DEF ZeroPfn, VMs
<1>3. usage = [m.usage EXCEPT ![type] = @ - n]
  <2>1. u \in Int /\ n \in Int
    BY DEF VMs
  <2>2. u - (to - from + 1) = u - n
    BY <2>1
  <2> QED
    BY <2>2
<1> HIDE DEF type2, used, usage, w, n
<1>4. /\ w \in VMs /\ w.type = type2 /\ w.used = used /\ w.usage = usage
      /\ SameFree(m, w) /\ SameMaps(m, w) /\ SameAreas(m, w) /\ w.starved = m.starved
  BY <1>1, <1>2 DEF VMs, SameFree, SameMaps, SameAreas
<1>5. ZeroedPfn(m, w, from..to, type, n)
  BY <1>3, <1>4 DEF ZeroedPfn, type2, used
<1> QED
  BY <1>5 DEF w, n

(* ZeroPfn for one page. *)
LEMMA ZeroPfnOne ==
    ASSUME NEW m \in VMs, NEW p \in Pages, NEW type \in Types
    PROVE  ZeroedPfn(m, ZeroPfn(m, p, p, type), {p}, type, 1)
<1> DEFINE to == p
           w == ZeroPfn(m, p, to, type)
<1>1. p \in Int /\ to \in Int /\ p..p = {p}
  BY Constants DEF Pages
<1>2. p..to = {p} /\ to - p + 1 = 1
  BY <1>1
<1> HIDE DEF to
<1>3. ZeroedPfn(m, w, p..to, type, to - p + 1)
  BY <1>1, ZeroPfnRun
<1> HIDE DEF w
<1>4. ZeroedPfn(m, w, {p}, type, 1)
  BY <1>2, <1>3
<1> QED
  BY <1>4 DEF w, to

(* A count of page table entries. *)
LEMMA CountPtesIs ==
    ASSUME NEW m, NEW vs, IsFiniteSet(vs), NEW p
    PROVE  CountPtes(m, vs, p) \in Nat
<1>1. IsFiniteSet({v \in vs : GetPfnOfPT(m, Pde(v)) = p})
  BY FS_Subset
<1> QED
  BY <1>1, FS_CardinalityType DEF CountPtes

(* A part of a range is finite. *)
LEMMA RangeFinite ==
    ASSUME NEW a \in Int, NEW b \in Int, NEW X \in SUBSET (a..b)
    PROVE  IsFiniteSet(X) /\ Cardinality(X) \in Nat
BY FS_Interval, FS_Subset, FS_CardinalityType

(* What WritePte does to the zero ptes of a range, and to the others when it zeroes them. *)
WrotePte(m, w, from, to, pfn) ==
    LET vs == {v \in from..to : m.pte[v] = None}
    IN  /\ w \in VMs
        /\ w.pte = [v \in Virtual |-> IF v \in vs THEN Min({pfn + v - from, Device}) ELSE m.pte[v]]
        /\ w.used = [p \in Pages |-> (m.used[p] + CountPtes(m, vs, p)) % PtesUsedWidth]
        /\ w.pde = m.pde /\ w.ended = m.ended /\ w.type = m.type /\ w.usage = m.usage
        /\ SameFree(m, w) /\ SameAreas(m, w) /\ w.starved = m.starved

ZeroedPte(m, w, from, to) ==
    LET vs == {v \in from..to : m.pte[v] # None}
    IN  /\ w \in VMs
        /\ w.pte = [v \in Virtual |-> IF v \in vs THEN None ELSE m.pte[v]]
        /\ w.used = [p \in Pages |-> (m.used[p] - CountPtes(m, vs, p)) % PtesUsedWidth]
        /\ w.ended = m.ended \ vs
        /\ w.pde = m.pde /\ w.type = m.type /\ w.usage = m.usage
        /\ SameFree(m, w) /\ SameAreas(m, w) /\ w.starved = m.starved

(* WritePte for a range. *)
LEMMA WritePteIs ==
    ASSUME NEW m \in VMs, NEW from \in Int, NEW to \in Int, NEW pfn \in Nat
    PROVE  WrotePte(m, WritePte(m, from, to, pfn), from, to, pfn)
<1> DEFINE vs == {v \in from..to : m.pte[v] = None}
           pte == [v \in Virtual |-> IF v \in vs THEN Min({pfn + v - from, Device}) ELSE m.pte[v]]
           used == [p \in Pages |-> (m.used[p] + CountPtes(m, vs, p)) % PtesUsedWidth]
<1>1. pte \in [Virtual -> 0..Device \cup {None}]
  <2>1. ASSUME NEW v \in vs PROVE Min({pfn + v - from, Device}) \in 0..Device
    <3>1. pfn + v - from \in Int /\ pfn + v - from >= 0 /\ Device \in Int /\ Device >= 0
      BY Constants DEF Device
    <3> DEFINE x == pfn + v - from
    <3>2. x \in Int /\ x >= 0
      BY <3>1
    <3> HIDE DEF x
    <3>3. Min({x, Device}) = IF x <= Device THEN x ELSE Device
      BY <3>1, <3>2, MaxMin
    <3> QED
      BY <3>1, <3>2, <3>3 DEF x
  <2>2. m.pte \in [Virtual -> 0..Device \cup {None}]
    BY DEF VMs
  <2> QED
    BY <2>1, <2>2
<1>2. used \in [Pages -> 0..PtesUsedWidth - 1]
  <2>1. ASSUME NEW p \in Pages PROVE (m.used[p] + CountPtes(m, vs, p)) % PtesUsedWidth \in 0..PtesUsedWidth - 1
    <3>1. IsFiniteSet(vs)
      BY RangeFinite
    <3>2. CountPtes(m, vs, p) \in Nat
      BY <3>1, CountPtesIs
    <3>3. m.used[p] \in Int
      BY DEF VMs
    <3> HIDE DEF vs
    <3> QED
      BY <3>2, <3>3, Constants
  <2> QED
    BY <2>1
<1>3. WritePte(m, from, to, pfn) = [m EXCEPT !.pte = pte, !.used = used]
  BY DEF WritePte
<1> HIDE DEF pte, used
<1>4. LET w == WritePte(m, from, to, pfn)
      IN  /\ w \in VMs /\ w.pte = pte /\ w.used = used
          /\ w.pde = m.pde /\ w.ended = m.ended /\ w.type = m.type /\ w.usage = m.usage
          /\ SameFree(m, w) /\ SameAreas(m, w) /\ w.starved = m.starved
  BY <1>1, <1>2, <1>3 DEF VMs, SameFree, SameAreas
<1> QED
  BY <1>4 DEF pte, used, WrotePte

(* WritePte, zeroing a range. *)
LEMMA ZeroPteIs ==
    ASSUME NEW m \in VMs, NEW from \in Int, NEW to \in Int
    PROVE  ZeroedPte(m, ZeroPte(m, from, to), from, to)
<1> DEFINE vs == {v \in from..to : m.pte[v] # None}
           pte == [v \in Virtual |-> IF v \in vs THEN None ELSE m.pte[v]]
           used == [p \in Pages |-> (m.used[p] - CountPtes(m, vs, p)) % PtesUsedWidth]
           ended == m.ended \ vs
<1>1. pte \in [Virtual -> 0..Device \cup {None}] /\ ended \in SUBSET Virtual
  BY DEF VMs
<1>2. used \in [Pages -> 0..PtesUsedWidth - 1]
  <2>1. ASSUME NEW p \in Pages PROVE (m.used[p] - CountPtes(m, vs, p)) % PtesUsedWidth \in 0..PtesUsedWidth - 1
    <3>1. IsFiniteSet(vs)
      BY RangeFinite
    <3>2. CountPtes(m, vs, p) \in Nat
      BY <3>1, CountPtesIs
    <3>3. m.used[p] \in Int
      BY DEF VMs
    <3> HIDE DEF vs
    <3> QED
      BY <3>2, <3>3, Constants
  <2> QED
    BY <2>1
<1>3. ZeroPte(m, from, to) = [m EXCEPT !.pte = pte, !.used = used, !.ended = ended]
  BY DEF ZeroPte
<1> HIDE DEF pte, used, ended
<1>4. LET w == ZeroPte(m, from, to)
      IN  /\ w \in VMs /\ w.pte = pte /\ w.used = used /\ w.ended = ended
          /\ w.pde = m.pde /\ w.type = m.type /\ w.usage = m.usage
          /\ SameFree(m, w) /\ SameAreas(m, w) /\ w.starved = m.starved
  BY <1>1, <1>2, <1>3 DEF VMs, SameFree, SameAreas
<1> QED
  BY <1>4 DEF pte, used, ended, ZeroedPte

(* The free list by itself. *)
FreeOK(m) ==
    /\ Coalesced(m.free)
    /\ FreePages(m.free) \subseteq Pages
    /\ m.available = Cardinality(FreePages(m.free))

(* A run of pages is counted. *)
LEMMA RunCount ==
    ASSUME NEW a \in Int, NEW b \in Int, a <= b
    PROVE  IsFiniteSet(a..b) /\ Cardinality(a..b) = b - a + 1
BY FS_Interval

(* Sets of pages are finite. *)
LEMMA PagesFinite ==
    ASSUME NEW X \in SUBSET Pages
    PROVE  IsFiniteSet(X) /\ Cardinality(X) \in 0..HighestPage + 1
<1>1. IsFiniteSet(Pages) /\ Cardinality(Pages) = HighestPage + 1
  BY Constants, RunCount DEF Pages
<1> QED
  BY <1>1, FS_Subset, FS_CardinalityType, Constants

(* Elements are added to a finite set. *)
LEMMA CountJoin ==
    ASSUME NEW A, NEW B, IsFiniteSet(A), IsFiniteSet(B), A \cap B = {}
    PROVE  /\ IsFiniteSet(A \cup B) /\ Cardinality(A) \in Nat /\ Cardinality(B) \in Nat
           /\ Cardinality(A \cup B) = Cardinality(A) + Cardinality(B)
<1>1. Cardinality(A) \in Nat /\ Cardinality(B) \in Nat /\ Cardinality(A \cap B) = 0
  BY FS_CardinalityType, FS_EmptySet
<1>2. /\ IsFiniteSet(A \cup B)
      /\ Cardinality(A \cup B) = Cardinality(A) + Cardinality(B) - Cardinality(A \cap B)
  BY FS_Union, Zenon
<1> QED
  BY <1>1, <1>2

(* The same for a part that is taken away. *)
LEMMA CountPart ==
    ASSUME NEW A, NEW B, IsFiniteSet(A), B \subseteq A
    PROVE  /\ IsFiniteSet(A \ B) /\ IsFiniteSet(B) /\ Cardinality(A) \in Nat /\ Cardinality(B) \in Nat
           /\ Cardinality(B) <= Cardinality(A)
           /\ Cardinality(A \ B) = Cardinality(A) - Cardinality(B)
<1>1. IsFiniteSet(B) /\ IsFiniteSet(A \ B)
  BY FS_Subset
<1>2. (A \ B) \cap B = {} /\ (A \ B) \cup B = A
  OBVIOUS
<1>3. /\ Cardinality(A \ B) \in Nat /\ Cardinality(B) \in Nat
      /\ Cardinality((A \ B) \cup B) = Cardinality(A \ B) + Cardinality(B)
  BY <1>1, <1>2, CountJoin
<1> QED
  BY <1>1, <1>2, <1>3

(* The blocks of the free list stay inside physical memory, so that nothing wraps. *)
LEMMA BlocksBelow ==
    ASSUME NEW m \in VMs, FreeOK(m)
    PROVE  /\ m.free \in Seq(Blocks) /\ Coalesced(m.free)
           /\ \A j \in 1..Len(m.free) : /\ m.free[j].start \in Pages
                                        /\ BlockEnd(m.free[j]) \in Pages
                                        /\ BlockEnd(m.free[j]) + 1 < Word
<1> DEFINE list == m.free
<1>1. list \in Seq(Blocks) /\ Coalesced(list) /\ FreePages(list) \subseteq Pages
  BY DEF VMs, FreeOK
<1> HIDE DEF list
<1>2. ASSUME NEW j \in 1..Len(list)
      PROVE  list[j].start \in Pages /\ BlockEnd(list[j]) \in Pages /\ BlockEnd(list[j]) + 1 < Word
  <2>1. list[j] \in Blocks /\ list[j].size > 0
    BY <1>1 DEF Coalesced
  <2> DEFINE x == list[j].start
             e == BlockEnd(list[j])
  <2>2. x \in Nat /\ e \in Nat /\ x \in x..e /\ e \in x..e
    BY <2>1 DEF Blocks, BlockEnd
  <2>3. x..e \subseteq FreePages(list)
    BY <1>1 DEF FreePages
  <2> HIDE DEF x, e
  <2>4. x \in Pages /\ e \in Pages
    BY <1>1, <2>2, <2>3
  <2>5. e + 1 < Word
    BY <2>2, <2>4, Constants DEF Pages
  <2> QED
    BY <2>4, <2>5 DEF x, e
<1> QED
  BY <1>1, <1>2 DEF list

(* RemoveFree and the count of free pages. *)
LEMMA TakeFree ==
    ASSUME NEW m \in VMs, FreeOK(m), NEW n \in Nat \ {0}, NEW align \in Nat, NEW lo \in Nat,
           NEW hi \in Nat, Alignable(m.free, n, align, lo, hi), RemoveFree(m.free, n, align, lo, hi).found
    PROVE  LET r == RemoveFree(m.free, n, align, lo, hi)
               w == Taken(m, r, n)
               P == r.pfn..r.pfn + n - 1
           IN  /\ w \in VMs /\ FreeOK(w)
               /\ r.pfn \in Pages /\ r.pfn + n - 1 \in Pages /\ P \subseteq Pages
               /\ lo <= r.pfn /\ r.pfn + n - 1 <= hi
               /\ P \subseteq FreePages(m.free) /\ FreePages(w.free) = FreePages(m.free) \ P
               /\ w.available = m.available - n
               /\ SameFrames(m, w) /\ SameMaps(m, w) /\ SameAreas(m, w) /\ w.starved = m.starved
<1> DEFINE r == RemoveFree(m.free, n, align, lo, hi)
           w == Taken(m, r, n)
           pfn == r.pfn
           P == pfn..pfn + n - 1
<1>1. /\ m.free \in Seq(Blocks) /\ Coalesced(m.free)
      /\ \A j \in 1..Len(m.free) : BlockEnd(m.free[j]) + 1 < Word
  BY BlocksBelow
<1>2. /\ pfn \in Nat
      /\ Room(m.free, pfn, n, align, lo, hi)
      /\ r.list \in Seq(Blocks)
      /\ Coalesced(r.list)
      /\ FreePages(r.list) = FreePages(m.free) \ (pfn..pfn + n - 1)
  BY <1>1, RemoveFreeTakes
<1> HIDE DEF r
<1>3. /\ w \in VMs
      /\ w.free = r.list /\ w.available = m.available - n
      /\ SameFrames(m, w) /\ SameMaps(m, w) /\ SameAreas(m, w) /\ w.starved = m.starved
  BY <1>2, TakenIs
<1> HIDE DEF w, pfn
<1>4. P \subseteq FreePages(m.free) /\ lo <= pfn /\ pfn + n - 1 <= hi
  BY <1>2 DEF Room
<1>5. FreePages(m.free) \subseteq Pages /\ m.available = Cardinality(FreePages(m.free))
  BY DEF FreeOK
<1>6. pfn \in P /\ pfn + n - 1 \in P
  BY <1>2
<1>7. IsFiniteSet(P) /\ Cardinality(P) = n
  <2> DEFINE last == pfn + n - 1
  <2>1. last \in Int /\ pfn \in Int /\ pfn <= last /\ last - pfn + 1 = n
    BY <1>2
  <2> HIDE DEF last
  <2>2. IsFiniteSet(pfn..last) /\ Cardinality(pfn..last) = last - pfn + 1
    BY <2>1, RunCount
  <2> QED
    BY <2>1, <2>2 DEF last
<1> HIDE DEF P
<1>8. FreePages(w.free) = FreePages(m.free) \ P
  BY <1>2, <1>3 DEF P
<1>9. Cardinality(FreePages(m.free) \ P) = Cardinality(FreePages(m.free)) - n
  BY <1>4, <1>5, <1>7, PagesFinite, CountPart
<1>10. FreeOK(w)
  BY <1>2, <1>3, <1>5, <1>8, <1>9 DEF FreeOK
<1>11. pfn \in Pages /\ pfn + n - 1 \in Pages /\ P \subseteq Pages
  BY <1>4, <1>5, <1>6
<1> QED
  BY <1>3, <1>4, <1>8, <1>10, <1>11 DEF P, w, pfn, r

(* InsertFree and the count of free pages. *)
LEMMA ReleaseFree ==
    ASSUME NEW m \in VMs, FreeOK(m), NEW from \in Pages, NEW to \in Pages, from <= to,
           from..to \cap FreePages(m.free) = {}
    PROVE  LET w == Released(m, from, to)
           IN  /\ w \in VMs /\ FreeOK(w)
               /\ FreePages(w.free) = FreePages(m.free) \cup from..to
               /\ w.available = m.available + to - from + 1
               /\ SameFrames(m, w) /\ SameMaps(m, w) /\ SameAreas(m, w) /\ w.starved = m.starved
<1> DEFINE w == Released(m, from, to)
           P == from..to
<1>1. /\ from \in Nat /\ to \in Nat /\ from \in Int /\ to \in Int /\ P \subseteq Pages
      /\ m.available \in Int
  BY Constants DEF Pages, VMs
<1>2. m.free \in Seq(Blocks) /\ Coalesced(m.free)
  BY BlocksBelow
<1>3. /\ InsertFree(m.free, from, to) \in Seq(Blocks)
      /\ Coalesced(InsertFree(m.free, from, to))
      /\ FreePages(InsertFree(m.free, from, to)) = FreePages(m.free) \cup P
  BY <1>1, <1>2, InsertFreeExact
<1>4. /\ w \in VMs
      /\ w.free = InsertFree(m.free, from, to) /\ w.available = m.available + to - from + 1
      /\ SameFrames(m, w) /\ SameMaps(m, w) /\ SameAreas(m, w) /\ w.starved = m.starved
  BY <1>1, <1>3, ReleasedIs
<1>5. FreePages(m.free) \subseteq Pages /\ m.available = Cardinality(FreePages(m.free))
  BY DEF FreeOK
<1>6. IsFiniteSet(P) /\ Cardinality(P) = to - from + 1
  BY <1>1, RunCount
<1> HIDE DEF P
<1>7. Cardinality(FreePages(m.free) \cup P) = Cardinality(FreePages(m.free)) + (to - from + 1)
  <2>1. FreePages(m.free) \cap P = {}
    BY DEF P
  <2> QED
    BY <1>5, <1>6, <2>1, PagesFinite, CountJoin
<1>8. w.available = Cardinality(FreePages(w.free))
  <2>1. Cardinality(FreePages(w.free)) = Cardinality(FreePages(m.free)) + (to - from + 1)
    BY <1>3, <1>4, <1>7
  <2>2. w.available = m.available + to - from + 1
    BY <1>4
  <2> HIDE DEF w
  <2> QED
    BY <1>1, <1>5, <2>1, <2>2
<1>9. FreeOK(w)
  BY <1>1, <1>3, <1>4, <1>5, <1>8 DEF FreeOK
<1> QED
  BY <1>3, <1>4, <1>9 DEF P, w

(* One page for a caller that does not look at the result: it gets a page, or the call is the *)
(* model's last.  As long as a page is free anywhere, a caller with no limit gets one.      *)
LEMMA TakePageIs ==
    ASSUME NEW m \in VMs, FreeOK(m), NEW hi \in Pages
    PROVE  LET t == TakePage(m, hi)
               w == t.vm
           IN  /\ w \in VMs /\ FreeOK(w) /\ t.pfn \in Pages
               /\ SameFrames(m, w) /\ SameMaps(m, w) /\ SameAreas(m, w)
               /\ \/ /\ w.starved = m.starved /\ t.pfn \in FreePages(m.free)
                     /\ FreePages(w.free) = FreePages(m.free) \ {t.pfn}
                     /\ w.available = m.available - 1 /\ t.pfn <= hi
                  \/ /\ w.starved /\ w.free = m.free /\ w.available = m.available
                     /\ hi = HighestPage => m.available = 0
<1> DEFINE r == RemoveFree(m.free, 1, 0, 0, hi)
<1>1. hi \in Nat /\ 0 \in Pages
  BY Constants DEF Pages
<1>2. /\ m.free \in Seq(Blocks) /\ Coalesced(m.free)
      /\ \A j \in 1..Len(m.free) : /\ BlockEnd(m.free[j]) + 1 < Word
                                   /\ BlockEnd(m.free[j]) \in Pages
  BY BlocksBelow
<1>3. Alignable(m.free, 1, 0, 0, hi)
  <2> DEFINE one == 1
             zero == 0
  <2>1. one \in Nat \ {0} /\ zero \in {0, 1} /\ zero \in Nat
    OBVIOUS
  <2> HIDE DEF one, zero
  <2>2. Alignable(m.free, one, zero, zero, hi)
    BY <1>1, <1>2, <2>1, SmallAlignments
  <2> QED
    BY <2>2 DEF one, zero
<1>4. CASE r.found
  <2> DEFINE w == Taken(m, r, 1)
             P == r.pfn..r.pfn + 1 - 1
  <2>1. /\ w \in VMs /\ FreeOK(w)
        /\ r.pfn \in Pages /\ r.pfn + 1 - 1 <= hi
        /\ P \subseteq FreePages(m.free) /\ FreePages(w.free) = FreePages(m.free) \ P
        /\ w.available = m.available - 1
        /\ SameFrames(m, w) /\ SameMaps(m, w) /\ SameAreas(m, w) /\ w.starved = m.starved
    BY <1>1, <1>3, <1>4, TakeFree
  <2>2. TakePage(m, hi) = [vm |-> w, pfn |-> r.pfn]
    BY <1>4 DEF TakePage
  <2> HIDE DEF w, r
  <2>3. P = {r.pfn} /\ r.pfn <= hi
    BY <2>1, Constants DEF Pages
  <2> QED
    BY <2>1, <2>2, <2>3
<1>5. CASE ~r.found
  <2> DEFINE w == [m EXCEPT !.starved = TRUE]
  <2>1. TakePage(m, hi) = [vm |-> w, pfn |-> 0]
    BY <1>5 DEF TakePage
  <2>2. /\ w \in VMs /\ w.free = m.free /\ w.available = m.available /\ w.starved
        /\ SameFrames(m, w) /\ SameMaps(m, w) /\ SameAreas(m, w)
    BY DEF VMs, SameFrames, SameMaps, SameAreas
  <2>3. FreeOK(w)
    BY <2>2 DEF FreeOK
  <2>4. ASSUME hi = HighestPage PROVE m.available = 0
    <3>1. \A p \in Nat : ~Room(m.free, p, Rounded(1, 0), 0, 0, hi)
      <4> DEFINE list == m.free
                 n == 1
                 zero == 0
      <4>1. /\ list \in Seq(Blocks) /\ Coalesced(list) /\ \A j \in 1..Len(list) : BlockEnd(list[j]) + 1 < Word
            /\ n \in Nat \ {0} /\ zero \in Nat /\ hi \in Nat
            /\ ~RemoveFree(list, n, zero, zero, hi).found
        BY <1>1, <1>2, <1>3, <1>5
      <4> HIDE DEF list, n, zero
      <4>2. \A p \in Nat : ~Room(list, p, Rounded(n, zero), zero, zero, hi)
        BY ONLY <4>1, RemoveFreeFails
      <4> QED
        BY <4>2 DEF list, n, zero
    <3>2. ASSUME NEW p \in FreePages(m.free) PROVE FALSE
      <4>1. p \in Pages /\ p \in Nat /\ p <= hi /\ 0 <= p /\ p..p + 1 - 1 = {p}
        BY <2>4, Constants DEF FreeOK, Pages
      <4>2. Room(m.free, p, 1, 0, 0, hi)
        BY <4>1, <3>2 DEF Room, Aligned
      <4> QED
        BY <3>1, <4>1, <4>2 DEF Rounded
    <3> QED
      BY <3>2, FS_EmptySet DEF FreeOK
  <2> HIDE DEF w
  <2> QED
    BY <1>1, <2>1, <2>2, <2>3, <2>4
<1> QED
  BY <1>4, <1>5

(* The type of the pages mapped in the region of a virtual page. *)
TypeAt(v) == IF v <= UserLast THEN "Virtual" ELSE IF v <= SystemLast THEN "System" ELSE "Contiguous"

(* Who uses a page.  The pages of L have been taken and have no use yet. *)
Owners(m, L) ==
    /\ L \subseteq Pages /\ L \cap FreePages(m.free) = {}
    /\ \A p \in Pages : m.type[p] = "Unknown" <=> p \in FreePages(m.free) \cup L
    /\ \A v \in Virtual : m.pte[v] \in Pages => m.type[m.pte[v]] = TypeAt(v)
    /\ \A v, w \in Virtual : m.pte[v] \in Pages /\ m.pte[v] = m.pte[w] => v = w
    /\ \A d \in Pdes : m.pde[d] # None => m.type[m.pde[d]] = "PageTable"
    /\ \A d, e \in Pdes : m.pde[d] # None /\ m.pde[d] = m.pde[e] => d = e
    /\ \A p \in Pages : m.type[p] = "PageTable" => \E d \in Pdes : m.pde[d] = p
    /\ \A p \in Pages : m.type[p] \notin {"Unknown", "PageTable"} => \E v \in Virtual : m.pte[v] = p

OfType(m, t) == {p \in Pages : m.type[p] = t}

UsageOK(m) == \A t \in Types \ {"Unknown"} : m.usage[t] = Cardinality(OfType(m, t))

(* The ptes PtesUsed of a page table has to count: those in use and the guard pages G. *)
CountedPtes(m, G, d) == {v \in Virtual : Pde(v) = d /\ (m.pte[v] # None \/ v \in G)}

CountsOK(m, G) ==
    /\ \A v \in Virtual : m.pte[v] # None \/ v \in G => m.pde[Pde(v)] # None
    /\ \A p \in Pages : m.type[p] # "PageTable" => m.used[p] = 0
    /\ \A d \in Pdes : m.pde[d] # None =>
          /\ Cardinality(CountedPtes(m, G, d)) <= m.used[m.pde[d]]
          /\ m.used[m.pde[d]] <= UsedPtes(m, d) + MaxLeaks

PagesOK(m, L, G) == Owners(m, L) /\ UsageOK(m) /\ CountsOK(m, G)

(* Only the free list and the loose pages change, by the same pages. *)
LEMMA PagesMove ==
    ASSUME NEW m, NEW w, NEW L, NEW K \in SUBSET Pages, NEW G, PagesOK(m, L, G),
           SameFrames(m, w), w.pde = m.pde, w.pte = m.pte,
           K \cap FreePages(w.free) = {},
           FreePages(w.free) \cup K = FreePages(m.free) \cup L
    PROVE  PagesOK(w, K, G)
<1>1. Owners(w, K)
  BY DEF PagesOK, Owners, SameFrames
<1>2. UsageOK(w)
  BY DEF PagesOK, UsageOK, OfType, SameFrames
<1>3. CountsOK(w, G)
  BY DEF PagesOK, CountsOK, CountedPtes, UsedPtes, SameFrames
<1> QED
  BY <1>1, <1>2, <1>3 DEF PagesOK

(* Fewer guard pages. *)
LEMMA FewerGuards ==
    ASSUME NEW m \in VMs, NEW L, NEW G, NEW H \in SUBSET G, PagesOK(m, L, G), IsFiniteSet(Virtual)
    PROVE  PagesOK(m, L, H)
<1>1. ASSUME NEW d \in Pdes, m.pde[d] # None
      PROVE  Cardinality(CountedPtes(m, H, d)) <= m.used[m.pde[d]]
  <2>1. CountedPtes(m, H, d) \subseteq CountedPtes(m, G, d) /\ CountedPtes(m, G, d) \subseteq Virtual
    BY DEF CountedPtes
  <2>2. IsFiniteSet(CountedPtes(m, G, d))
    BY <2>1, FS_Subset
  <2>3. /\ Cardinality(CountedPtes(m, H, d)) <= Cardinality(CountedPtes(m, G, d))
        /\ Cardinality(CountedPtes(m, H, d)) \in Nat /\ Cardinality(CountedPtes(m, G, d)) \in Nat
    BY <2>1, <2>2, CountPart
  <2>4. Cardinality(CountedPtes(m, G, d)) <= m.used[m.pde[d]]
    BY <1>1 DEF PagesOK, CountsOK
  <2>5. m.pde[d] \in Pages /\ m.used[m.pde[d]] \in Int
    <3>1. m.pde[d] \in Pages
      BY <1>1 DEF VMs
    <3> QED
      BY <3>1, Constants DEF VMs
  <2> QED
    BY <2>3, <2>4, <2>5
<1>2. CountsOK(m, H)
  BY <1>1 DEF PagesOK, CountsOK
<1> QED
  BY <1>2 DEF PagesOK

-----------------------------------------------------------------------------
(* Virtual pages are numbers, and finitely many. *)
LEMMA VirtualIs ==
    /\ Virtual = UserFirst..UserLast \cup SystemFirst..SystemLast \cup ContiguousFirst..ContiguousLast
    /\ Virtual \subseteq Nat /\ IsFiniteSet(Virtual)
<1>1. Virtual = UserFirst..UserLast \cup SystemFirst..SystemLast \cup ContiguousFirst..ContiguousLast
  BY DEF Virtual, Regions, Region
<1>2. ContiguousLast \in Nat
  BY Constants DEF ContiguousLast
<1>3. Virtual \subseteq Nat
  BY <1>1, <1>2, Constants
<1>4. IsFiniteSet(UserFirst..UserLast) /\ IsFiniteSet(SystemFirst..SystemLast)
      /\ IsFiniteSet(ContiguousFirst..ContiguousLast)
  BY <1>2, Constants, FS_Interval
<1>5. IsFiniteSet(UserFirst..UserLast \cup SystemFirst..SystemLast)
  BY <1>4, FS_Union
<1>6. IsFiniteSet(Virtual)
  BY <1>1, <1>4, <1>5, FS_Union
<1> QED
  BY <1>1, <1>3, <1>6

(* The page directory entry of a page, and the pages of one entry. *)
LEMMA PdeIs ==
    ASSUME NEW v \in Nat
    PROVE  /\ Pde(v) \in Nat
           /\ Pde(v) * PtesPerTable <= v /\ v <= Pde(v) * PtesPerTable + PtesPerTable - 1
<1>1. v = PtesPerTable * (v \div PtesPerTable) + (v % PtesPerTable)
      /\ v \div PtesPerTable \in Nat /\ v % PtesPerTable \in 0..PtesPerTable - 1
  BY Constants, DivMod
<1> QED
  BY <1>1, Constants DEF Pde

(* A page table has PtesPerTable entries. *)
LEMMA TableSize ==
    ASSUME NEW d \in Pdes, NEW X \in SUBSET Virtual, \A v \in X : Pde(v) = d
    PROVE  IsFiniteSet(X) /\ Cardinality(X) \in 0..PtesPerTable
<1>1. d \in Nat
  BY VirtualIs, PdeIs DEF Pdes
<1> DEFINE a == d * PtesPerTable
           b == a + PtesPerTable - 1
<1>2. a \in Int /\ b \in Int /\ a <= b /\ b - a + 1 = PtesPerTable
  BY <1>1, Constants
<1>3. X \subseteq a..b
  <2> SUFFICES ASSUME NEW v \in X PROVE v \in a..b
    OBVIOUS
  <2>1. v \in Nat /\ Pde(v) = d
    BY VirtualIs
  <2>2. d * PtesPerTable <= v /\ v <= d * PtesPerTable + PtesPerTable - 1
    BY <2>1, PdeIs
  <2> QED
    BY <1>2, <2>1, <2>2
<1> HIDE DEF a, b
<1>4. IsFiniteSet(a..b) /\ Cardinality(a..b) = PtesPerTable
  BY <1>2, RunCount
<1>5. IsFiniteSet(X) /\ Cardinality(X) \in Nat /\ Cardinality(X) <= Cardinality(a..b)
  BY <1>3, <1>4, CountPart
<1> QED
  BY <1>4, <1>5, Constants

(* What WritePte and ZeroPte count for each page, when the page tables are there. *)
LEMMA CountPtesAt ==
    ASSUME NEW m \in VMs, NEW L, Owners(m, L), NEW R \in SUBSET Virtual,
           \A u \in R : m.pde[Pde(u)] # None
    PROVE  /\ \A d \in Pdes : m.pde[d] # None =>
                 CountPtes(m, R, m.pde[d]) = Cardinality({u \in R : Pde(u) = d})
           /\ \A p \in Pages : m.type[p] # "PageTable" => CountPtes(m, R, p) = 0
<1>1. \A u \in R : Pde(u) \in Pdes /\ GetPfnOfPT(m, Pde(u)) = m.pde[Pde(u)]
  BY DEF GetPfnOfPT, Pdes
<1>2. ASSUME NEW d \in Pdes, m.pde[d] # None
      PROVE  CountPtes(m, R, m.pde[d]) = Cardinality({u \in R : Pde(u) = d})
  <2>1. ASSUME NEW u \in R PROVE GetPfnOfPT(m, Pde(u)) = m.pde[d] <=> Pde(u) = d
    BY <1>1, <1>2 DEF Owners
  <2>2. {u \in R : GetPfnOfPT(m, Pde(u)) = m.pde[d]} = {u \in R : Pde(u) = d}
    BY <2>1
  <2> QED
    BY <2>2 DEF CountPtes
<1>3. ASSUME NEW p \in Pages, m.type[p] # "PageTable"
      PROVE  CountPtes(m, R, p) = 0
  <2>1. \A u \in R : m.type[m.pde[Pde(u)]] = "PageTable"
    BY <1>1 DEF Owners
  <2>2. {u \in R : GetPfnOfPT(m, Pde(u)) = p} = {}
    BY <1>1, <1>3, <2>1
  <2> QED
    BY <2>2, FS_EmptySet DEF CountPtes
<1> QED
  BY <1>2, <1>3

-----------------------------------------------------------------------------
(* Pages of no use become pages of one type, and the count of that type says so. *)
LEMMA UsageGains ==
    ASSUME NEW m \in VMs, NEW w, UsageOK(m), NEW P \in SUBSET Pages,
           \A p \in P : m.type[p] = "Unknown",
           NEW type \in Types \ {"Unknown"}, NEW n \in Int, n = Cardinality(P),
           w.type = [p \in Pages |-> IF p \in P THEN type ELSE m.type[p]],
           w.usage = [m.usage EXCEPT ![type] = @ + n]
    PROVE  UsageOK(w)
<1> SUFFICES ASSUME NEW t \in Types \ {"Unknown"} PROVE w.usage[t] = Cardinality(OfType(w, t))
  BY DEF UsageOK
<1>0. m.usage \in [Types -> Int] /\ m.usage[t] = Cardinality(OfType(m, t)) /\ OfType(m, t) \subseteq Pages
  BY DEF VMs, UsageOK, OfType
<1>1. CASE t = type
  <2>1. OfType(w, t) = OfType(m, t) \cup P /\ OfType(m, t) \cap P = {}
    BY <1>1 DEF OfType
  <2>2. Cardinality(OfType(w, t)) = Cardinality(OfType(m, t)) + n
    BY <1>0, <2>1, PagesFinite, CountJoin
  <2> QED
    BY <1>0, <1>1, <2>2
<1>2. CASE t # type
  <2>1. OfType(w, t) = OfType(m, t)
    BY <1>2 DEF OfType
  <2> QED
    BY <1>0, <1>2, <2>1
<1> QED
  BY <1>1, <1>2

(* Pages of one type become free. *)
LEMMA UsageLoses ==
    ASSUME NEW m \in VMs, NEW w, UsageOK(m), NEW P \in SUBSET Pages,
           NEW type \in Types \ {"Unknown"}, NEW n \in Int, n = Cardinality(P),
           \A p \in P : m.type[p] = type,
           w.type = [p \in Pages |-> IF p \in P THEN "Unknown" ELSE m.type[p]],
           w.usage = [m.usage EXCEPT ![type] = @ - n]
    PROVE  UsageOK(w)
<1> SUFFICES ASSUME NEW t \in Types \ {"Unknown"} PROVE w.usage[t] = Cardinality(OfType(w, t))
  BY DEF UsageOK
<1>0. m.usage \in [Types -> Int] /\ m.usage[t] = Cardinality(OfType(m, t)) /\ OfType(m, t) \subseteq Pages
  BY DEF VMs, UsageOK, OfType
<1>1. CASE t = type
  <2>1. OfType(w, t) = OfType(m, t) \ P /\ P \subseteq OfType(m, t)
    BY <1>1 DEF OfType
  <2>2. Cardinality(OfType(w, t)) = Cardinality(OfType(m, t)) - n
    BY <1>0, <2>1, PagesFinite, CountPart
  <2> QED
    BY <1>0, <1>1, <2>2
<1>2. CASE t # type
  <2>1. OfType(w, t) = OfType(m, t)
    BY <1>2 DEF OfType
  <2> QED
    BY <1>0, <1>2, <2>1
<1> QED
  BY <1>1, <1>2

(* Ptes R of m, all zero, are written in w: with pages of P, which become pages of that type, *)
(* or with the frame of a device.                                                          *)
Bound(m, w, R, P, type) ==
    /\ R \subseteq Virtual
    /\ \A u \in R : m.pte[u] = None /\ w.pte[u] # None /\ m.pde[Pde(u)] # None
    /\ \A u \in R : w.pte[u] \in Pages => w.pte[u] \in P /\ TypeAt(u) = type
    /\ \A u, x \in R : w.pte[u] \in Pages /\ w.pte[u] = w.pte[x] => u = x
    /\ \A p \in P : \E u \in R : w.pte[u] = p
    /\ \A u \in Virtual \ R : w.pte[u] = m.pte[u]
    /\ w.type = [p \in Pages |-> IF p \in P THEN type ELSE m.type[p]]
    /\ w.pde = m.pde /\ w.free = m.free
    /\ \A p \in Pages : w.used[p] = IF m.type[p] = "PageTable"
                                    THEN (m.used[p] + CountPtes(m, R, p)) % PtesUsedWidth ELSE 0

(* Ptes R of m, none zero, are zeroed in w, and their pages P are free. *)
Freed(m, w, R, P) ==
    /\ R \subseteq Virtual
    /\ \A u \in R : m.pte[u] # None /\ w.pte[u] = None
    /\ \A u \in R : m.pte[u] \in Pages => m.pte[u] \in P
    /\ \A p \in P : \E u \in R : m.pte[u] = p
    /\ \A u \in Virtual \ R : w.pte[u] = m.pte[u]
    /\ w.type = [p \in Pages |-> IF p \in P THEN "Unknown" ELSE m.type[p]]
    /\ w.pde = m.pde /\ FreePages(w.free) = FreePages(m.free) \cup P
    /\ \A p \in Pages : w.used[p] = IF m.type[p] = "PageTable"
                                    THEN (m.used[p] - CountPtes(m, R, p)) % PtesUsedWidth ELSE 0

(* Owners of the pages that get a use. *)
LEMMA OwnersBound ==
    ASSUME NEW m \in VMs, NEW w \in VMs, NEW L, Owners(m, L), NEW R, NEW P \in SUBSET L,
           NEW type \in {"Virtual", "System", "Contiguous"}, Bound(m, w, R, P, type)
    PROVE  Owners(w, L \ P)
<1> USE DEF Bound
<1>0. L \subseteq Pages /\ P \subseteq Pages /\ \A p \in P : m.type[p] = "Unknown"
  BY DEF Owners
<1>1. \A p \in Pages : w.type[p] = IF p \in P THEN type ELSE m.type[p]
  OBVIOUS
<1>2. L \ P \subseteq Pages /\ (L \ P) \cap FreePages(w.free) = {}
  BY <1>0 DEF Owners
<1>3. \A p \in Pages : w.type[p] = "Unknown" <=> p \in FreePages(w.free) \cup (L \ P)
  BY <1>0, <1>1 DEF Owners
<1>4. \A v \in Virtual \ R : m.pte[v] \in Pages => m.pte[v] \notin P
  <2> TAKE v \in Virtual \ R
  <2>1. m.pte[v] \in Pages => m.type[m.pte[v]] = TypeAt(v) /\ TypeAt(v) # "Unknown"
    BY DEF Owners, TypeAt
  <2> QED
    BY <1>0, <2>1
<1>5. \A v \in Virtual : w.pte[v] \in Pages => w.type[w.pte[v]] = TypeAt(v)
  <2> TAKE v \in Virtual
  <2>1. CASE v \in R
    BY <1>1, <2>1
  <2>2. CASE v \notin R
    BY <1>1, <1>4, <2>2 DEF Owners
  <2> QED
    BY <2>1, <2>2
<1>6. \A v, x \in Virtual : w.pte[v] \in Pages /\ w.pte[v] = w.pte[x] => v = x
  <2> SUFFICES ASSUME NEW v \in Virtual, NEW x \in Virtual, w.pte[v] \in Pages, w.pte[v] = w.pte[x]
               PROVE  v = x
    OBVIOUS
  <2>1. CASE v \in R /\ x \in R
    BY <2>1
  <2>2. CASE v \notin R /\ x \notin R
    BY <2>2 DEF Owners
  <2>3. CASE v \in R /\ x \notin R
    BY <1>4, <2>3
  <2>4. CASE v \notin R /\ x \in R
    BY <1>4, <2>4
  <2> QED
    BY <2>1, <2>2, <2>3, <2>4
<1>7. \A d \in Pdes : w.pde[d] # None => w.type[w.pde[d]] = "PageTable"
  <2> SUFFICES ASSUME NEW d \in Pdes, w.pde[d] # None PROVE w.type[w.pde[d]] = "PageTable"
    OBVIOUS
  <2>1. m.pde[d] \in Pages /\ m.type[m.pde[d]] = "PageTable" /\ w.pde[d] = m.pde[d]
    BY DEF VMs, Owners
  <2> QED
    BY <1>0, <1>1, <2>1
<1>8. \A d, e \in Pdes : w.pde[d] # None /\ w.pde[d] = w.pde[e] => d = e
  BY DEF Owners
<1>9. \A p \in Pages : w.type[p] = "PageTable" => \E d \in Pdes : w.pde[d] = p
  BY <1>1 DEF Owners
<1>10. \A p \in Pages : w.type[p] \notin {"Unknown", "PageTable"} => \E v \in Virtual : w.pte[v] = p
  <2> SUFFICES ASSUME NEW p \in Pages, w.type[p] \notin {"Unknown", "PageTable"}
               PROVE  \E v \in Virtual : w.pte[v] = p
    OBVIOUS
  <2>1. CASE p \in P
    BY <2>1
  <2>2. CASE p \notin P
    <3>1. PICK v \in Virtual : m.pte[v] = p
      BY <1>1, <2>2 DEF Owners
    <3>2. v \notin R
      BY <3>1, Constants DEF Pages, None
    <3> QED
      BY <3>1, <3>2
  <2> QED
    BY <2>1, <2>2
<1> HIDE DEF Bound
<1> QED
  BY <1>2, <1>3, <1>5, <1>6, <1>7, <1>8, <1>9, <1>10 DEF Owners

(* Owners of the pages that stay in use. *)
LEMMA OwnersFreed ==
    ASSUME NEW m \in VMs, NEW w \in VMs, NEW L, Owners(m, L), NEW R, NEW P \in SUBSET Pages, Freed(m, w, R, P)
    PROVE  Owners(w, L)
<1> USE DEF Freed
<1>0. \A p \in P : m.type[p] \in {"Virtual", "System", "Contiguous"} /\ p \notin FreePages(m.free) \cup L
  <2> TAKE p \in P
  <2>1. PICK u \in R : m.pte[u] = p
    OBVIOUS
  <2>2. m.type[p] = TypeAt(u)
    BY <2>1 DEF Owners
  <2> QED
    BY <2>2 DEF TypeAt, Owners
<1>1. \A p \in Pages : w.type[p] = IF p \in P THEN "Unknown" ELSE m.type[p]
  OBVIOUS
<1>2. L \subseteq Pages /\ L \cap FreePages(w.free) = {}
  BY <1>0 DEF Owners
<1>3. \A p \in Pages : w.type[p] = "Unknown" <=> p \in FreePages(w.free) \cup L
  BY <1>0, <1>1 DEF Owners
<1>4. None \notin Pages
  BY Constants DEF Pages, None
<1>5. \A v \in Virtual : w.pte[v] \in Pages => v \notin R /\ w.pte[v] = m.pte[v]
  BY <1>4
<1>6. \A v \in Virtual : w.pte[v] \in Pages => w.pte[v] \notin P
  <2> SUFFICES ASSUME NEW v \in Virtual, w.pte[v] \in P PROVE FALSE
    OBVIOUS
  <2>1. PICK u \in R : m.pte[u] = w.pte[v]
    OBVIOUS
  <2>2. v \notin R /\ m.pte[v] = w.pte[v]
    BY <1>5
  <2>3. u \in Virtual /\ m.pte[u] \in Pages
    BY <2>1
  <2>4. u = v
    BY <2>1, <2>2, <2>3 DEF Owners
  <2> QED
    BY <2>2, <2>4
<1>7. \A v \in Virtual : w.pte[v] \in Pages => w.type[w.pte[v]] = TypeAt(v)
  BY <1>1, <1>5, <1>6 DEF Owners
<1>8. \A v, x \in Virtual : w.pte[v] \in Pages /\ w.pte[v] = w.pte[x] => v = x
  <2> SUFFICES ASSUME NEW v \in Virtual, NEW x \in Virtual, w.pte[v] \in Pages, w.pte[v] = w.pte[x]
               PROVE  v = x
    OBVIOUS
  <2>1. w.pte[v] = m.pte[v] /\ w.pte[x] = m.pte[x]
    BY <1>5
  <2>2. m.pte[v] \in Pages /\ m.pte[v] = m.pte[x]
    BY <2>1
  <2> HIDE DEF Freed
  <2> QED
    BY <2>2 DEF Owners
<1>9. \A d \in Pdes : w.pde[d] # None => w.type[w.pde[d]] = "PageTable"
  <2> SUFFICES ASSUME NEW d \in Pdes, w.pde[d] # None PROVE w.type[w.pde[d]] = "PageTable"
    OBVIOUS
  <2>1. m.pde[d] \in Pages /\ m.type[m.pde[d]] = "PageTable" /\ w.pde[d] = m.pde[d]
    BY DEF VMs, Owners
  <2> QED
    BY <1>0, <1>1, <2>1
<1>10. \A d, e \in Pdes : w.pde[d] # None /\ w.pde[d] = w.pde[e] => d = e
  BY DEF Owners
<1>11. \A p \in Pages : w.type[p] = "PageTable" => \E d \in Pdes : w.pde[d] = p
  BY <1>1 DEF Owners
<1>12. \A p \in Pages : w.type[p] \notin {"Unknown", "PageTable"} => \E v \in Virtual : w.pte[v] = p
  <2> SUFFICES ASSUME NEW p \in Pages, w.type[p] \notin {"Unknown", "PageTable"}
               PROVE  \E v \in Virtual : w.pte[v] = p
    OBVIOUS
  <2>1. p \notin P /\ w.type[p] = m.type[p]
    BY <1>1
  <2>2. PICK v \in Virtual : m.pte[v] = p
    BY <2>1 DEF Owners
  <2>3. v \notin R
    BY <2>1, <2>2
  <2> QED
    BY <2>2, <2>3
<1> HIDE DEF Freed
<1> QED
  BY <1>2, <1>3, <1>7, <1>8, <1>9, <1>10, <1>11, <1>12 DEF Owners

-----------------------------------------------------------------------------
(* The use counts of the page tables, when ptes R get used and none of them is a guard page. *)
LEMMA CountsBound ==
    ASSUME NEW m \in VMs, NEW w \in VMs, NEW L, Owners(m, L), NEW G, CountsOK(m, G),
           NEW R, R \cap G = {}, NEW P \in SUBSET L,
           NEW type \in {"Virtual", "System", "Contiguous"}, Bound(m, w, R, P, type)
    PROVE  CountsOK(w, G)
<1>1. R \subseteq Virtual /\ \A u \in R : m.pde[Pde(u)] # None /\ m.pte[u] = None /\ w.pte[u] # None
  BY DEF Bound
<1>2. \A u \in Virtual \ R : w.pte[u] = m.pte[u]
  BY DEF Bound
<1>3. /\ \A d \in Pdes : m.pde[d] # None =>
            CountPtes(m, R, m.pde[d]) = Cardinality({u \in R : Pde(u) = d})
      /\ w.pde = m.pde
  BY <1>1, CountPtesAt DEF Bound
<1>4. \A v \in Virtual : w.pte[v] # None \/ v \in G => w.pde[Pde(v)] # None
  BY <1>1, <1>2, <1>3 DEF CountsOK
<1>5. \A p \in Pages : w.type[p] # "PageTable" => w.used[p] = 0
  <2> SUFFICES ASSUME NEW p \in Pages, w.type[p] # "PageTable" PROVE w.used[p] = 0
    OBVIOUS
  <2>1. m.type[p] # "PageTable"
    BY DEF Bound, Owners
  <2> QED
    BY <2>1 DEF Bound
<1>6. ASSUME NEW d \in Pdes, w.pde[d] # None
      PROVE  /\ Cardinality(CountedPtes(w, G, d)) <= w.used[w.pde[d]]
             /\ w.used[w.pde[d]] <= UsedPtes(w, d) + MaxLeaks
  <2> DEFINE p == m.pde[d]
             X == {u \in R : Pde(u) = d}
             C == CountedPtes(m, G, d)
             U == {v \in Virtual : Pde(v) = d /\ m.pte[v] # None}
             V == {v \in Virtual : Pde(v) = d /\ w.pte[v] # None}
             x == Cardinality(X)
             c == Cardinality(C)
             y == Cardinality(U)
  <2>1. p # None /\ p \in Pages /\ m.type[p] = "PageTable" /\ w.pde[d] = p
    BY <1>3, <1>6 DEF VMs, Owners
  <2>2. /\ CountedPtes(w, G, d) = C \cup X /\ C \cap X = {}
        /\ V = U \cup X /\ U \cap X = {}
    BY <1>1, <1>2 DEF CountedPtes
  <2>3. /\ IsFiniteSet(C) /\ IsFiniteSet(X) /\ IsFiniteSet(U)
        /\ Cardinality(V) \in 0..PtesPerTable
    <3>1. C \subseteq Virtual /\ X \subseteq Virtual /\ U \subseteq Virtual /\ V \subseteq Virtual
      BY <1>1 DEF CountedPtes
    <3>2. \A v \in V : Pde(v) = d
      OBVIOUS
    <3> HIDE DEF C, X, U, V
    <3> QED
      BY <3>1, <3>2, VirtualIs, FS_Subset, TableSize
  <2>4. c <= m.used[p] /\ m.used[p] <= y + MaxLeaks
    BY <2>1 DEF CountsOK, UsedPtes
  <2>5. w.used[p] = (m.used[p] + x) % PtesUsedWidth
    BY <1>3, <2>1 DEF Bound
  <2>6. m.used[p] \in Nat /\ UsedPtes(w, d) = Cardinality(V)
    BY <2>1, Constants DEF VMs, UsedPtes
  <2> HIDE DEF C, X, U, V, p
  <2>7. /\ Cardinality(C \cup X) = c + x /\ Cardinality(U \cup X) = y + x
        /\ c \in Nat /\ x \in Nat /\ y \in Nat
    BY <2>2, <2>3, CountJoin
  <2>8. Cardinality(V) = y + x
    BY <2>2, <2>7
  <2> HIDE DEF x, y, c
  <2>9. m.used[p] + x < PtesUsedWidth /\ m.used[p] + x \in Nat
    BY <2>3, <2>4, <2>6, <2>7, <2>8, Constants
  <2>10. w.used[p] = m.used[p] + x
    BY <2>5, <2>9, Constants
  <2>11. c + x <= w.used[p] /\ w.used[p] <= (y + x) + MaxLeaks
    BY <2>4, <2>6, <2>7, <2>10, Constants
  <2> QED
    BY <2>1, <2>2, <2>6, <2>7, <2>8, <2>11
<1> QED
  BY <1>4, <1>5, <1>6 DEF CountsOK

(* The same when ptes are zeroed. *)
LEMMA CountsFreed ==
    ASSUME NEW m \in VMs, NEW w \in VMs, NEW L, Owners(m, L), NEW G, CountsOK(m, G),
           NEW R, R \cap G = {}, NEW P \in SUBSET Pages, Freed(m, w, R, P)
    PROVE  CountsOK(w, G)
<1>1. R \subseteq Virtual /\ \A u \in R : m.pde[Pde(u)] # None /\ m.pte[u] # None /\ w.pte[u] = None
  BY DEF Freed, CountsOK
<1>2. \A u \in Virtual \ R : w.pte[u] = m.pte[u]
  BY DEF Freed
<1>3. /\ \A d \in Pdes : m.pde[d] # None =>
            CountPtes(m, R, m.pde[d]) = Cardinality({u \in R : Pde(u) = d})
      /\ w.pde = m.pde
  BY <1>1, CountPtesAt DEF Freed
<1>4. \A v \in Virtual : w.pte[v] # None \/ v \in G => w.pde[Pde(v)] # None
  BY <1>1, <1>2, <1>3 DEF CountsOK
<1>5. \A p \in Pages : w.type[p] # "PageTable" => w.used[p] = 0
  <2> SUFFICES ASSUME NEW p \in Pages, w.type[p] # "PageTable" PROVE w.used[p] = 0
    OBVIOUS
  <2>1. m.type[p] # "PageTable"
    <3>1. CASE p \in P
      <4>1. PICK u \in R : m.pte[u] = p
        BY <3>1 DEF Freed
      <4>2. m.type[p] = TypeAt(u)
        BY <1>1, <4>1 DEF Owners
      <4> QED
        BY <4>2 DEF TypeAt
    <3>2. CASE p \notin P
      BY <3>2 DEF Freed
    <3> QED
      BY <3>1, <3>2
  <2> QED
    BY <2>1 DEF Freed
<1>6. ASSUME NEW d \in Pdes, w.pde[d] # None
      PROVE  /\ Cardinality(CountedPtes(w, G, d)) <= w.used[w.pde[d]]
             /\ w.used[w.pde[d]] <= UsedPtes(w, d) + MaxLeaks
  <2> DEFINE p == m.pde[d]
             X == {u \in R : Pde(u) = d}
             C == CountedPtes(m, G, d)
             U == {v \in Virtual : Pde(v) = d /\ m.pte[v] # None}
             V == {v \in Virtual : Pde(v) = d /\ w.pte[v] # None}
             x == Cardinality(X)
             c == Cardinality(C)
             y == Cardinality(U)
  <2>1. p # None /\ p \in Pages /\ m.type[p] = "PageTable" /\ w.pde[d] = p
    BY <1>3, <1>6 DEF VMs, Owners
  <2>2. /\ CountedPtes(w, G, d) = C \ X /\ X \subseteq C
        /\ V = U \ X /\ X \subseteq U
    BY <1>1, <1>2 DEF CountedPtes
  <2>3. IsFiniteSet(C) /\ IsFiniteSet(U)
    <3>1. C \subseteq Virtual /\ U \subseteq Virtual
      BY DEF CountedPtes
    <3> HIDE DEF C, U
    <3> QED
      BY <3>1, VirtualIs, FS_Subset
  <2>4. c <= m.used[p] /\ m.used[p] <= y + MaxLeaks
    BY <2>1 DEF CountsOK, UsedPtes
  <2>5. w.used[p] = (m.used[p] - x) % PtesUsedWidth
    BY <1>3, <2>1 DEF Freed
  <2>6. m.used[p] \in 0..PtesUsedWidth - 1 /\ UsedPtes(w, d) = Cardinality(V)
    BY <2>1, Constants DEF VMs, UsedPtes
  <2> HIDE DEF C, X, U, V, p
  <2>7. /\ Cardinality(C \ X) = c - x /\ Cardinality(U \ X) = y - x
        /\ c \in Nat /\ x \in Nat /\ y \in Nat /\ x <= c
    BY <2>2, <2>3, CountPart
  <2>8. Cardinality(V) = y - x
    BY <2>2, <2>7
  <2> HIDE DEF x, y, c
  <2>9. m.used[p] - x \in 0..PtesUsedWidth - 1
    BY <2>4, <2>6, <2>7, Constants
  <2>10. w.used[p] = m.used[p] - x
    BY <2>5, <2>9, Constants
  <2>11. c - x <= w.used[p] /\ w.used[p] <= (y - x) + MaxLeaks
    BY <2>4, <2>6, <2>7, <2>10, Constants
  <2> QED
    BY <2>1, <2>2, <2>6, <2>7, <2>8, <2>11
<1> QED
  BY <1>4, <1>5, <1>6 DEF CountsOK

(* What AllocatePT leaves behind after the page directory entries F. *)
AfterTables(m, w, F, L, G) ==
    /\ w \in VMs /\ FreeOK(w)
    /\ w.pte = m.pte /\ w.ended = m.ended /\ SameAreas(m, w)
    /\ \A e \in Pdes : m.pde[e] # None \/ e \notin F => w.pde[e] = m.pde[e]
    /\ \A e \in F : w.pde[e] # None
    /\ m.starved => w.starved
    /\ FreePages(m.free) \ FreePages(w.free) \subseteq 0..MaxContiguousPfn
    /\ w.available >= m.available - Cardinality(F)
    /\ PagesOK(m, L, G) /\ ~w.starved =>
          /\ PagesOK(w, L, G)
          /\ \A e \in Pdes : w.pde[e] # None =>
                w.used[w.pde[e]] = IF m.pde[e] # None THEN m.used[m.pde[e]] ELSE 0
    /\ (\A e \in F : m.pde[e] # None) => w = m

(* A page table gets a page that was free. *)
LEMMA TableBound ==
    ASSUME NEW m \in VMs, NEW w \in VMs, NEW L, NEW G, PagesOK(m, L, G), NEW d \in Pdes, m.pde[d] = None,
           NEW p \in FreePages(m.free), p \in Pages,
           FreePages(w.free) = FreePages(m.free) \ {p}, w.pte = m.pte,
           w.pde = [m.pde EXCEPT ![d] = p],
           w.type = [q \in Pages |-> IF q \in {p} THEN "PageTable" ELSE m.type[q]],
           w.used = [q \in Pages |-> IF q \in {p} THEN 0 ELSE m.used[q]],
           w.usage = [m.usage EXCEPT !["PageTable"] = @ + 1]
    PROVE  /\ PagesOK(w, L, G)
           /\ \A e \in Pdes : w.pde[e] # None =>
                 w.used[w.pde[e]] = IF m.pde[e] # None THEN m.used[m.pde[e]] ELSE 0
<1>1. Owners(m, L) /\ UsageOK(m) /\ CountsOK(m, G) /\ p \notin L /\ m.type[p] = "Unknown"
  BY DEF PagesOK, Owners
<1>2. None \notin Pages /\ m.pde \in [Pdes -> Pages \cup {None}]
  BY Constants DEF Pages, None, VMs
<1>3. w.pde[d] = p /\ \A e \in Pdes \ {d} : w.pde[e] = m.pde[e]
  BY <1>2
<1>4. \A e \in Pdes : m.pde[e] # p
  BY <1>1, <1>2 DEF Owners
<1>5. Owners(w, L)
  <2>1. /\ L \subseteq Pages /\ L \cap FreePages(w.free) = {}
        /\ \A q \in Pages : w.type[q] = "Unknown" <=> q \in FreePages(w.free) \cup L
    BY <1>1 DEF Owners
  <2>2. \A v \in Virtual : w.pte[v] \in Pages => w.type[w.pte[v]] = TypeAt(v)
    BY <1>1 DEF Owners, TypeAt
  <2>3. \A v, x \in Virtual : w.pte[v] \in Pages /\ w.pte[v] = w.pte[x] => v = x
    BY <1>1 DEF Owners
  <2>4. \A e \in Pdes : w.pde[e] # None => w.type[w.pde[e]] = "PageTable"
    <3> SUFFICES ASSUME NEW e \in Pdes, w.pde[e] # None PROVE w.type[w.pde[e]] = "PageTable"
      OBVIOUS
    <3>1. CASE e = d
      BY <1>3, <3>1
    <3>2. CASE e # d
      <4>1. w.pde[e] = m.pde[e] /\ m.pde[e] \in Pages
        BY <1>2, <1>3, <3>2
      <4> QED
        BY <1>1, <4>1 DEF Owners
    <3> QED
      BY <3>1, <3>2
  <2>5. \A e, f \in Pdes : w.pde[e] # None /\ w.pde[e] = w.pde[f] => e = f
    BY <1>1, <1>3, <1>4 DEF Owners
  <2>6. \A q \in Pages : w.type[q] = "PageTable" => \E e \in Pdes : w.pde[e] = q
    <3> SUFFICES ASSUME NEW q \in Pages, w.type[q] = "PageTable" PROVE \E e \in Pdes : w.pde[e] = q
      OBVIOUS
    <3>1. CASE q = p
      BY <1>3, <3>1
    <3>2. CASE q # p
      <4>1. PICK e \in Pdes : m.pde[e] = q
        BY <1>1, <3>2 DEF Owners
      <4>2. e # d
        BY <1>2, <4>1
      <4> QED
        BY <1>3, <4>1, <4>2
    <3> QED
      BY <3>1, <3>2
  <2>7. \A q \in Pages : w.type[q] \notin {"Unknown", "PageTable"} => \E v \in Virtual : w.pte[v] = q
    BY <1>1 DEF Owners
  <2> QED
    BY <2>1, <2>2, <2>3, <2>4, <2>5, <2>6, <2>7 DEF Owners
<1>6. UsageOK(w)
  <2>1. {p} \in SUBSET Pages /\ Cardinality({p}) = 1 /\ "PageTable" \in Types \ {"Unknown"}
    BY FS_Singleton DEF Types
  <2> QED
    BY <1>1, <2>1, UsageGains
<1>7. \A e \in Pdes : w.pde[e] # None =>
        w.used[w.pde[e]] = IF m.pde[e] # None THEN m.used[m.pde[e]] ELSE 0
  <2> SUFFICES ASSUME NEW e \in Pdes, w.pde[e] # None
               PROVE  w.used[w.pde[e]] = IF m.pde[e] # None THEN m.used[m.pde[e]] ELSE 0
    OBVIOUS
  <2>1. CASE e = d
    BY <1>3, <2>1
  <2>2. CASE e # d
    <3>1. w.pde[e] = m.pde[e] /\ m.pde[e] \in Pages /\ m.pde[e] # p
      BY <1>2, <1>3, <1>4, <2>2
    <3> QED
      BY <2>2, <3>1
  <2> QED
    BY <2>1, <2>2
<1>8. CountsOK(w, G)
  <2>1. \A v \in Virtual : w.pte[v] # None \/ v \in G => w.pde[Pde(v)] # None
    BY <1>1, <1>2, <1>3 DEF CountsOK, Pdes
  <2>2. \A q \in Pages : w.type[q] # "PageTable" => w.used[q] = 0
    BY <1>1 DEF CountsOK
  <2>3. ASSUME NEW e \in Pdes, w.pde[e] # None
        PROVE  /\ Cardinality(CountedPtes(w, G, e)) <= w.used[w.pde[e]]
               /\ w.used[w.pde[e]] <= UsedPtes(w, e) + MaxLeaks
    <3>1. CountedPtes(w, G, e) = CountedPtes(m, G, e) /\ UsedPtes(w, e) = UsedPtes(m, e)
      BY DEF CountedPtes, UsedPtes
    <3>2. CASE m.pde[e] # None
      BY <1>1, <1>7, <2>3, <3>1, <3>2 DEF CountsOK
    <3>3. CASE m.pde[e] = None
      <4>1. CountedPtes(m, G, e) = {} /\ {v \in Virtual : Pde(v) = e /\ m.pte[v] # None} = {}
        BY <1>1, <3>3 DEF CountsOK, CountedPtes
      <4>2. Cardinality(CountedPtes(m, G, e)) = 0 /\ UsedPtes(m, e) = 0
        BY <4>1, FS_EmptySet DEF UsedPtes
      <4> QED
        BY <1>7, <2>3, <3>1, <3>3, <4>2, Constants
    <3> QED
      BY <3>2, <3>3
  <2> QED
    BY <2>1, <2>2, <2>3 DEF CountsOK
<1> QED
  BY <1>5, <1>6, <1>7, <1>8 DEF PagesOK

(* AllocatePT for one page directory entry. *)
LEMMA CommitTableIs ==
    ASSUME NEW m \in VMs, FreeOK(m), NEW d \in Pdes, NEW L, NEW G
    PROVE  AfterTables(m, CommitTable(m, d), {d}, L, G)
<1> DEFINE t == TakePage(m, MaxContiguousPfn)
           u == t.vm
           p == t.pfn
           x == [u EXCEPT !.pde[d] = p]
           w == WritePfn(x, p, p, "PageTable")
<1>0. Cardinality({d}) = 1 /\ m.available \in Int
  BY FS_Singleton DEF VMs
<1>1. CASE m.pde[d] # None
  <2>1. CommitTable(m, d) = m
    BY <1>1 DEF CommitTable
  <2> QED
    BY <1>0, <1>1, <2>1 DEF AfterTables, SameAreas
<1>2. CASE m.pde[d] = None
  <2>1. CommitTable(m, d) = w
    BY <1>2 DEF CommitTable
  <2>2. MaxContiguousPfn \in Pages
    BY Constants DEF Pages
  <2>3. /\ u \in VMs /\ FreeOK(u) /\ p \in Pages
        /\ SameFrames(m, u) /\ SameMaps(m, u) /\ SameAreas(m, u)
        /\ \/ /\ u.starved = m.starved /\ p \in FreePages(m.free)
              /\ FreePages(u.free) = FreePages(m.free) \ {p}
              /\ u.available = m.available - 1 /\ p <= MaxContiguousPfn
           \/ u.starved /\ u.free = m.free /\ u.available = m.available
    BY <2>2, TakePageIs
  <2> HIDE DEF t
  <2> DEFINE pde == [u.pde EXCEPT ![d] = p]
  <2>4. x = [u EXCEPT !.pde = pde] /\ pde \in [Pdes -> Pages \cup {None}] /\ u.pde = m.pde
    BY <2>3 DEF VMs, SameMaps
  <2> HIDE DEF u, p, pde
  <2>5. /\ x \in VMs /\ x.pde = pde /\ x.pte = u.pte /\ x.ended = u.ended
        /\ SameFree(u, x) /\ SameFrames(u, x) /\ SameAreas(u, x) /\ x.starved = u.starved
    BY <2>3, <2>4 DEF VMs, SameFree, SameFrames, SameAreas
  <2> HIDE DEF x
  <2>6. /\ w \in VMs
        /\ w.type = [q \in Pages |-> IF q \in {p} THEN "PageTable" ELSE x.type[q]]
        /\ w.used = [q \in Pages |-> IF q \in {p} THEN 0 ELSE x.used[q]]
        /\ w.usage = [x.usage EXCEPT !["PageTable"] = @ + 1]
        /\ SameFree(x, w) /\ SameMaps(x, w) /\ SameAreas(x, w) /\ w.starved = x.starved
    <3>1. "PageTable" \in Types
      BY DEF Types
    <3> QED
      BY <2>3, <2>5, <3>1, WritePfnOne DEF WrotePfn
  <2> HIDE DEF w
  <2>7. /\ w.pte = m.pte /\ w.ended = m.ended /\ SameAreas(m, w) /\ w.free = u.free
        /\ w.available = u.available /\ w.starved = u.starved
        /\ w.pde = [m.pde EXCEPT ![d] = p]
        /\ m.pde \in [Pdes -> Pages \cup {None}] /\ None \notin Pages
    BY <2>3, <2>4, <2>5, <2>6, Constants DEF SameMaps, SameAreas, SameFree, pde, VMs, Pages, None
  <2>8. FreeOK(w)
    BY <2>3, <2>7 DEF FreeOK
  <2>9. w.pde[d] = p /\ p # None /\ \A e \in Pdes \ {d} : w.pde[e] = m.pde[e]
    BY <2>3, <2>7
  <2>10. FreePages(m.free) \ FreePages(w.free) \subseteq 0..MaxContiguousPfn
    BY <2>3, <2>7, Constants DEF Pages
  <2>11. w.available >= m.available - Cardinality({d})
    BY <1>0, <2>3, <2>7
  <2>12. m.starved => w.starved
    BY <2>3, <2>7
  <2>13. ASSUME PagesOK(m, L, G), ~w.starved
         PROVE  /\ PagesOK(w, L, G)
                /\ \A e \in Pdes : w.pde[e] # None =>
                      w.used[w.pde[e]] = IF m.pde[e] # None THEN m.used[m.pde[e]] ELSE 0
    <3>1. p \in FreePages(m.free) /\ FreePages(w.free) = FreePages(m.free) \ {p}
      BY <2>3, <2>7, <2>13
    <3>3. m.usage \in [Types -> Int] /\ u.usage = m.usage /\ u.type = m.type /\ u.used = m.used
      BY <2>3 DEF SameFrames, VMs
    <3>4. w.type = [q \in Pages |-> IF q \in {p} THEN "PageTable" ELSE m.type[q]]
      BY <2>5, <2>6, <3>3 DEF SameFrames
    <3>5. w.used = [q \in Pages |-> IF q \in {p} THEN 0 ELSE m.used[q]]
      BY <2>5, <2>6, <3>3 DEF SameFrames
    <3>6. w.usage = [m.usage EXCEPT !["PageTable"] = @ + 1]
      BY <2>5, <2>6, <3>3 DEF SameFrames
    <3> QED
      BY <1>2, <2>3, <2>6, <2>7, <2>13, <3>1, <3>4, <3>5, <3>6, TableBound
  <2> QED
    BY <1>2, <2>1, <2>6, <2>7, <2>8, <2>9, <2>10, <2>11, <2>12, <2>13 DEF AfterTables
<1> QED
  BY <1>1, <1>2

(* The page directory entries a range of addresses goes through. *)
LEMMA PdeRange ==
    ASSUME NEW v \in Nat, NEW n \in Nat \ {0}, v..v + n - 1 \subseteq Virtual
    PROVE  /\ Pde(v) \in Nat /\ Pde(v + n - 1) \in Nat /\ Pde(v) <= Pde(v + n - 1)
           /\ \A d \in Pde(v)..Pde(v + n - 1) : d \in Pdes /\ \E u \in v..v + n - 1 : Pde(u) = d
           /\ \A u \in v..v + n - 1 : Pde(u) \in Pde(v)..Pde(v + n - 1)
<1> DEFINE b == v + n - 1
           K == PtesPerTable
<1>1. b \in Nat /\ v <= b /\ K \in Nat \ {0} /\ v \in v..b
  BY Constants
<1>2. \A u \in Nat : Pde(u) \in Nat /\ Pde(u) * K <= u /\ u <= Pde(u) * K + K - 1
  BY PdeIs
<1> HIDE DEF b, K
<1>3. ASSUME NEW u \in Nat, NEW x \in Nat, u <= x PROVE Pde(u) <= Pde(x)
  <2>1. SUFFICES ASSUME Pde(x) + 1 <= Pde(u) PROVE FALSE
    BY <1>2
  <2> DEFINE i == Pde(x)
             j == Pde(u)
  <2>2. i \in Nat /\ j \in Nat /\ j * K <= u /\ x <= i * K + K - 1 /\ i + 1 <= j
    BY <1>2, <2>1
  <2> HIDE DEF i, j
  <2>3. (i + 1) * K <= j * K /\ (i + 1) * K = i * K + K
    BY <1>1, <2>2
  <2> QED
    BY <1>1, <1>3, <2>2, <2>3
<1>4. ASSUME NEW d \in Pde(v)..Pde(b) PROVE \E u \in v..b : Pde(u) = d
  <2>0. Pde(v) \in Nat /\ Pde(b) \in Nat /\ d \in Nat /\ Pde(v) <= d /\ d <= Pde(b)
    BY <1>1, <1>2
  <2>1. CASE d = Pde(v)
    BY <1>1, <2>1
  <2>2. CASE d # Pde(v)
    <3> DEFINE u == d * K
    <3>1. u \in Nat /\ u >= (Pde(v) + 1) * K /\ u <= Pde(b) * K
      <4> DEFINE i == Pde(v)
                 j == Pde(b)
      <4>1. i \in Nat /\ j \in Nat /\ i + 1 <= d /\ d <= j
        BY <2>0, <2>2
      <4> HIDE DEF i, j
      <4>2. d * K \in Nat /\ (i + 1) * K <= d * K /\ d * K <= j * K
        BY <1>1, <2>0, <4>1
      <4> QED
        BY <4>2 DEF i, j
    <3>2. u >= v
      <4> DEFINE i == Pde(v)
      <4>1. i \in Nat /\ v <= i * K + K - 1 /\ u >= (i + 1) * K /\ (i + 1) * K = i * K + K
        <5>1. i \in Nat /\ v <= i * K + K - 1
          BY <1>2
        <5>2. (i + 1) * K = i * K + K
          BY <1>1, <5>1
        <5> QED
          BY <3>1, <5>1, <5>2
      <4> HIDE DEF i, u
      <4> QED
        BY <1>1, <3>1, <4>1
    <3>3. u <= b
      <4>1. Pde(b) * K <= b /\ Pde(b) * K \in Nat
        BY <1>1, <1>2
      <4> HIDE DEF u
      <4> QED
        BY <1>1, <3>1, <4>1
    <3>4. Pde(u) = d
      <4> DEFINE i == Pde(u)
      <4>1. i \in Nat /\ i * K <= u /\ u <= i * K + K - 1
        BY <1>2, <3>1
      <4>2. i * K <= d * K /\ d * K <= i * K + K - 1
        BY <4>1
      <4> HIDE DEF i, u
      <4>3. ~(i + 1 <= d)
        <5> SUFFICES ASSUME i + 1 <= d PROVE FALSE
          OBVIOUS
        <5>1. (i + 1) * K <= d * K /\ (i + 1) * K = i * K + K
          BY <1>1, <2>0, <4>1
        <5> QED
          BY <1>1, <2>0, <4>1, <4>2, <5>1
      <4>4. ~(d + 1 <= i)
        <5> SUFFICES ASSUME d + 1 <= i PROVE FALSE
          OBVIOUS
        <5>1. (d + 1) * K <= i * K /\ (d + 1) * K = d * K + K
          BY <1>1, <2>0, <4>1
        <5> QED
          BY <1>1, <2>0, <4>1, <4>2, <5>1
      <4> QED
        BY <2>0, <4>1, <4>3, <4>4 DEF i
    <3> HIDE DEF u
    <3>5. u \in v..b
      BY <1>1, <3>1, <3>2, <3>3
    <3> QED
      BY <3>4, <3>5
  <2> QED
    BY <2>1, <2>2
<1>5. \A u \in v..b : Pde(u) \in Pde(v)..Pde(b)
  <2> SUFFICES ASSUME NEW u \in v..b PROVE Pde(u) \in Pde(v)..Pde(b)
    OBVIOUS
  <2>1. u \in Nat /\ v <= u /\ u <= b
    BY <1>1
  <2>2. Pde(v) <= Pde(u) /\ Pde(u) <= Pde(b)
    BY <1>1, <1>3, <2>1
  <2>3. Pde(v) \in Nat /\ Pde(u) \in Nat /\ Pde(b) \in Nat
    BY <1>1, <1>2, <2>1
  <2> QED
    BY <2>2, <2>3
<1>6. \A d \in Pde(v)..Pde(b) : d \in Pdes
  BY <1>4 DEF Pdes, b
<1>7. Pde(v) \in Nat /\ Pde(b) \in Nat /\ Pde(v) <= Pde(b)
  BY <1>1, <1>2, <1>3
<1> QED
  BY <1>4, <1>5, <1>6, <1>7 DEF b

(* AllocatePT: after it every page of the range has a page table, and nothing happens if each *)
(* had one.                                                                                *)
LEMMA AllocatePTIs ==
    ASSUME NEW m \in VMs, FreeOK(m), NEW v \in Nat, NEW n \in Nat \ {0}, v..v + n - 1 \subseteq Virtual,
           NEW L, NEW G
    PROVE  AfterTables(m, AllocatePT(m, v, n), Pde(v)..Pde(v + n - 1), L, G)
<1> DEFINE a == Pde(v)
           b == Pde(v + n - 1)
<1>0. a \in Nat /\ b \in Nat /\ a <= b /\ \A d \in a..b : d \in Pdes
  BY PdeRange
<1> HIDE DEF a, b
<1>1. /\ a \in Nat /\ b \in Nat /\ a <= b /\ \A d \in a..b : d \in Pdes
      /\ a \in Int /\ b \in Int /\ a - 1 \in Int /\ a - 1 <= b /\ b \in a - 1..b
  BY <1>0
<1>2. PICK g : /\ AllocatePT(m, v, n) = g[b]
               /\ g[a - 1] = m
               /\ \A i \in a..b : g[i] = CommitTable(g[i - 1], i)
  BY <1>1, AllocatePTLoop DEF a, b
<1>3. AllocatePT(m, v, n) = g[b]
  BY <1>2
<1> DEFINE T == {i \in a - 1..b : AfterTables(m, g[i], a..i, L, G)}
<1>4. a - 1 \in T
  <2>1. a..a - 1 = {} /\ Cardinality({}) = 0 /\ m.available \in Int
    BY <1>1, FS_EmptySet DEF VMs
  <2>2. AfterTables(m, m, {}, L, G)
    BY <2>1 DEF AfterTables, SameAreas
  <2> QED
    BY <1>1, <1>2, <2>1, <2>2
<1>5. ASSUME NEW i \in (a - 1) + 1..b, i - 1 \in T PROVE i \in T
  <2> DEFINE x == g[i - 1]
             w == g[i]
             F == a..i - 1
  <2>1. i \in a..b /\ i \in Pdes /\ i \notin F /\ a..i = F \cup {i} /\ i \in a - 1..b
    BY <1>1
  <2>2. w = CommitTable(x, i)
    BY <1>2, <2>1
  <2>3. AfterTables(m, x, F, L, G)
    BY <1>5
  <2>4. x \in VMs /\ FreeOK(x)
    BY <2>3 DEF AfterTables
  <2>5. AfterTables(x, w, {i}, L, G)
    BY <2>1, <2>2, <2>4, CommitTableIs
  <2>6. IsFiniteSet(F) /\ Cardinality(F) \in Nat /\ Cardinality(F \cup {i}) = Cardinality(F) + 1
        /\ Cardinality({i}) = 1
    <3>1. IsFiniteSet(F)
      BY <1>1, FS_Interval
    <3> HIDE DEF F
    <3> QED
      BY <2>1, <3>1, FS_AddElement, FS_CardinalityType, FS_Singleton
  <2> HIDE DEF x, w, F
  <2>7. AfterTables(m, w, F \cup {i}, L, G)
    <3>1. /\ w \in VMs /\ FreeOK(w) /\ w.pte = m.pte /\ w.ended = m.ended /\ SameAreas(m, w)
          /\ m.starved => w.starved
      BY <2>3, <2>5 DEF AfterTables, SameAreas
    <3>2. \A e \in Pdes : m.pde[e] # None \/ e \notin F \cup {i} => w.pde[e] = m.pde[e]
      <4> SUFFICES ASSUME NEW e \in Pdes, m.pde[e] # None \/ e \notin F \cup {i} PROVE w.pde[e] = m.pde[e]
        OBVIOUS
      <4>1. x.pde[e] = m.pde[e]
        BY <2>3 DEF AfterTables
      <4> QED
        BY <2>5, <4>1 DEF AfterTables
    <3>3. \A e \in F \cup {i} : w.pde[e] # None
      <4>1. w.pde[i] # None
        BY <2>5 DEF AfterTables
      <4>2. ASSUME NEW e \in F PROVE w.pde[e] # None
        <5>1. x.pde[e] # None /\ e \in Pdes
          BY <1>1, <2>1, <2>3 DEF AfterTables, F
        <5> QED
          BY <2>5, <5>1 DEF AfterTables
      <4> QED
        BY <4>1, <4>2
    <3>4. FreePages(m.free) \ FreePages(w.free) \subseteq 0..MaxContiguousPfn
      BY <2>3, <2>5 DEF AfterTables
    <3>5. w.available >= m.available - Cardinality(F \cup {i})
      <4>1. m.available \in Int /\ x.available \in Int /\ w.available \in Int
        BY <2>4, <3>1 DEF VMs
      <4>2. x.available >= m.available - Cardinality(F) /\ w.available >= x.available - 1
        BY <2>3, <2>5, <2>6 DEF AfterTables
      <4> QED
        BY <2>6, <4>1, <4>2
    <3>6. ASSUME PagesOK(m, L, G), ~w.starved
          PROVE  /\ PagesOK(w, L, G)
                 /\ \A e \in Pdes : w.pde[e] # None =>
                       w.used[w.pde[e]] = IF m.pde[e] # None THEN m.used[m.pde[e]] ELSE 0
      <4>1. ~x.starved
        BY <2>5, <3>6 DEF AfterTables
      <4>2. /\ PagesOK(x, L, G)
            /\ \A e \in Pdes : x.pde[e] # None =>
                  x.used[x.pde[e]] = IF m.pde[e] # None THEN m.used[m.pde[e]] ELSE 0
        BY <2>3, <3>6, <4>1 DEF AfterTables
      <4>3. /\ PagesOK(w, L, G)
            /\ \A e \in Pdes : w.pde[e] # None =>
                  w.used[w.pde[e]] = IF x.pde[e] # None THEN x.used[x.pde[e]] ELSE 0
        BY <2>5, <3>6, <4>2 DEF AfterTables
      <4>4. \A e \in Pdes : m.pde[e] # None => x.pde[e] # None
        BY <2>3 DEF AfterTables
      <4> QED
        BY <4>2, <4>3, <4>4
    <3>7. ASSUME \A e \in F \cup {i} : m.pde[e] # None PROVE w = m
      <4>1. x = m
        BY <2>3, <3>7 DEF AfterTables
      <4> QED
        BY <2>5, <3>7, <4>1 DEF AfterTables
    <3> QED
      BY <3>1, <3>2, <3>3, <3>4, <3>5, <3>6, <3>7 DEF AfterTables
  <2> QED
    BY <2>1, <2>7 DEF w, F
<1>6. b \in T
  <2> HIDE DEF T
  <2> QED
    BY <1>1, <1>4, <1>5, StepByStep
<1> QED
  BY <1>3, <1>6 DEF a, b

(* What a step leaves alone that only frees page tables or pages. *)
SameOutside(m, w) == w.pte = m.pte /\ w.ended = m.ended /\ SameAreas(m, w) /\ w.starved = m.starved

(* DeallocatePT for one page directory entry that has a page table: it goes when its count is *)
(* zero, and then no pte of it is in use and it holds no guard page.                        *)
LEMMA FreeTableIs ==
    ASSUME NEW m \in VMs, FreeOK(m), NEW G, PagesOK(m, {}, G), NEW d \in Pdes, m.pde[d] # None
    PROVE  LET w == FreeTable(m, d)
           IN  /\ w \in VMs /\ FreeOK(w) /\ PagesOK(w, {}, G) /\ SameOutside(m, w)
               /\ \A e \in Pdes \ {d} : w.pde[e] = m.pde[e]
<1> DEFINE p == m.pde[d]
           x == Released(m, p, p)
           y == ZeroPfn(x, p, p, "PageTable")
           w == [y EXCEPT !.pde[d] = None]
<1>1. /\ p \in Pages /\ None \notin Pages /\ m.type[p] = "PageTable" /\ GetPfnOfPT(m, d) = p
      /\ m.pde \in [Pdes -> Pages \cup {None}]
      /\ Owners(m, {}) /\ UsageOK(m) /\ CountsOK(m, G)
  <2>1. m.pde \in [Pdes -> Pages \cup {None}]
    BY DEF VMs
  <2>2. p \in Pages /\ None \notin Pages
    BY <2>1, Constants DEF Pages, None
  <2>3. Owners(m, {}) /\ UsageOK(m) /\ CountsOK(m, G)
    BY DEF PagesOK
  <2>4. m.type[p] = "PageTable"
    BY <2>3 DEF Owners
  <2>5. GetPfnOfPT(m, d) = p
    BY DEF GetPfnOfPT
  <2> QED
    BY <2>1, <2>2, <2>3, <2>4, <2>5
<1>2. CASE m.used[p] # 0
  <2>1. FreeTable(m, d) = m
    BY <1>1, <1>2 DEF FreeTable
  <2> QED
    BY <2>1 DEF SameOutside, SameAreas
<1>3. CASE m.used[p] = 0
  <2>0. p \in Int /\ p..p = {p} /\ p \notin FreePages(m.free) /\ "PageTable" \in Types
    BY <1>1, Constants DEF Pages, Owners, Types
  <2>1. FreeTable(m, d) = w
    BY <1>1, <1>3 DEF FreeTable
  <2> HIDE DEF p
  <2>2. /\ x \in VMs /\ FreeOK(x)
        /\ FreePages(x.free) = FreePages(m.free) \cup p..p
        /\ SameFrames(m, x) /\ SameMaps(m, x) /\ SameAreas(m, x) /\ x.starved = m.starved
    BY <1>1, <2>0, ReleaseFree
  <2> HIDE DEF x
  <2>3. /\ y \in VMs
        /\ y.type = [q \in Pages |-> IF q \in {p} THEN "Unknown" ELSE x.type[q]]
        /\ y.used = [q \in Pages |-> IF q \in {p} THEN 0 ELSE x.used[q]]
        /\ y.usage = [x.usage EXCEPT !["PageTable"] = @ - 1]
        /\ SameFree(x, y) /\ SameMaps(x, y) /\ SameAreas(x, y) /\ y.starved = x.starved
    <3>1. x \in VMs /\ p \in Pages /\ "PageTable" \in Types
      BY <1>1, <2>0, <2>2
    <3>2. ZeroedPfn(x, y, {p}, "PageTable", 1)
      BY <3>1, ZeroPfnOne
    <3> QED
      BY <3>2 DEF ZeroedPfn
  <2> HIDE DEF y
  <2> DEFINE pde == [y.pde EXCEPT ![d] = None]
  <2>4. w = [y EXCEPT !.pde = pde] /\ pde \in [Pdes -> Pages \cup {None}] /\ y.pde = m.pde
    BY <1>1, <2>2, <2>3 DEF VMs, SameMaps
  <2> HIDE DEF pde
  <2>5. /\ w \in VMs /\ w.pde = pde /\ w.pte = y.pte /\ w.ended = y.ended
        /\ SameFree(y, w) /\ SameFrames(y, w) /\ SameAreas(y, w) /\ w.starved = y.starved
    BY <2>3, <2>4 DEF VMs, SameFree, SameFrames, SameAreas
  <2> HIDE DEF w
  <2>6. SameOutside(m, w) /\ w.free = x.free /\ w.available = x.available
    BY <2>2, <2>3, <2>5 DEF SameOutside, SameMaps, SameAreas, SameFree
  <2>7. FreeOK(w) /\ FreePages(w.free) = FreePages(m.free) \cup {p}
    BY <2>0, <2>2, <2>6 DEF FreeOK
  <2>8. w.pde = [m.pde EXCEPT ![d] = None]
    BY <2>4, <2>5 DEF pde
  <2>9. w.pde[d] = None /\ \A e \in Pdes \ {d} : w.pde[e] = m.pde[e]
    BY <1>1, <2>8
  <2>10. /\ w.type = [q \in Pages |-> IF q \in {p} THEN "Unknown" ELSE m.type[q]]
         /\ w.used = [q \in Pages |-> IF q \in {p} THEN 0 ELSE m.used[q]]
         /\ w.usage = [m.usage EXCEPT !["PageTable"] = @ - 1]
         /\ w.pte = m.pte
    BY <2>2, <2>3, <2>5 DEF SameFrames, SameMaps
  <2>11. \A e \in Pdes \ {d} : m.pde[e] # p
    BY <1>1 DEF Owners, p
  <2>12. Owners(w, {})
    <3>1. \A q \in Pages : w.type[q] = "Unknown" <=> q \in FreePages(w.free) \cup {}
      BY <1>1, <2>7, <2>10 DEF Owners
    <3>2. \A v \in Virtual : w.pte[v] \in Pages => w.type[w.pte[v]] = TypeAt(v)
      <4> SUFFICES ASSUME NEW v \in Virtual, m.pte[v] \in Pages PROVE w.type[m.pte[v]] = TypeAt(v)
        BY <2>10
      <4>1. m.type[m.pte[v]] = TypeAt(v) /\ TypeAt(v) # "PageTable"
        BY <1>1 DEF Owners, TypeAt
      <4> QED
        BY <1>1, <2>10, <4>1
    <3>3. \A v, z \in Virtual : w.pte[v] \in Pages /\ w.pte[v] = w.pte[z] => v = z
      BY <1>1, <2>10 DEF Owners
    <3>4. \A e \in Pdes : w.pde[e] # None => w.type[w.pde[e]] = "PageTable"
      <4> SUFFICES ASSUME NEW e \in Pdes, w.pde[e] # None PROVE w.type[w.pde[e]] = "PageTable"
        OBVIOUS
      <4>1. e # d /\ w.pde[e] = m.pde[e] /\ m.pde[e] # p /\ m.pde[e] \in Pages
        BY <1>1, <2>9, <2>11
      <4> QED
        BY <1>1, <2>10, <4>1 DEF Owners
    <3>5. \A e, f \in Pdes : w.pde[e] # None /\ w.pde[e] = w.pde[f] => e = f
      BY <1>1, <2>9 DEF Owners
    <3>6. \A q \in Pages : w.type[q] = "PageTable" => \E e \in Pdes : w.pde[e] = q
      <4> SUFFICES ASSUME NEW q \in Pages, w.type[q] = "PageTable" PROVE \E e \in Pdes : w.pde[e] = q
        OBVIOUS
      <4>1. q # p /\ m.type[q] = "PageTable"
        BY <2>10
      <4>2. PICK e \in Pdes : m.pde[e] = q
        BY <1>1, <4>1 DEF Owners
      <4>3. e # d
        BY <4>1, <4>2 DEF p
      <4> QED
        BY <2>9, <4>2, <4>3
    <3>7. \A q \in Pages : w.type[q] \notin {"Unknown", "PageTable"} => \E v \in Virtual : w.pte[v] = q
      <4> SUFFICES ASSUME NEW q \in Pages, w.type[q] \notin {"Unknown", "PageTable"}
                   PROVE  \E v \in Virtual : w.pte[v] = q
        OBVIOUS
      <4>1. m.type[q] \notin {"Unknown", "PageTable"}
        BY <2>10
      <4> QED
        BY <1>1, <2>10, <4>1 DEF Owners
    <3> QED
      BY <3>1, <3>2, <3>3, <3>4, <3>5, <3>6, <3>7 DEF Owners
  <2>13. UsageOK(w)
    <3>1. {p} \in SUBSET Pages /\ Cardinality({p}) = 1 /\ "PageTable" \in Types \ {"Unknown"}
          /\ \A q \in {p} : m.type[q] = "PageTable"
      BY <1>1, FS_Singleton DEF Types
    <3> QED
      BY <1>1, <2>10, <3>1, UsageLoses
  <2>14. CountsOK(w, G)
    <3>1. CountedPtes(m, G, d) = {}
      <4>1. CountedPtes(m, G, d) \subseteq Virtual /\ Cardinality(CountedPtes(m, G, d)) <= 0
        BY <1>1, <1>3 DEF CountsOK, CountedPtes, p
      <4>2. IsFiniteSet(CountedPtes(m, G, d))
        BY <4>1, VirtualIs, FS_Subset
      <4>3. Cardinality(CountedPtes(m, G, d)) = 0
        BY <4>1, <4>2, FS_CardinalityType
      <4> QED
        BY <4>2, <4>3, FS_EmptySet
    <3>2. \A v \in Virtual : w.pte[v] # None \/ v \in G => w.pde[Pde(v)] # None
      <4> SUFFICES ASSUME NEW v \in Virtual, m.pte[v] # None \/ v \in G PROVE w.pde[Pde(v)] # None
        BY <2>10
      <4>1. Pde(v) \in Pdes /\ Pde(v) # d
        BY <3>1 DEF CountedPtes, Pdes
      <4> QED
        BY <1>1, <2>9, <4>1 DEF CountsOK
    <3>3. \A q \in Pages : w.type[q] # "PageTable" => w.used[q] = 0
      BY <1>1, <2>10 DEF CountsOK
    <3>4. ASSUME NEW e \in Pdes, w.pde[e] # None
          PROVE  /\ Cardinality(CountedPtes(w, G, e)) <= w.used[w.pde[e]]
                 /\ w.used[w.pde[e]] <= UsedPtes(w, e) + MaxLeaks
      <4>1. e # d /\ w.pde[e] = m.pde[e] /\ m.pde[e] # p /\ m.pde[e] \in Pages /\ m.pde[e] # None
        BY <1>1, <2>9, <2>11, <3>4
      <4>2. w.used[w.pde[e]] = m.used[m.pde[e]]
        BY <2>10, <4>1
      <4>3. CountedPtes(w, G, e) = CountedPtes(m, G, e) /\ UsedPtes(w, e) = UsedPtes(m, e)
        BY <2>10 DEF CountedPtes, UsedPtes
      <4> QED
        BY <1>1, <4>1, <4>2, <4>3 DEF CountsOK
    <3> QED
      BY <3>2, <3>3, <3>4 DEF CountsOK
  <2> QED
    BY <2>1, <2>5, <2>6, <2>7, <2>9, <2>12, <2>13, <2>14 DEF PagesOK
<1> QED
  BY <1>2, <1>3

(* DeallocatePT, for a range whose pages all have a page table. *)
LEMMA DeallocatePTIs ==
    ASSUME NEW m \in VMs, FreeOK(m), NEW G, PagesOK(m, {}, G),
           NEW v \in Nat, NEW n \in Nat \ {0}, v..v + n - 1 \subseteq Virtual,
           \A u \in v..v + n - 1 : m.pde[Pde(u)] # None
    PROVE  LET w == DeallocatePT(m, v, n)
           IN  w \in VMs /\ FreeOK(w) /\ PagesOK(w, {}, G) /\ SameOutside(m, w)
<1> DEFINE a == Pde(v)
           b == Pde(v + n - 1)
<1>0. /\ a \in Nat /\ b \in Nat /\ a <= b
      /\ \A d \in a..b : d \in Pdes /\ \E u \in v..v + n - 1 : Pde(u) = d
  BY PdeRange
<1> HIDE DEF a, b
<1>1. /\ \A d \in a..b : d \in Pdes /\ m.pde[d] # None
      /\ a \in Int /\ b \in Int /\ a - 1 \in Int /\ a - 1 <= b /\ b \in a - 1..b
  BY <1>0
<1>2. PICK g : /\ DeallocatePT(m, v, n) = g[b]
               /\ g[a - 1] = m
               /\ \A i \in a..b : g[i] = FreeTable(g[i - 1], i)
  BY <1>1, DeallocatePTLoop DEF a, b
<1> DEFINE Good(w, i) == /\ w \in VMs /\ FreeOK(w) /\ PagesOK(w, {}, G) /\ SameOutside(m, w)
                         /\ \A e \in i + 1..b : w.pde[e] = m.pde[e]
           T == {i \in a - 1..b : Good(g[i], i)}
<1>3. a - 1 \in T
  <2>1. Good(m, a - 1)
    BY DEF SameOutside, SameAreas
  <2> HIDE DEF Good
  <2> QED
    BY <1>1, <1>2, <2>1
<1>4. ASSUME NEW i \in (a - 1) + 1..b, i - 1 \in T PROVE i \in T
  <2> DEFINE x == g[i - 1]
             w == g[i]
  <2>1. i \in a..b /\ i \in a - 1..b /\ i \in (i - 1) + 1..b /\ \A e \in i + 1..b : e \in (i - 1) + 1..b /\ e # i
    BY <1>0
  <2>2. w = FreeTable(x, i) /\ i \in Pdes /\ m.pde[i] # None
    BY <1>1, <1>2, <2>1
  <2>3. Good(x, i - 1)
    BY <1>4
  <2> HIDE DEF x, w
  <2>4. x.pde[i] # None
    BY <2>1, <2>2, <2>3
  <2>5. /\ w \in VMs /\ FreeOK(w) /\ PagesOK(w, {}, G) /\ SameOutside(x, w)
        /\ \A e \in Pdes \ {i} : w.pde[e] = x.pde[e]
    BY <2>2, <2>3, <2>4, FreeTableIs
  <2>6. \A e \in i + 1..b : w.pde[e] = m.pde[e]
    <3> TAKE e \in i + 1..b
    <3>1. e \in a..b /\ e # i /\ e \in (i - 1) + 1..b
      BY <1>0, <2>1
    <3> QED
      BY <1>1, <2>3, <2>5, <3>1
  <2>7. Good(w, i)
    BY <2>3, <2>5, <2>6 DEF SameOutside, SameAreas
  <2> HIDE DEF Good
  <2> QED
    BY <2>1, <2>7 DEF w
<1>5. b \in T
  <2> HIDE DEF T
  <2> QED
    BY <1>1, <1>3, <1>4, StepByStep
<1> QED
  BY <1>2, <1>5

(* Pages have been given to the virtual pages in Z, whose ptes were zero; G are the guard    *)
(* pages, which are not among them.                                                         *)
Committed(m, w, Z, G) ==
    /\ w \in VMs /\ FreeOK(w) /\ w.pde = m.pde /\ w.ended = m.ended /\ SameAreas(m, w)
    /\ \A u \in Virtual \ Z : w.pte[u] = m.pte[u]
    /\ \A u \in Z : w.pte[u] \in Pages
    /\ m.starved => w.starved
    /\ w.available >= m.available - Cardinality(Z)
    /\ w.starved => m.starved \/ m.available < Cardinality(Z)
    /\ PagesOK(m, {}, G) /\ ~w.starved => PagesOK(w, {}, G)

(* A zero page number stays zero in PtesUsed's arithmetic. *)
LEMMA ZeroMod == 0 % PtesUsedWidth = 0 /\ (0 + 0) % PtesUsedWidth = 0 /\ (0 - 0) % PtesUsedWidth = 0
<1>1. PtesUsedWidth \in Nat \ {0}
  BY Constants
<1> QED
  BY <1>1

(* One physical page is taken and mapped at a virtual page. *)
LEMMA CommitPageBound ==
    ASSUME NEW x \in VMs, NEW G, NEW p \in Pages, PagesOK(x, {p}, G), NEW v \in Virtual \ G,
           x.pte[v] = None, x.pde[Pde(v)] # None,
           NEW type, type = TypeAt(v), v <= SystemLast
    PROVE  LET w == WritePte(WritePfn(x, p, p, type), v, v, p) IN PagesOK(w, {}, G)
<1> DEFINE y == WritePfn(x, p, p, type)
           w == WritePte(y, v, v, p)
           vs == {u \in v..v : y.pte[u] = None}
<1>0. /\ v \in Nat /\ v..v = {v} /\ p \in Nat /\ type \in Types /\ type # "Unknown"
      /\ type \in {"Virtual", "System", "Contiguous"} /\ p <= HighestPage /\ HighestPage \in Nat
      /\ Device = HighestPage + 1 /\ None \notin Pages /\ p # None
  BY VirtualIs, Constants DEF Pages, Types, Device, None, TypeAt
<1>1. Owners(x, {p}) /\ UsageOK(x) /\ CountsOK(x, G)
  BY DEF PagesOK
<1>2. /\ y \in VMs
      /\ y.type = [q \in Pages |-> IF q \in {p} THEN type ELSE x.type[q]]
      /\ y.used = [q \in Pages |-> IF q \in {p} THEN 0 ELSE x.used[q]]
      /\ y.usage = [x.usage EXCEPT ![type] = @ + 1]
      /\ SameFree(x, y) /\ SameMaps(x, y) /\ SameAreas(x, y) /\ y.starved = x.starved
  <2> HIDE DEF w, vs
  <2>1. x \in VMs /\ p \in Pages /\ type \in Types
    BY <1>0
  <2>2. WrotePfn(x, y, {p}, type, 1)
    BY <2>1, WritePfnOne
  <2> QED
    BY <2>2 DEF WrotePfn
<1> HIDE DEF y
<1>3. /\ w \in VMs
      /\ w.pte = [u \in Virtual |-> IF u \in vs THEN Min({p + u - v, Device}) ELSE y.pte[u]]
      /\ w.used = [q \in Pages |-> (y.used[q] + CountPtes(y, vs, q)) % PtesUsedWidth]
      /\ w.pde = y.pde /\ w.ended = y.ended /\ w.type = y.type /\ w.usage = y.usage
      /\ SameFree(y, w) /\ SameAreas(y, w) /\ w.starved = y.starved
  <2>1. v \in Int /\ y \in VMs /\ p \in Nat
    BY <1>0, <1>2
  <2>2. WrotePte(y, w, v, v, p)
    BY <2>1, WritePteIs
  <2> HIDE DEF w
  <2> QED
    BY <2>2 DEF WrotePte
<1>4. vs = {v}
  BY <1>0, <1>2 DEF SameMaps
<1> HIDE DEF w, vs
<1>5. w.pte[v] = p
  <2>1. w.pte[v] = Min({p + v - v, Device})
    BY <1>3, <1>4
  <2>2. p + v - v = p /\ Device \in Int /\ p \in Int /\ p <= Device
    BY <1>0
  <2>3. Min({p, Device}) = p
    BY <2>2, MaxMin
  <2> QED
    BY <2>1, <2>2, <2>3
<1>6. /\ \A u \in Virtual \ {v} : w.pte[u] = x.pte[u]
      /\ w.type = [q \in Pages |-> IF q \in {p} THEN type ELSE x.type[q]]
      /\ w.usage = [x.usage EXCEPT ![type] = @ + 1]
      /\ w.pde = x.pde /\ w.free = x.free
  BY <1>2, <1>3, <1>4 DEF SameMaps, SameFree
<1>7. \A q \in Pages : w.used[q] = (y.used[q] + CountPtes(x, {v}, q)) % PtesUsedWidth
  <2>1. \A q \in Pages : CountPtes(y, {v}, q) = CountPtes(x, {v}, q)
    BY <1>2 DEF CountPtes, GetPfnOfPT, SameMaps
  <2> QED
    BY <1>3, <1>4, <2>1
<1>8. x.type[p] = "Unknown"
  BY <1>1 DEF Owners
<1>9. \A q \in Pages : x.type[q] # "PageTable" => x.used[q] = 0 /\ CountPtes(x, {v}, q) = 0
  <2>1. {v} \in SUBSET Virtual /\ \A u \in {v} : x.pde[Pde(u)] # None
    OBVIOUS
  <2>2. \A q \in Pages : x.type[q] # "PageTable" => CountPtes(x, {v}, q) = 0
    BY <1>1, <2>1, CountPtesAt
  <2> QED
    BY <1>1, <2>2 DEF CountsOK
<1>10. \A q \in Pages : w.used[q] = IF x.type[q] = "PageTable"
                                     THEN (x.used[q] + CountPtes(x, {v}, q)) % PtesUsedWidth ELSE 0
  <2> TAKE q \in Pages
  <2>1. CASE x.type[q] = "PageTable"
    <3>1. y.used[q] = x.used[q]
      BY <1>2, <1>8, <2>1
    <3> QED
      BY <1>7, <2>1, <3>1
  <2>2. CASE x.type[q] # "PageTable"
    <3>1. y.used[q] = 0 /\ CountPtes(x, {v}, q) = 0
      BY <1>2, <1>9, <2>2
    <3>2. w.used[q] = (0 + 0) % PtesUsedWidth
      BY <1>7, <3>1
    <3> QED
      BY <2>2, <3>2, ZeroMod
  <2> QED
    BY <2>1, <2>2
<1>11. Bound(x, w, {v}, {p}, type)
  BY <1>0, <1>5, <1>6, <1>10 DEF Bound
<1>12. Owners(w, {p} \ {p}) /\ CountsOK(w, G)
  <2> DEFINE R == {v}
             P == {p}
  <2>1. /\ x \in VMs /\ w \in VMs /\ Owners(x, P) /\ CountsOK(x, G) /\ R \cap G = {} /\ P \in SUBSET P
        /\ type \in {"Virtual", "System", "Contiguous"} /\ Bound(x, w, R, P, type)
    BY <1>0, <1>1, <1>3, <1>11
  <2> HIDE DEF R, P
  <2>2. Owners(w, P \ P)
    BY ONLY <2>1, OwnersBound
  <2>3. CountsOK(w, G)
    BY ONLY <2>1, CountsBound
  <2> QED
    BY <2>2, <2>3 DEF P
<1>13. UsageOK(w)
  <2>1. {p} \in SUBSET Pages /\ 1 = Cardinality({p}) /\ 1 \in Int /\ type \in Types \ {"Unknown"}
        /\ \A q \in {p} : x.type[q] = "Unknown"
    BY <1>0, <1>8, FS_Singleton, Cardinality({p}) = 1
  <2> QED
    BY <1>1, <1>6, <2>1, UsageGains
<1>14. {p} \ {p} = {}
  OBVIOUS
<1> QED
  BY <1>12, <1>13, <1>14 DEF PagesOK, w, y

(* One page of a commit. *)
LEMMA CommitPageIs ==
    ASSUME NEW m \in VMs, FreeOK(m), NEW G, NEW v \in Virtual \ G, m.pte[v] = None, m.pde[Pde(v)] # None,
           NEW type, type = TypeAt(v), v <= SystemLast
    PROVE  Committed(m, CommitPage(m, v, type), {v}, G)
<1> DEFINE t == TakePage(m, HighestPage)
           x == t.vm
           p == t.pfn
           y == WritePfn(x, p, p, type)
           w == WritePte(y, v, v, p)
           vs == {u \in v..v : y.pte[u] = None}
<1>0. /\ v \in Int /\ v..v = {v} /\ type \in Types /\ HighestPage \in Pages /\ None \notin Pages
      /\ Cardinality({v}) = 1 /\ Pages \subseteq Nat /\ Device = HighestPage + 1 /\ HighestPage \in Nat
      /\ \A q \in Pages : q <= HighestPage
  <2>1. HighestPage \in Nat /\ v \in Nat /\ Cardinality({v}) = 1
    BY VirtualIs, Constants, FS_Singleton
  <2>2. v \in Int /\ v..v = {v}
    BY <2>1
  <2>3. type \in Types
    BY DEF Types, TypeAt
  <2>4. /\ HighestPage \in Pages /\ None \notin Pages /\ Pages \subseteq Nat
        /\ \A q \in Pages : q <= HighestPage
    BY <2>1 DEF Pages, None
  <2> QED
    BY <2>1, <2>2, <2>3, <2>4 DEF Device
<1>1. /\ x \in VMs /\ FreeOK(x) /\ p \in Pages
      /\ SameFrames(m, x) /\ SameMaps(m, x) /\ SameAreas(m, x)
      /\ \/ /\ x.starved = m.starved /\ p \in FreePages(m.free)
            /\ FreePages(x.free) = FreePages(m.free) \ {p}
            /\ x.available = m.available - 1
         \/ x.starved /\ x.free = m.free /\ x.available = m.available /\ m.available = 0
  BY <1>0, TakePageIs
<1>2. CommitPage(m, v, type) = w
  BY DEF CommitPage
<1> HIDE DEF x, p, t
<1>3. y \in VMs /\ SameFree(x, y) /\ SameMaps(x, y) /\ SameAreas(x, y) /\ y.starved = x.starved
  <2>1. WrotePfn(x, y, {p}, type, 1)
    BY <1>0, <1>1, WritePfnOne
  <2> QED
    BY <2>1 DEF WrotePfn
<1> HIDE DEF y
<1>4. /\ w \in VMs
      /\ w.pte = [u \in Virtual |-> IF u \in vs THEN Min({p + u - v, Device}) ELSE y.pte[u]]
      /\ w.used = [q \in Pages |-> (y.used[q] + CountPtes(y, vs, q)) % PtesUsedWidth]
      /\ w.pde = y.pde /\ w.ended = y.ended /\ w.type = y.type /\ w.usage = y.usage
      /\ SameFree(y, w) /\ SameAreas(y, w) /\ w.starved = y.starved
  <2>1. p \in Nat /\ v \in Int /\ y \in VMs
    BY <1>0, <1>1, <1>3
  <2>2. WrotePte(y, w, v, v, p)
    BY <2>1, WritePteIs
  <2> HIDE DEF w
  <2> QED
    BY <2>2 DEF WrotePte
<1>5. vs = {v}
  BY <1>0, <1>1, <1>3 DEF SameMaps
<1> HIDE DEF vs, w
<1>6. w.pte[v] = p
  <2>1. w.pte[v] = Min({p + v - v, Device})
    BY <1>4, <1>5
  <2>2. p + v - v = p /\ Device \in Int /\ p \in Int /\ p <= Device
    <3>1. p \in Nat /\ p <= HighestPage /\ HighestPage \in Nat /\ v \in Int /\ Device = HighestPage + 1
      BY <1>0, <1>1
    <3> QED
      BY <3>1
  <2>3. Min({p, Device}) = p
    BY <2>2, MaxMin
  <2> QED
    BY <2>1, <2>2, <2>3
<1>7. /\ \A u \in Virtual \ {v} : w.pte[u] = m.pte[u]
      /\ w.pde = m.pde /\ w.ended = m.ended /\ SameAreas(m, w)
      /\ w.free = x.free /\ w.available = x.available /\ w.starved = x.starved
  BY <1>1, <1>3, <1>4, <1>5 DEF SameMaps, SameFree, SameAreas
<1>8. FreeOK(w)
  BY <1>1, <1>7 DEF FreeOK
<1>9. m.available \in Int /\ m.starved \in BOOLEAN
  BY DEF VMs
<1>10. m.starved => w.starved
  BY <1>1, <1>7
<1>11. w.available >= m.available - 1 /\ (w.starved => m.starved \/ m.available < 1)
  BY <1>1, <1>7, <1>9
<1>12. ASSUME PagesOK(m, {}, G), ~w.starved PROVE PagesOK(w, {}, G)
  <2>1. p \in FreePages(m.free) /\ FreePages(x.free) = FreePages(m.free) \ {p}
    BY <1>1, <1>7, <1>12
  <2>2. PagesOK(x, {p}, G)
    <3>1. {p} \in SUBSET Pages /\ {p} \cap FreePages(x.free) = {} /\ SameFrames(m, x)
          /\ FreePages(x.free) \cup {p} = FreePages(m.free) \cup {} /\ x.pde = m.pde /\ x.pte = m.pte
      BY <1>1, <2>1 DEF SameMaps
    <3> QED
      BY <1>12, <3>1, PagesMove
  <2>3. x.pte[v] = None /\ x.pde[Pde(v)] # None
    BY <1>1 DEF SameMaps
  <2>4. PagesOK(WritePte(WritePfn(x, p, p, type), v, v, p), {}, G)
    BY <1>1, <2>2, <2>3, CommitPageBound
  <2> QED
    BY <2>4 DEF w, y
<1> QED
  BY <1>0, <1>1, <1>2, <1>4, <1>6, <1>7, <1>8, <1>10, <1>11, <1>12 DEF Committed

(* Commits one after the other. *)
LEMMA CommitTwice ==
    ASSUME NEW m \in VMs, NEW x, NEW w, NEW Y \in SUBSET Virtual, NEW Z \in SUBSET Virtual, Y \cap Z = {}, NEW G,
           Committed(m, x, Y, G), Committed(x, w, Z, G)
    PROVE  Committed(m, w, Y \cup Z, G)
<1>1. /\ Cardinality(Y) \in Nat /\ Cardinality(Z) \in Nat
      /\ Cardinality(Y \cup Z) = Cardinality(Y) + Cardinality(Z)
  <2>1. IsFiniteSet(Y) /\ IsFiniteSet(Z)
    BY VirtualIs, FS_Subset
  <2> QED
    BY <2>1, CountJoin
<1>2. m.available \in Int /\ x.available \in Int /\ w.available \in Int
  BY DEF Committed, VMs
<1>3. /\ w \in VMs /\ FreeOK(w) /\ w.pde = m.pde /\ w.ended = m.ended /\ SameAreas(m, w)
      /\ m.starved => w.starved
      /\ PagesOK(m, {}, G) /\ ~w.starved => PagesOK(w, {}, G)
  BY DEF Committed, SameAreas
<1>4. /\ \A u \in Virtual \ (Y \cup Z) : w.pte[u] = m.pte[u]
      /\ \A u \in Y \cup Z : w.pte[u] \in Pages
  <2>1. \A u \in Y : u \in Virtual \ Z
    OBVIOUS
  <2> QED
    BY <2>1 DEF Committed
<1>5. w.available >= m.available - Cardinality(Y \cup Z)
  <2>1. x.available >= m.available - Cardinality(Y) /\ w.available >= x.available - Cardinality(Z)
    BY DEF Committed
  <2> QED
    BY <1>1, <1>2, <2>1
<1>6. ASSUME w.starved PROVE m.starved \/ m.available < Cardinality(Y \cup Z)
  <2>1. x.available >= m.available - Cardinality(Y) /\ (x.starved \/ x.available < Cardinality(Z))
        /\ (x.starved => m.starved \/ m.available < Cardinality(Y))
    BY <1>6 DEF Committed
  <2> QED
    BY <1>1, <1>2, <2>1
<1> QED
  BY <1>3, <1>4, <1>5, <1>6 DEF Committed

(* The loop of AllocateSystemMemory over the pages of a new area. *)
LEMMA CommitSystemPagesIs ==
    ASSUME NEW m \in VMs, FreeOK(m), NEW G, NEW first \in Nat, NEW last \in Nat, first <= last,
           \A u \in first..last : /\ u \in Virtual \ G /\ UserLast < u /\ u <= SystemLast
                                  /\ m.pte[u] = None /\ m.pde[Pde(u)] # None
    PROVE  Committed(m, CommitSystemPages(m, first, last), first..last, G)
<1>0. first \in Int /\ last \in Int /\ first - 1 <= last /\ first - 1 \in Int /\ last \in first - 1..last
  OBVIOUS
<1>1. PICK g : /\ CommitSystemPages(m, first, last) = g[last]
               /\ g[first - 1] = m
               /\ \A i \in first..last : g[i] = CommitSystemPage(g[i - 1], i)
  BY <1>0, CommitSystemPagesLoop
<1> DEFINE T == {i \in first - 1..last : Committed(m, g[i], first..i, G)}
<1>2. first - 1 \in T
  <2>1. first..first - 1 = {} /\ Cardinality({}) = 0 /\ m.available \in Int /\ m.available - 0 = m.available
    BY FS_EmptySet DEF VMs
  <2>2. Committed(m, m, {}, G)
    BY <2>1 DEF Committed, SameAreas
  <2> QED
    BY <1>0, <1>1, <2>1, <2>2
<1>3. ASSUME NEW i \in (first - 1) + 1..last, i - 1 \in T PROVE i \in T
  <2> DEFINE x == g[i - 1]
             w == g[i]
  <2>1. /\ i \in first..last /\ i \in first - 1..last
        /\ first..i = first..(i - 1) \cup {i} /\ first..(i - 1) \cap {i} = {}
        /\ first..(i - 1) \subseteq first..last
    OBVIOUS
  <2>2. w = CommitSystemPage(x, i)
    BY <1>1, <2>1
  <2>3. Committed(m, x, first..(i - 1), G)
    BY <1>3
  <2> HIDE DEF x, w
  <2>4. /\ i \in Virtual \ G /\ UserLast < i /\ i <= SystemLast /\ i \notin first..(i - 1)
        /\ m.pte[i] = None /\ m.pde[Pde(i)] # None
    BY <2>1
  <2>5. x \in VMs /\ FreeOK(x) /\ x.pte[i] = None /\ x.pde[Pde(i)] # None
    BY <2>3, <2>4 DEF Committed
  <2>6. "System" = TypeAt(i)
    BY <2>4, VirtualIs, Constants DEF TypeAt
  <2>7. Committed(x, CommitPage(x, i, "System"), {i}, G)
    BY <2>4, <2>5, <2>6, CommitPageIs
  <2>8. Committed(x, w, {i}, G)
    BY <2>2, <2>7 DEF CommitSystemPage
  <2>9. first..(i - 1) \in SUBSET Virtual /\ {i} \in SUBSET Virtual
    BY <2>1, <2>4
  <2>10. Committed(m, w, first..(i - 1) \cup {i}, G)
    BY <2>1, <2>3, <2>8, <2>9, CommitTwice
  <2> QED
    BY <2>1, <2>10 DEF w
<1>4. last \in T
  <2> HIDE DEF T
  <2> QED
    BY <1>0, <1>2, <1>3, StepByStep
<1> QED
  BY <1>1, <1>4

(* The pages of a range that a commit has to provide. *)
ZeroIn(m, first, last) == {u \in first..last : m.pte[u] = None}

(* The loop of XbAllocateVirtualMemory over the pages of a range. *)
LEMMA CommitVirtualPagesIs ==
    ASSUME NEW m \in VMs, FreeOK(m), NEW G, NEW first \in Nat, NEW last \in Nat, first <= last,
           \A u \in first..last : u \in Virtual \ G /\ u <= UserLast /\ m.pde[Pde(u)] # None
    PROVE  Committed(m, CommitVirtualPages(m, first, last), ZeroIn(m, first, last), G)
<1>0. first \in Int /\ last \in Int /\ first - 1 <= last /\ first - 1 \in Int /\ last \in first - 1..last
  OBVIOUS
<1>1. PICK g : /\ CommitVirtualPages(m, first, last) = g[last]
               /\ g[first - 1] = m
               /\ \A i \in first..last : g[i] = CommitVirtualPage(g[i - 1], i)
  BY <1>0, CommitVirtualPagesLoop
<1> DEFINE T == {i \in first - 1..last : Committed(m, g[i], ZeroIn(m, first, i), G)}
<1>2. first - 1 \in T
  <2>1. first..first - 1 = {} /\ Cardinality({}) = 0 /\ m.available \in Int /\ m.available - 0 = m.available
    BY FS_EmptySet DEF VMs
  <2>2. Committed(m, m, {}, G)
    BY <2>1 DEF Committed, SameAreas
  <2>3. ZeroIn(m, first, first - 1) = {}
    BY <2>1 DEF ZeroIn
  <2> QED
    BY <1>0, <1>1, <2>2, <2>3
<1>3. ASSUME NEW i \in (first - 1) + 1..last, i - 1 \in T PROVE i \in T
  <2> DEFINE x == g[i - 1]
             w == g[i]
             Y == ZeroIn(m, first, i - 1)
  <2>1. /\ i \in first..last /\ i \in first - 1..last
        /\ first..i = first..(i - 1) \cup {i} /\ i \notin first..(i - 1)
        /\ first..(i - 1) \subseteq first..last
    OBVIOUS
  <2>2. w = CommitVirtualPage(x, i)
    BY <1>1, <2>1
  <2>3. Committed(m, x, Y, G)
    BY <1>3
  <2>4. Y \in SUBSET Virtual /\ i \notin Y
    BY <2>1 DEF ZeroIn
  <2>5. ZeroIn(m, first, i) = IF m.pte[i] = None THEN Y \cup {i} ELSE Y
    BY <2>1 DEF ZeroIn
  <2> HIDE DEF x, w, Y
  <2>6. i \in Virtual \ G /\ i <= UserLast /\ m.pde[Pde(i)] # None
    BY <2>1
  <2>7. x \in VMs /\ FreeOK(x) /\ x.pte[i] = m.pte[i] /\ x.pde[Pde(i)] # None
    BY <2>3, <2>4, <2>6 DEF Committed
  <2>8. Committed(m, w, ZeroIn(m, first, i), G)
    <3>1. CASE m.pte[i] # None
      <4>1. w = x
        BY <2>2, <2>7, <3>1 DEF CommitVirtualPage
      <4> QED
        BY <2>3, <2>5, <3>1, <4>1
    <3>2. CASE m.pte[i] = None
      <4>1. "Virtual" = TypeAt(i) /\ i <= SystemLast
        BY <2>6, VirtualIs, Constants DEF TypeAt
      <4>2. Committed(x, CommitPage(x, i, "Virtual"), {i}, G)
        BY <2>6, <2>7, <3>2, <4>1, CommitPageIs
      <4>3. Committed(x, w, {i}, G)
        BY <2>2, <2>7, <3>2, <4>2 DEF CommitVirtualPage
      <4>4. {i} \in SUBSET Virtual /\ Y \cap {i} = {}
        BY <2>4, <2>6
      <4>5. Committed(m, w, Y \cup {i}, G)
        BY <2>3, <2>4, <4>3, <4>4, CommitTwice
      <4> QED
        BY <2>5, <3>2, <4>5
    <3> QED
      BY <3>1, <3>2
  <2> QED
    BY <2>1, <2>8 DEF w
<1>4. last \in T
  <2> HIDE DEF T
  <2> QED
    BY <1>0, <1>2, <1>3, StepByStep
<1> QED
  BY <1>1, <1>4

(* The guard page of a system area: its pte stays zero and PtesUsed counts it. *)
LEMMA CountGuardIs ==
    ASSUME NEW m \in VMs, NEW G, NEW v \in Virtual \ G, m.pte[v] = None, m.pde[Pde(v)] # None
    PROVE  LET w == CountGuard(m, v)
           IN  /\ w \in VMs /\ SameFree(m, w) /\ SameMaps(m, w) /\ SameAreas(m, w)
               /\ w.starved = m.starved
               /\ PagesOK(m, {}, G) /\ LeakedPtes(m, Pde(v)) < MaxLeaks => PagesOK(w, {}, G \cup {v})
<1> DEFINE d == Pde(v)
           p == m.pde[d]
           used == [m.used EXCEPT ![p] = (@ + 1) % PtesUsedWidth]
           w == CountGuard(m, v)
<1>1. d \in Pdes /\ p \in Pages /\ p # None
  BY DEF Pdes, VMs
<1>2. m.used \in [Pages -> 0..PtesUsedWidth - 1] /\ m.used[p] \in 0..PtesUsedWidth - 1
  BY <1>1 DEF VMs
<1> HIDE DEF p
<1>3. (m.used[p] + 1) % PtesUsedWidth \in 0..PtesUsedWidth - 1
  BY <1>2, Constants
<1>4. used \in [Pages -> 0..PtesUsedWidth - 1]
  BY <1>2, <1>3
<1>5. w = [m EXCEPT !.used = used]
  BY <1>1 DEF CountGuard, GetPfnOfPT, p
<1>6. w.used = used
  BY <1>5 DEF VMs
<1> HIDE DEF used, w
<1>7. /\ w \in VMs /\ SameFree(m, w) /\ SameMaps(m, w) /\ SameAreas(m, w) /\ w.starved = m.starved
      /\ w.type = m.type /\ w.usage = m.usage
  BY <1>4, <1>5 DEF VMs, SameFree, SameMaps, SameAreas
<1>8. ASSUME PagesOK(m, {}, G), LeakedPtes(m, d) < MaxLeaks PROVE PagesOK(w, {}, G \cup {v})
  <2>1. Owners(m, {}) /\ UsageOK(m) /\ CountsOK(m, G)
    BY <1>8 DEF PagesOK
  <2>2. Owners(w, {}) /\ UsageOK(w)
    BY <2>1, <1>7 DEF Owners, UsageOK, OfType, SameFree, SameMaps
  <2> DEFINE k == UsedPtes(m, d)
             c == Cardinality(CountedPtes(m, G, d))
             n == m.used[p]
  <2>3. k \in 0..PtesPerTable /\ c \in Nat
    <3>1. {u \in Virtual : Pde(u) = d /\ m.pte[u] # None} \in SUBSET Virtual
          /\ CountedPtes(m, G, d) \in SUBSET Virtual
      BY DEF CountedPtes
    <3>2. k \in 0..PtesPerTable
      BY <1>1, <3>1, TableSize DEF UsedPtes
    <3>3. c \in 0..PtesPerTable
      <4>1. \A u \in CountedPtes(m, G, d) : Pde(u) = d
        BY DEF CountedPtes
      <4> QED
        BY <1>1, <3>1, <4>1, TableSize
    <3> QED
      BY <3>2, <3>3
  <2>4. n - k < MaxLeaks /\ c <= n
    BY <1>1, <1>8, <2>1 DEF LeakedPtes, CountsOK, p
  <2>5. m.type[p] = "PageTable" /\ \A e \in Pdes \ {d} : m.pde[e] # p
    BY <1>1, <2>1 DEF Owners, p
  <2> HIDE DEF k, c, n, d
  <2>6. n \in Nat /\ (n + 1) % PtesUsedWidth = n + 1 /\ n + 1 <= k + MaxLeaks
    <3>1. n \in Nat
      BY <1>2 DEF n
    <3>2. n + 1 <= k + MaxLeaks /\ n + 1 < PtesUsedWidth
      BY <2>3, <2>4, <3>1, Constants
    <3> QED
      BY <3>1, <3>2, Constants
  <2>7. w.used[p] = n + 1 /\ \A q \in Pages \ {p} : w.used[q] = m.used[q]
    BY <1>1, <1>2, <1>6, <2>6 DEF used, n
  <2>8. \A e \in Pdes : UsedPtes(w, e) = UsedPtes(m, e)
    BY <1>7 DEF UsedPtes, SameMaps
  <2>9. \A u \in Virtual : w.pte[u] # None \/ u \in G \cup {v} => w.pde[Pde(u)] # None
    BY <1>7, <2>1 DEF CountsOK, SameMaps
  <2>10. \A q \in Pages : w.type[q] # "PageTable" => w.used[q] = 0
    BY <1>7, <2>1, <2>5, <2>7 DEF CountsOK
  <2>11. ASSUME NEW e \in Pdes, w.pde[e] # None
         PROVE  /\ Cardinality(CountedPtes(w, G \cup {v}, e)) <= w.used[w.pde[e]]
                /\ w.used[w.pde[e]] <= UsedPtes(w, e) + MaxLeaks
    <3>1. CASE e = d
      <4>1. w.pde[e] = p
        BY <1>7, <3>1 DEF SameMaps, p
      <4>2. CountedPtes(w, G \cup {v}, d) = CountedPtes(m, G, d) \cup {v} /\ v \notin CountedPtes(m, G, d)
        BY <1>7 DEF CountedPtes, SameMaps, d
      <4>3. IsFiniteSet(CountedPtes(m, G, d))
        BY VirtualIs, FS_Subset, CountedPtes(m, G, d) \subseteq Virtual DEF CountedPtes
      <4>4. Cardinality(CountedPtes(w, G \cup {v}, d)) = c + 1
        BY <4>2, <4>3, FS_AddElement DEF c
      <4>5. UsedPtes(w, e) = k
        BY <2>8, <1>1, <3>1 DEF k
      <4> QED
        BY <2>3, <2>4, <2>6, <2>7, <3>1, <4>1, <4>4, <4>5
    <3>2. CASE e # d
      <4>1. w.pde[e] = m.pde[e] /\ m.pde[e] # p /\ m.pde[e] # None
        BY <1>7, <2>5, <2>11, <3>2 DEF SameMaps
      <4>2. m.pde[e] \in Pages
        BY <4>1 DEF VMs
      <4>3. CountedPtes(w, G \cup {v}, e) = CountedPtes(m, G, e)
        BY <1>7, <3>2 DEF CountedPtes, SameMaps, d
      <4> QED
        BY <2>1, <2>7, <2>8, <4>1, <4>2, <4>3 DEF CountsOK
    <3> QED
      BY <3>1, <3>2
  <2>12. CountsOK(w, G \cup {v})
    BY <2>9, <2>10, <2>11 DEF CountsOK
  <2> QED
    BY <2>2, <2>12 DEF PagesOK
<1> QED
  BY <1>7, <1>8 DEF w

(* The physical pages of a range. *)
MappedIn(m, first, last) == {p \in Pages : \E u \in first..last : m.pte[u] = p}

(* The pages P have been freed; the ptes that name them have not been zeroed yet. *)
FreedFrames(m, w, P) ==
    /\ w \in VMs /\ FreeOK(w) /\ UsageOK(w)
    /\ SameMaps(m, w) /\ SameAreas(m, w) /\ w.starved = m.starved
    /\ FreePages(w.free) = FreePages(m.free) \cup P
    /\ w.type = [p \in Pages |-> IF p \in P THEN "Unknown" ELSE m.type[p]]
    /\ \A p \in Pages : w.used[p] = m.used[p]

(* Nothing has been freed yet. *)
LEMMA FreedNone ==
    ASSUME NEW m \in VMs, FreeOK(m), NEW L, NEW G, PagesOK(m, L, G)
    PROVE  FreedFrames(m, m, {})
<1>1. m.type = [p \in Pages |-> m.type[p]]
  BY DEF VMs
<1>2. m.type = [p \in Pages |-> IF p \in {} THEN "Unknown" ELSE m.type[p]]
  BY <1>1
<1>3. UsageOK(m)
  BY DEF PagesOK
<1> QED
  BY <1>2, <1>3 DEF FreedFrames, SameMaps, SameAreas

(* A pte in use has a page of the type of its region, which is not free. *)
LEMMA MappedPage ==
    ASSUME NEW m \in VMs, NEW L, NEW G, PagesOK(m, L, G), NEW u \in Virtual, m.pte[u] \in Pages
    PROVE  /\ m.type[m.pte[u]] = TypeAt(u) /\ TypeAt(u) \in Types \ {"Unknown", "PageTable"}
           /\ m.pte[u] \notin FreePages(m.free) /\ m.used[m.pte[u]] = 0
<1>1. Owners(m, L) /\ CountsOK(m, G)
  BY DEF PagesOK
<1>2. m.type[m.pte[u]] = TypeAt(u)
  BY <1>1 DEF Owners
<1>3. TypeAt(u) \in Types \ {"Unknown", "PageTable"}
  BY DEF TypeAt, Types
<1> QED
  BY <1>1, <1>2, <1>3 DEF Owners, CountsOK

(* FreePage for a page of a range that is being freed. *)
LEMMA FreePageIs ==
    ASSUME NEW m \in VMs, NEW G, PagesOK(m, {}, G), NEW x, NEW P \in SUBSET Pages, FreedFrames(m, x, P),
           NEW u \in Virtual, m.pte[u] \in Pages \ P
    PROVE  FreedFrames(m, FreePage(x, u, TypeAt(u)), P \cup {m.pte[u]})
<1> DEFINE p == m.pte[u]
           type == TypeAt(u)
           y == Released(x, p, p)
           w == ZeroPfn(y, p, p, type)
<1>1. /\ p \in Pages /\ p \notin P /\ m.type[p] = type /\ type \in Types \ {"Unknown", "PageTable"}
      /\ p \notin FreePages(m.free) /\ m.used[p] = 0
  BY MappedPage
<1>2. x \in VMs /\ FreeOK(x) /\ x.pte[u] = p /\ p \notin FreePages(x.free) /\ x.type[p] = type
  BY <1>1 DEF FreedFrames, SameMaps
<1>3. FreePage(x, u, TypeAt(u)) = w
  BY <1>2 DEF FreePage
<1> HIDE DEF p, type
<1>4. p \in Int /\ p..p = {p} /\ p <= p /\ p..p \cap FreePages(x.free) = {}
  BY <1>1, <1>2, Constants DEF Pages
<1>5. /\ y \in VMs /\ FreeOK(y)
      /\ FreePages(y.free) = FreePages(x.free) \cup p..p
      /\ SameFrames(x, y) /\ SameMaps(x, y) /\ SameAreas(x, y) /\ y.starved = x.starved
  BY <1>1, <1>2, <1>4, ReleaseFree
<1> HIDE DEF y
<1>6. ZeroedPfn(y, w, {p}, type, 1)
  BY <1>1, <1>5, ZeroPfnOne
<1> HIDE DEF w
<1>7. /\ w \in VMs
      /\ w.type = [q \in Pages |-> IF q \in {p} THEN "Unknown" ELSE y.type[q]]
      /\ w.used = [q \in Pages |-> IF q \in {p} THEN 0 ELSE y.used[q]]
      /\ w.usage = [y.usage EXCEPT ![type] = @ - 1]
      /\ SameFree(y, w) /\ SameMaps(y, w) /\ SameAreas(y, w) /\ w.starved = y.starved
  BY <1>6 DEF ZeroedPfn
<1>8. FreeOK(w) /\ FreePages(w.free) = FreePages(m.free) \cup (P \cup {p})
  BY <1>4, <1>5, <1>7 DEF FreeOK, SameFree, FreedFrames
<1>9. SameMaps(m, w) /\ SameAreas(m, w) /\ w.starved = m.starved
  BY <1>5, <1>7 DEF FreedFrames, SameMaps, SameAreas
<1>10. w.type = [q \in Pages |-> IF q \in P \cup {p} THEN "Unknown" ELSE m.type[q]]
  BY <1>5, <1>7 DEF FreedFrames, SameFrames
<1>11. \A q \in Pages : w.used[q] = m.used[q]
  BY <1>1, <1>5, <1>7 DEF FreedFrames, SameFrames
<1>12. UsageOK(w)
  <2>1. UsageOK(y)
    BY <1>5 DEF FreedFrames, UsageOK, OfType, SameFrames
  <2>2. {p} \in SUBSET Pages /\ 1 = Cardinality({p}) /\ 1 \in Int /\ type \in Types \ {"Unknown"}
        /\ \A q \in {p} : y.type[q] = type
    BY <1>1, <1>2, <1>5, FS_Singleton, Cardinality({p}) = 1 DEF SameFrames
  <2> QED
    BY <1>5, <1>7, <2>1, <2>2, UsageLoses
<1> QED
  BY <1>3, <1>7, <1>8, <1>9, <1>10, <1>11, <1>12 DEF FreedFrames, p

(* The pages of a range, one more at a time. *)
LEMMA MappedNext ==
    ASSUME NEW m \in VMs, NEW G, PagesOK(m, {}, G), NEW first \in Nat, NEW i \in Nat, first <= i,
           first..i \subseteq Virtual
    PROVE  /\ m.pte[i] \in Pages => /\ m.pte[i] \notin MappedIn(m, first, i - 1)
                                    /\ MappedIn(m, first, i) = MappedIn(m, first, i - 1) \cup {m.pte[i]}
           /\ m.pte[i] \notin Pages => MappedIn(m, first, i) = MappedIn(m, first, i - 1)
<1>1. first..i = first..(i - 1) \cup {i} /\ i \notin first..(i - 1)
  OBVIOUS
<1>2. \A v, w \in Virtual : m.pte[v] \in Pages /\ m.pte[v] = m.pte[w] => v = w
  BY DEF PagesOK, Owners
<1>3. ASSUME m.pte[i] \in Pages PROVE m.pte[i] \notin MappedIn(m, first, i - 1)
  BY <1>1, <1>2, <1>3 DEF MappedIn
<1>4. ASSUME m.pte[i] \in Pages PROVE MappedIn(m, first, i) = MappedIn(m, first, i - 1) \cup {m.pte[i]}
  BY <1>1, <1>4 DEF MappedIn
<1>5. ASSUME m.pte[i] \notin Pages PROVE MappedIn(m, first, i) = MappedIn(m, first, i - 1)
  BY <1>1, <1>5 DEF MappedIn
<1> QED
  BY <1>3, <1>4, <1>5

(* The loop of DeallocateSystemMemory. *)
LEMMA FreeSystemPagesIs ==
    ASSUME NEW m \in VMs, FreeOK(m), NEW G, PagesOK(m, {}, G), NEW first \in Nat, NEW last \in Nat, first <= last,
           \A u \in first..last : u \in Virtual /\ UserLast < u /\ u <= SystemLast /\ m.pte[u] \in Pages
    PROVE  FreedFrames(m, FreeSystemPages(m, first, last), MappedIn(m, first, last))
<1>0. first \in Int /\ last \in Int /\ first - 1 <= last /\ first - 1 \in Int /\ last \in first - 1..last
  OBVIOUS
<1>1. PICK g : /\ FreeSystemPages(m, first, last) = g[last]
               /\ g[first - 1] = m
               /\ \A i \in first..last : g[i] = FreeSystemPage(g[i - 1], i)
  BY <1>0, FreeSystemPagesLoop
<1> DEFINE T == {i \in first - 1..last : FreedFrames(m, g[i], MappedIn(m, first, i))}
<1>2. first - 1 \in T
  <2>1. first..first - 1 = {}
    OBVIOUS
  <2>2. MappedIn(m, first, first - 1) = {}
    BY <2>1 DEF MappedIn
  <2>3. FreedFrames(m, m, {})
    BY FreedNone
  <2> QED
    BY <1>0, <1>1, <2>2, <2>3
<1>3. ASSUME NEW i \in (first - 1) + 1..last, i - 1 \in T PROVE i \in T
  <2> DEFINE x == g[i - 1]
             w == g[i]
             P == MappedIn(m, first, i - 1)
  <2>1. /\ i \in first..last /\ i \in first - 1..last /\ i \in Nat /\ first <= i
        /\ first..i \subseteq first..last
    OBVIOUS
  <2>2. w = FreeSystemPage(x, i)
    BY <1>1, <2>1
  <2>3. FreedFrames(m, x, P)
    BY <1>3
  <2>4. P \in SUBSET Pages
    BY DEF MappedIn
  <2>5. i \in Virtual /\ UserLast < i /\ i <= SystemLast /\ m.pte[i] \in Pages /\ first..i \subseteq Virtual
    BY <2>1
  <2>6. m.pte[i] \notin P /\ MappedIn(m, first, i) = P \cup {m.pte[i]}
    BY <2>1, <2>5, MappedNext
  <2> HIDE DEF x, w, P
  <2>7. "System" = TypeAt(i)
    BY <2>5, VirtualIs, Constants DEF TypeAt
  <2>8. m.pte[i] \in Pages \ P
    BY <2>5, <2>6
  <2>9. FreedFrames(m, FreePage(x, i, TypeAt(i)), P \cup {m.pte[i]})
    BY <2>3, <2>4, <2>5, <2>8, FreePageIs
  <2>10. FreedFrames(m, w, MappedIn(m, first, i))
    BY <2>2, <2>6, <2>7, <2>9 DEF FreeSystemPage
  <2> QED
    BY <2>1, <2>10 DEF w
<1>4. last \in T
  <2> HIDE DEF T
  <2> QED
    BY <1>0, <1>2, <1>3, StepByStep
<1> QED
  BY <1>1, <1>4

(* The loop of XbFreeVirtualMemory. *)
LEMMA DecommitPagesIs ==
    ASSUME NEW m \in VMs, FreeOK(m), NEW G, PagesOK(m, {}, G), NEW first \in Nat, NEW last \in Nat, first <= last,
           \A u \in first..last : u \in Virtual /\ m.pte[u] \in Pages \cup {None}
    PROVE  FreedFrames(m, DecommitPages(m, first, last), MappedIn(m, first, last))
<1>0. first \in Int /\ last \in Int /\ first - 1 <= last /\ first - 1 \in Int /\ last \in first - 1..last
  OBVIOUS
<1>1. PICK g : /\ DecommitPages(m, first, last) = g[last]
               /\ g[first - 1] = m
               /\ \A i \in first..last : g[i] = DecommitPage(g[i - 1], i)
  BY <1>0, DecommitPagesLoop
<1> DEFINE T == {i \in first - 1..last : FreedFrames(m, g[i], MappedIn(m, first, i))}
<1>2. first - 1 \in T
  <2>1. first..first - 1 = {}
    OBVIOUS
  <2>2. MappedIn(m, first, first - 1) = {}
    BY <2>1 DEF MappedIn
  <2>3. FreedFrames(m, m, {})
    BY FreedNone
  <2> QED
    BY <1>0, <1>1, <2>2, <2>3
<1>3. ASSUME NEW i \in (first - 1) + 1..last, i - 1 \in T PROVE i \in T
  <2> DEFINE x == g[i - 1]
             w == g[i]
             P == MappedIn(m, first, i - 1)
  <2>1. /\ i \in first..last /\ i \in first - 1..last /\ i \in Nat /\ first <= i
        /\ first..i \subseteq first..last
    OBVIOUS
  <2>2. w = DecommitPage(x, i)
    BY <1>1, <2>1
  <2>3. FreedFrames(m, x, P)
    BY <1>3
  <2>4. P \in SUBSET Pages
    BY DEF MappedIn
  <2>5. i \in Virtual /\ m.pte[i] \in Pages \cup {None} /\ first..i \subseteq Virtual
    BY <2>1
  <2>6. /\ m.pte[i] \in Pages => m.pte[i] \notin P /\ MappedIn(m, first, i) = P \cup {m.pte[i]}
        /\ m.pte[i] \notin Pages => MappedIn(m, first, i) = P
    BY <2>1, <2>5, MappedNext
  <2>7. x.pte[i] = m.pte[i] /\ \A q \in Pages \ P : x.type[q] = m.type[q]
    BY <2>3, <2>5 DEF FreedFrames, SameMaps
  <2>8. None \notin Pages
    BY Constants DEF None, Pages
  <2> HIDE DEF x, w, P
  <2>9. FreedFrames(m, w, MappedIn(m, first, i))
    <3>1. CASE m.pte[i] = None
      <4>1. w = x
        BY <2>2, <2>7, <3>1 DEF DecommitPage
      <4> QED
        BY <2>3, <2>6, <2>8, <3>1, <4>1
    <3>2. CASE m.pte[i] \in Pages
      <4>1. m.pte[i] \in Pages \ P
        BY <2>6, <3>2
      <4>2. x.type[m.pte[i]] = TypeAt(i)
        BY <2>5, <2>7, <3>2, <4>1, MappedPage
      <4>3. w = FreePage(x, i, TypeAt(i))
        BY <2>2, <2>7, <2>8, <3>2, <4>2 DEF DecommitPage
      <4>4. FreedFrames(m, FreePage(x, i, TypeAt(i)), P \cup {m.pte[i]})
        BY <2>3, <2>4, <2>5, <4>1, FreePageIs
      <4> QED
        BY <2>6, <3>2, <4>3, <4>4
    <3> QED
      BY <2>5, <3>1, <3>2
  <2> QED
    BY <2>1, <2>9 DEF w
<1>4. last \in T
  <2> HIDE DEF T
  <2> QED
    BY <1>0, <1>2, <1>3, StepByStep
<1> QED
  BY <1>1, <1>4

(* The pages A have been unmapped and their physical pages freed. *)
Unmapped(m, w, A, G) ==
    /\ w \in VMs /\ FreeOK(w) /\ PagesOK(w, {}, G)
    /\ w.pde = m.pde /\ SameAreas(m, w) /\ w.starved = m.starved
    /\ \A u \in Virtual : w.pte[u] = IF u \in A THEN None ELSE m.pte[u]
    /\ w.ended = m.ended \ {u \in A : m.pte[u] # None}

(* What has been freed and unmapped keeps the pages sound. *)
LEMMA FreedSound ==
    ASSUME NEW m \in VMs, NEW w \in VMs, NEW G, PagesOK(m, {}, G), NEW R, R \cap G = {}, NEW P \in SUBSET Pages,
           Freed(m, w, R, P), UsageOK(w)
    PROVE  PagesOK(w, {}, G)
<1>1. Owners(m, {}) /\ CountsOK(m, G)
  BY DEF PagesOK
<1>2. Owners(w, {})
  BY <1>1, OwnersFreed
<1>3. CountsOK(w, G)
  BY <1>1, CountsFreed
<1> QED
  BY <1>2, <1>3 DEF PagesOK

(* A page that is not a page table has no count to lose. *)
LEMMA UsedElsewhere ==
    ASSUME NEW m \in VMs, NEW L, NEW G, PagesOK(m, L, G), NEW R \in SUBSET Virtual,
           \A u \in R : m.pte[u] # None \/ m.pde[Pde(u)] # None
    PROVE  \A q \in Pages : m.type[q] # "PageTable" => m.used[q] = 0 /\ CountPtes(m, R, q) = 0
<1>1. Owners(m, L) /\ CountsOK(m, G)
  BY DEF PagesOK
<1>2. \A u \in R : m.pde[Pde(u)] # None
  BY <1>1 DEF CountsOK
<1>3. \A q \in Pages : m.type[q] # "PageTable" => CountPtes(m, R, q) = 0
  BY <1>1, <1>2, CountPtesAt
<1> QED
  BY <1>1, <1>3 DEF CountsOK

(* The ptes of a range are zeroed after its physical pages have been freed. *)
LEMMA UnmapIs ==
    ASSUME NEW m \in VMs, NEW G, PagesOK(m, {}, G), NEW first \in Nat, NEW last \in Nat,
           first..last \subseteq Virtual, first..last \cap G = {},
           NEW x, FreedFrames(m, x, MappedIn(m, first, last))
    PROVE  Unmapped(m, ZeroPte(x, first, last), first..last, G)
<1> DEFINE w == ZeroPte(x, first, last)
           R == {u \in first..last : m.pte[u] # None}
           P == MappedIn(m, first, last)
<1>0. x \in VMs /\ first \in Int /\ last \in Int
  BY DEF FreedFrames
<1>1. ZeroedPte(x, w, first, last)
  BY <1>0, ZeroPteIs
<1> HIDE DEF w
<1>2. x.pte = m.pte /\ x.pde = m.pde /\ x.ended = m.ended
  BY DEF FreedFrames, SameMaps
<1>3. /\ w \in VMs
      /\ w.pte = [v \in Virtual |-> IF v \in R THEN None ELSE m.pte[v]]
      /\ w.used = [q \in Pages |-> (x.used[q] - CountPtes(x, R, q)) % PtesUsedWidth]
      /\ w.ended = m.ended \ R
      /\ w.pde = m.pde /\ w.type = x.type /\ w.usage = x.usage
      /\ SameFree(x, w) /\ SameAreas(x, w) /\ w.starved = x.starved
  <2>1. R = {v \in first..last : x.pte[v] # None}
    BY <1>2
  <2> HIDE DEF R
  <2> QED
    BY <1>1, <1>2, <2>1 DEF ZeroedPte
<1>4. R \in SUBSET Virtual /\ R \cap G = {} /\ P \in SUBSET Pages
  BY DEF MappedIn
<1>5. \A q \in Pages : CountPtes(x, R, q) = CountPtes(m, R, q)
  BY <1>2 DEF CountPtes, GetPfnOfPT
<1>6. \A q \in Pages : w.used[q] = (m.used[q] - CountPtes(m, R, q)) % PtesUsedWidth
  BY <1>3, <1>5 DEF FreedFrames
<1>7. \A q \in Pages : m.type[q] # "PageTable" => m.used[q] = 0 /\ CountPtes(m, R, q) = 0
  BY <1>4, UsedElsewhere
<1>8. \A q \in Pages : w.used[q] = IF m.type[q] = "PageTable"
                                    THEN (m.used[q] - CountPtes(m, R, q)) % PtesUsedWidth ELSE 0
  <2> TAKE q \in Pages
  <2>1. CASE m.type[q] = "PageTable"
    BY <1>6, <2>1
  <2>2. CASE m.type[q] # "PageTable"
    <3>1. w.used[q] = (0 - 0) % PtesUsedWidth
      BY <1>6, <1>7, <2>2
    <3> QED
      BY <2>2, <3>1, ZeroMod
  <2> QED
    BY <2>1, <2>2
<1>9. Freed(m, w, R, P)
  <2>1. \A u \in R : m.pte[u] # None /\ w.pte[u] = None /\ (m.pte[u] \in Pages => m.pte[u] \in P)
    BY <1>3, <1>4 DEF MappedIn
  <2>2. \A p \in P : \E u \in R : m.pte[u] = p
    <3>1. None \notin Pages
      BY Constants DEF None, Pages
    <3> QED
      BY <3>1 DEF MappedIn
  <2>3. \A u \in Virtual \ R : w.pte[u] = m.pte[u]
    BY <1>3
  <2> HIDE DEF R, P
  <2>4. /\ w.type = [p \in Pages |-> IF p \in P THEN "Unknown" ELSE m.type[p]]
        /\ FreePages(w.free) = FreePages(m.free) \cup P
    BY <1>3 DEF FreedFrames, SameFree, P
  <2> QED
    BY <1>3, <1>4, <1>8, <2>1, <2>2, <2>3, <2>4 DEF Freed
<1> HIDE DEF P
<1>10. UsageOK(w) /\ FreeOK(w) /\ SameAreas(m, w) /\ w.starved = m.starved
  BY <1>3 DEF FreedFrames, UsageOK, OfType, FreeOK, SameFree, SameAreas
<1>11. PagesOK(w, {}, G)
  BY <1>3, <1>4, <1>9, <1>10, FreedSound
<1>12. \A u \in Virtual : w.pte[u] = IF u \in first..last THEN None ELSE m.pte[u]
  BY <1>3
<1>13. w.ended = m.ended \ {u \in first..last : m.pte[u] # None}
  BY <1>3
<1> QED
  BY <1>3, <1>10, <1>11, <1>12, <1>13 DEF Unmapped, w

(* A run of contiguous memory maps a run of physical pages. *)
RunAt(m, v, n) == \A u \in v..v + n - 1 : u - ContiguousFirst \in Pages /\ m.pte[u] = u - ContiguousFirst

(* No other page is mapped there, and the pages of the run are in use. *)
LEMMA RunPages ==
    ASSUME NEW m \in VMs, NEW G, PagesOK(m, {}, G), NEW v \in Nat, NEW n \in Nat \ {0},
           v..v + n - 1 \subseteq Virtual, RunAt(m, v, n)
    PROVE  LET p == v - ContiguousFirst
               q == p + n - 1
           IN  /\ p \in Pages /\ q \in Pages /\ p <= q /\ p..q \subseteq Pages /\ m.pte[v] = p
               /\ MappedIn(m, v, v + n - 1) = p..q /\ Cardinality(p..q) = n /\ q - p + 1 = n
               /\ \A r \in p..q : m.type[r] = "Contiguous" /\ r \notin FreePages(m.free) /\ m.used[r] = 0
<1> DEFINE p == v - ContiguousFirst
           q == p + n - 1
           c == ContiguousFirst
<1>1. c \in Nat /\ p \in Int /\ q \in Int /\ p <= q /\ v \in v..v + n - 1 /\ v + n - 1 \in v..v + n - 1
      /\ q = v + n - 1 - c /\ q - p + 1 = n
  BY Constants
<1>2. p \in Pages /\ q \in Pages /\ m.pte[v] = p
  BY <1>1 DEF RunAt
<1>3. p..q \subseteq Pages
  BY <1>2, Constants DEF Pages
<1>4. \A r \in p..q : r + c \in v..v + n - 1 /\ m.pte[r + c] = r
  <2> TAKE r \in p..q
  <2> DEFINE u == r + c
  <2>1. u \in v..v + n - 1 /\ u - ContiguousFirst = r
    BY <1>1
  <2> HIDE DEF u
  <2>2. m.pte[u] = r
    BY <2>1 DEF RunAt
  <2> QED
    BY <2>1, <2>2 DEF u
<1>5. \A u \in v..v + n - 1 : m.pte[u] \in p..q
  BY <1>1 DEF RunAt
<1>6. MappedIn(m, v, v + n - 1) = p..q
  BY <1>3, <1>4, <1>5 DEF MappedIn
<1>7. \A r \in p..q : m.type[r] = "Contiguous" /\ r \notin FreePages(m.free) /\ m.used[r] = 0
  <2> TAKE r \in p..q
  <2> DEFINE u == r + c
  <2>1. u \in Virtual /\ m.pte[u] = r /\ r \in Pages /\ u >= c
    BY <1>1, <1>3, <1>4 DEF Pages
  <2> HIDE DEF u
  <2>2. m.type[r] = TypeAt(u) /\ r \notin FreePages(m.free) /\ m.used[r] = 0
    BY <2>1, MappedPage
  <2>3. TypeAt(u) = "Contiguous"
    BY <2>1, VirtualIs, Constants DEF TypeAt
  <2> QED
    BY <2>2, <2>3
<1>8. Cardinality(p..q) = n
  BY <1>1, RunCount
<1> QED
  BY <1>1, <1>2, <1>3, <1>6, <1>7, <1>8

(* DeallocateContiguousMemory frees the pages of an area. *)
LEMMA FreeRunIs ==
    ASSUME NEW m \in VMs, FreeOK(m), NEW G, PagesOK(m, {}, G), NEW v \in Nat, NEW n \in Nat \ {0},
           v..v + n - 1 \subseteq Virtual, RunAt(m, v, n), NEW p, p = m.pte[v], NEW q, q = p + n - 1
    PROVE  FreedFrames(m, ZeroPfn(Released(m, p, q), p, q, "Contiguous"), MappedIn(m, v, v + n - 1))
<1> DEFINE P == MappedIn(m, v, v + n - 1)
           x == Released(m, p, q)
           w == ZeroPfn(x, p, q, "Contiguous")
<1>1. /\ p \in Pages /\ q \in Pages /\ p <= q /\ p..q \subseteq Pages /\ P = p..q
      /\ Cardinality(p..q) = n /\ q - p + 1 = n
      /\ \A r \in p..q : m.type[r] = "Contiguous" /\ r \notin FreePages(m.free) /\ m.used[r] = 0
  BY RunPages
<1> HIDE DEF P
<1>2. p \in Int /\ q \in Int /\ "Contiguous" \in Types \ {"Unknown"} /\ p..q \cap FreePages(m.free) = {}
  BY <1>1, Constants DEF Pages, Types
<1>3. /\ x \in VMs /\ FreeOK(x)
      /\ FreePages(x.free) = FreePages(m.free) \cup p..q
      /\ SameFrames(m, x) /\ SameMaps(m, x) /\ SameAreas(m, x) /\ x.starved = m.starved
  <2>1. p \in Pages /\ q \in Pages /\ p <= q /\ p..q \cap FreePages(m.free) = {}
    BY <1>1, <1>2
  <2> QED
    BY <2>1, ReleaseFree
<1> HIDE DEF x
<1>4. ZeroedPfn(x, w, p..q, "Contiguous", q - p + 1)
  BY <1>2, <1>3, ZeroPfnRun
<1> HIDE DEF w
<1>5. /\ w \in VMs
      /\ w.type = [r \in Pages |-> IF r \in P THEN "Unknown" ELSE x.type[r]]
      /\ w.used = [r \in Pages |-> IF r \in P THEN 0 ELSE x.used[r]]
      /\ w.usage = [x.usage EXCEPT !["Contiguous"] = @ - n]
      /\ SameFree(x, w) /\ SameMaps(x, w) /\ SameAreas(x, w) /\ w.starved = x.starved
  BY <1>1, <1>4 DEF ZeroedPfn
<1>6. UsageOK(w)
  <2>1. UsageOK(x)
    BY <1>3 DEF PagesOK, UsageOK, OfType, SameFrames
  <2>2. P \in SUBSET Pages /\ n = Cardinality(P) /\ n \in Int /\ \A r \in P : x.type[r] = "Contiguous"
    BY <1>1, <1>3 DEF SameFrames
  <2> QED
    BY <1>2, <1>3, <1>5, <2>1, <2>2, UsageLoses
<1>7. FreeOK(w) /\ FreePages(w.free) = FreePages(m.free) \cup P
  BY <1>1, <1>3, <1>5 DEF FreeOK, SameFree
<1>8. SameMaps(m, w) /\ SameAreas(m, w) /\ w.starved = m.starved
  BY <1>3, <1>5 DEF SameMaps, SameAreas
<1>9. /\ w.type = [r \in Pages |-> IF r \in P THEN "Unknown" ELSE m.type[r]]
      /\ \A r \in Pages : w.used[r] = m.used[r]
  BY <1>1, <1>3, <1>5 DEF SameFrames
<1> QED
  BY <1>5, <1>6, <1>7, <1>8, <1>9 DEF FreedFrames, w, x, P

(* ClaimGpuMemory unmaps and frees a part of the instance memory, in the other order. *)
LEMMA ClaimRunIs ==
    ASSUME NEW m \in VMs, FreeOK(m), NEW G, PagesOK(m, {}, G), NEW v \in Nat, NEW n \in Nat \ {0},
           v..v + n - 1 \subseteq Virtual, v..v + n - 1 \cap G = {}, RunAt(m, v, n),
           NEW p, p = v - ContiguousFirst, NEW q, q = p + n - 1, NEW last, last = v + n - 1
    PROVE  Unmapped(m, Released(ZeroPfn(ZeroPte(m, v, last), p, q, "Contiguous"), p, q), v..last, G)
<1> DEFINE P == MappedIn(m, v, last)
           R == v..last
           x == ZeroPte(m, v, last)
           y == ZeroPfn(x, p, q, "Contiguous")
           w == Released(y, p, q)
<1>1. /\ p \in Pages /\ q \in Pages /\ p <= q /\ p..q \subseteq Pages /\ P = p..q
      /\ Cardinality(p..q) = n /\ q - p + 1 = n
      /\ \A r \in p..q : m.type[r] = "Contiguous" /\ r \notin FreePages(m.free) /\ m.used[r] = 0
  BY RunPages
<1>2. /\ p \in Int /\ q \in Int /\ "Contiguous" \in Types \ {"Unknown"} /\ p..q \cap FreePages(m.free) = {}
      /\ v \in Int /\ last \in Int
  BY <1>1, Constants DEF Pages, Types
<1>3. ZeroedPte(m, x, v, last)
  BY <1>2, ZeroPteIs
<1> HIDE DEF x
<1>4. R = {u \in v..last : m.pte[u] # None}
  <2>1. \A u \in v..last : m.pte[u] # None
    BY Constants DEF RunAt, None, Pages
  <2> QED
    BY <2>1
<1>5. R \in SUBSET Virtual /\ R \cap G = {}
  OBVIOUS
<1> HIDE DEF R
<1>6. /\ x \in VMs
      /\ x.pte = [u \in Virtual |-> IF u \in R THEN None ELSE m.pte[u]]
      /\ x.used = [r \in Pages |-> (m.used[r] - CountPtes(m, R, r)) % PtesUsedWidth]
      /\ x.ended = m.ended \ R
      /\ x.pde = m.pde /\ x.type = m.type /\ x.usage = m.usage
      /\ SameFree(m, x) /\ SameAreas(m, x) /\ x.starved = m.starved
  BY <1>3, <1>4 DEF ZeroedPte
<1>7. ZeroedPfn(x, y, p..q, "Contiguous", q - p + 1)
  BY <1>2, <1>6, ZeroPfnRun
<1> HIDE DEF y
<1>8. /\ y \in VMs
      /\ y.type = [r \in Pages |-> IF r \in P THEN "Unknown" ELSE x.type[r]]
      /\ y.used = [r \in Pages |-> IF r \in P THEN 0 ELSE x.used[r]]
      /\ y.usage = [x.usage EXCEPT !["Contiguous"] = @ - n]
      /\ SameFree(x, y) /\ SameMaps(x, y) /\ SameAreas(x, y) /\ y.starved = x.starved
  BY <1>1, <1>7 DEF ZeroedPfn
<1>9. FreeOK(y) /\ p..q \cap FreePages(y.free) = {} /\ y.free = m.free
  BY <1>2, <1>6, <1>8 DEF FreeOK, SameFree
<1>10. /\ w \in VMs /\ FreeOK(w)
       /\ FreePages(w.free) = FreePages(y.free) \cup p..q
       /\ SameFrames(y, w) /\ SameMaps(y, w) /\ SameAreas(y, w) /\ w.starved = y.starved
  BY <1>1, <1>8, <1>9, ReleaseFree
<1> HIDE DEF w
<1>11. /\ w.type = [r \in Pages |-> IF r \in P THEN "Unknown" ELSE m.type[r]]
       /\ w.usage = [m.usage EXCEPT !["Contiguous"] = @ - n]
       /\ w.pde = m.pde /\ w.ended = m.ended \ R /\ SameAreas(m, w) /\ w.starved = m.starved
       /\ FreePages(w.free) = FreePages(m.free) \cup P
  BY <1>1, <1>6, <1>8, <1>9, <1>10 DEF SameFrames, SameMaps, SameAreas
<1>12. \A u \in Virtual : w.pte[u] = IF u \in R THEN None ELSE m.pte[u]
  BY <1>6, <1>8, <1>10 DEF SameMaps
<1>13. UsageOK(w)
  <2>0. UsageOK(m) /\ n \in Int
    BY DEF PagesOK
  <2> HIDE DEF P
  <2>1. P \in SUBSET Pages /\ n = Cardinality(P) /\ \A r \in P : m.type[r] = "Contiguous"
    BY <1>1
  <2> QED
    BY <1>2, <1>10, <1>11, <2>0, <2>1, UsageLoses
<1>14. \A u \in R : m.pte[u] # None
  BY <1>4
<1>15. \A r \in Pages : m.type[r] # "PageTable" => m.used[r] = 0 /\ CountPtes(m, R, r) = 0
  BY <1>5, <1>14, UsedElsewhere
<1>16. \A r \in Pages : w.used[r] = IF r \in P THEN 0 ELSE (m.used[r] - CountPtes(m, R, r)) % PtesUsedWidth
  BY <1>6, <1>8, <1>10 DEF SameFrames
<1>17. \A r \in Pages : w.used[r] = IF m.type[r] = "PageTable"
                                     THEN (m.used[r] - CountPtes(m, R, r)) % PtesUsedWidth ELSE 0
  <2> TAKE r \in Pages
  <2>1. CASE m.type[r] = "PageTable"
    <3>1. r \notin P
      BY <1>1, <2>1
    <3> QED
      BY <1>16, <2>1, <3>1
  <2>2. CASE m.type[r] # "PageTable"
    <3>1. w.used[r] = 0 \/ w.used[r] = (0 - 0) % PtesUsedWidth
      BY <1>15, <1>16, <2>2
    <3> QED
      BY <2>2, <3>1, ZeroMod
  <2> QED
    BY <2>1, <2>2
<1>18. Freed(m, w, R, P)
  <2>1. \A u \in R : m.pte[u] # None /\ w.pte[u] = None /\ (m.pte[u] \in Pages => m.pte[u] \in P)
    BY <1>5, <1>12, <1>14 DEF MappedIn, R
  <2>2. \A r \in P : \E u \in R : m.pte[u] = r
    BY DEF MappedIn, R
  <2>3. \A u \in Virtual \ R : w.pte[u] = m.pte[u]
    BY <1>12
  <2> HIDE DEF P
  <2> QED
    BY <1>5, <1>11, <1>17, <2>1, <2>2, <2>3 DEF Freed
<1>19. PagesOK(w, {}, G)
  <2>1. P \in SUBSET Pages
    BY <1>1
  <2> HIDE DEF P
  <2> QED
    BY <1>5, <1>10, <1>13, <1>18, <2>1, FreedSound
<1>20. w.ended = m.ended \ {u \in v..last : m.pte[u] # None} /\ R = v..last
  BY <1>4, <1>11 DEF R
<1> QED
  BY <1>10, <1>11, <1>12, <1>19, <1>20 DEF Unmapped, w, y, x

(* The virtual pages A, whose ptes were zero, have been mapped. *)
MappedAt(m, w, A) ==
    /\ w \in VMs /\ FreeOK(w) /\ w.pde = m.pde /\ w.ended = m.ended /\ SameAreas(m, w)
    /\ w.starved = m.starved /\ SameFree(m, w)
    /\ \A u \in Virtual \ A : w.pte[u] = m.pte[u]

(* What has been bound keeps the pages sound. *)
LEMMA BoundSound ==
    ASSUME NEW m \in VMs, NEW w \in VMs, NEW G, NEW P, PagesOK(m, P, G), NEW R, R \cap G = {},
           NEW type \in {"Virtual", "System", "Contiguous"}, Bound(m, w, R, P, type), UsageOK(w)
    PROVE  PagesOK(w, {}, G)
<1>1. Owners(m, P) /\ CountsOK(m, G) /\ P \in SUBSET P /\ P \ P = {}
  BY DEF PagesOK
<1>2. Owners(w, P \ P)
  BY <1>1, OwnersBound
<1>3. CountsOK(w, G)
  BY <1>1, CountsBound
<1> QED
  BY <1>1, <1>2, <1>3 DEF PagesOK

(* Ptes that map a device. *)
AllDevice(w, A) == \A u \in A : w.pte[u] = Device

(* MapDeviceMemory maps frames that are not memory. *)
LEMMA MapDeviceIs ==
    ASSUME NEW m \in VMs, FreeOK(m), NEW G, NEW v \in Nat, NEW n \in Nat \ {0}, NEW last, last = v + n - 1,
           \A u \in v..last : u \in Virtual \ G /\ m.pte[u] = None /\ m.pde[Pde(u)] # None
    PROVE  LET w == WritePte(m, v, last, Device)
           IN  /\ MappedAt(m, w, v..last)
               /\ AllDevice(w, v..last)
               /\ PagesOK(m, {}, G) => PagesOK(w, {}, G)
<1> DEFINE w == WritePte(m, v, last, Device)
           R == v..last
<1>0. v \in Int /\ last \in Int /\ Device \in Nat /\ Device \notin Pages /\ None # Device
  BY Constants DEF Device, Pages, None
<1>1. WrotePte(m, w, v, last, Device)
  BY <1>0, WritePteIs
<1> HIDE DEF w
<1>2. R = {u \in v..last : m.pte[u] = None} /\ R \in SUBSET Virtual /\ R \cap G = {}
  OBVIOUS
<1>3. /\ w \in VMs
      /\ w.pte = [u \in Virtual |-> IF u \in R THEN Min({Device + u - v, Device}) ELSE m.pte[u]]
      /\ w.used = [p \in Pages |-> (m.used[p] + CountPtes(m, R, p)) % PtesUsedWidth]
      /\ w.pde = m.pde /\ w.ended = m.ended /\ w.type = m.type /\ w.usage = m.usage
      /\ SameFree(m, w) /\ SameAreas(m, w) /\ w.starved = m.starved
  <2> HIDE DEF R
  <2> QED
    BY <1>1, <1>2 DEF WrotePte
<1>4. ASSUME NEW u \in R PROVE w.pte[u] = Device
  <2> DEFINE f == Device + u - v
  <2>1. f \in Int /\ f >= Device /\ Device \in Int
    BY <1>0
  <2> HIDE DEF f
  <2>2. Min({f, Device}) = Device
    <3>1. Min({f, Device}) = IF f <= Device THEN f ELSE Device
      BY <2>1, MaxMin
    <3> QED
      BY <2>1, <3>1
  <2>3. u \in Virtual /\ w.pte[u] = Min({f, Device})
    BY <1>2, <1>3 DEF f
  <2> QED
    BY <2>2, <2>3
<1>5. \A u \in Virtual \ R : w.pte[u] = m.pte[u]
  BY <1>3
<1>6. MappedAt(m, w, R)
  BY <1>3, <1>5 DEF MappedAt, FreeOK, SameFree
<1>7. ASSUME PagesOK(m, {}, G) PROVE PagesOK(w, {}, G)
  <2>1. \A p \in Pages : m.type[p] # "PageTable" => m.used[p] = 0 /\ CountPtes(m, R, p) = 0
    BY <1>2, <1>7, UsedElsewhere
  <2>2. \A p \in Pages : w.used[p] = IF m.type[p] = "PageTable"
                                     THEN (m.used[p] + CountPtes(m, R, p)) % PtesUsedWidth ELSE 0
    <3> TAKE p \in Pages
    <3>1. w.used[p] = (m.used[p] + CountPtes(m, R, p)) % PtesUsedWidth
      BY <1>3
    <3>2. CASE m.type[p] # "PageTable"
      <4>1. w.used[p] = (0 + 0) % PtesUsedWidth
        BY <2>1, <3>1, <3>2
      <4> QED
        BY <3>2, <4>1, ZeroMod
    <3> QED
      BY <3>1, <3>2
  <2>3. w.type = [p \in Pages |-> IF p \in {} THEN "System" ELSE m.type[p]]
    <3>1. m.type = [p \in Pages |-> m.type[p]]
      BY DEF VMs
    <3> QED
      BY <1>3, <3>1
  <2>4. \A u \in R : m.pte[u] = None /\ w.pte[u] = Device /\ m.pde[Pde(u)] # None
    BY <1>4
  <2> HIDE DEF R
  <2>5. Bound(m, w, R, {}, "System")
    <3>1. \A u \in R : m.pte[u] = None /\ w.pte[u] # None /\ w.pte[u] \notin Pages /\ m.pde[Pde(u)] # None
      BY <1>0, <2>4
    <3>2. w.pde = m.pde /\ w.free = m.free
      BY <1>3 DEF SameFree
    <3> QED
      BY <1>2, <1>5, <2>2, <2>3, <3>1, <3>2 DEF Bound
  <2>6. UsageOK(w)
    BY <1>3, <1>7 DEF PagesOK, UsageOK, OfType
  <2>7. "System" \in {"Virtual", "System", "Contiguous"}
    OBVIOUS
  <2> QED
    BY <1>2, <1>3, <1>7, <2>5, <2>6, <2>7, BoundSound
<1> QED
  BY <1>4, <1>6, <1>7 DEF w, AllDevice

(* AllocateContiguousMemoryInternal maps the pages it has taken. *)
LEMMA MapRunIs ==
    ASSUME NEW m \in VMs, FreeOK(m), NEW G, NEW p \in Pages, NEW n \in Nat \ {0}, NEW q \in Pages, q = p + n - 1,
           NEW v, v = ContiguousFirst + p, NEW last, last = v + n - 1,
           \A u \in v..last : u \in Virtual \ G /\ m.pte[u] = None /\ m.pde[Pde(u)] # None
    PROVE  LET w == WritePfn(WritePte(m, v, last, p), p, q, "Contiguous")
           IN  /\ MappedAt(m, w, v..last)
               /\ \A u \in v..last : w.pte[u] = u - ContiguousFirst /\ u - ContiguousFirst \in Pages
               /\ PagesOK(m, p..q, G) => PagesOK(w, {}, G)
<1> DEFINE x == WritePte(m, v, last, p)
           w == WritePfn(x, p, q, "Contiguous")
           R == v..last
           P == p..q
           c == ContiguousFirst
<1>0. /\ p \in Nat /\ q \in Nat /\ c \in Nat /\ v \in Int /\ last \in Int /\ q <= HighestPage
      /\ HighestPage \in Nat /\ Device = HighestPage + 1 /\ p..q \subseteq Pages /\ None \notin Pages
      /\ \A r \in Pages : r <= HighestPage /\ r \in Nat
  BY Constants DEF Device, Pages, None
<1>1. WrotePte(m, x, v, last, p)
  BY <1>0, WritePteIs
<1> HIDE DEF x
<1>2. R = {u \in v..last : m.pte[u] = None} /\ R \in SUBSET Virtual /\ R \cap G = {}
  OBVIOUS
<1>3. /\ x \in VMs
      /\ x.pte = [u \in Virtual |-> IF u \in R THEN Min({p + u - v, Device}) ELSE m.pte[u]]
      /\ x.used = [r \in Pages |-> (m.used[r] + CountPtes(m, R, r)) % PtesUsedWidth]
      /\ x.pde = m.pde /\ x.ended = m.ended /\ x.type = m.type /\ x.usage = m.usage
      /\ SameFree(m, x) /\ SameAreas(m, x) /\ x.starved = m.starved
  <2> HIDE DEF R
  <2> QED
    BY <1>1, <1>2 DEF WrotePte
<1>4. WrotePfn(x, w, P, "Contiguous", q - p + 1)
  <2>1. "Contiguous" \in Types /\ p \in Int /\ q \in Int
    BY <1>0 DEF Types
  <2> QED
    BY <1>3, <2>1, WritePfnRun
<1> HIDE DEF w
<1>5. /\ w \in VMs
      /\ w.type = [r \in Pages |-> IF r \in P THEN "Contiguous" ELSE x.type[r]]
      /\ w.used = [r \in Pages |-> IF r \in P THEN 0 ELSE x.used[r]]
      /\ w.usage = [x.usage EXCEPT !["Contiguous"] = @ + (q - p + 1)]
      /\ SameFree(x, w) /\ SameMaps(x, w) /\ SameAreas(x, w) /\ w.starved = x.starved
  <2> HIDE DEF P
  <2> QED
    BY <1>4 DEF WrotePfn
<1>6. ASSUME NEW u \in R PROVE w.pte[u] = u - c /\ u - c \in P
  <2> DEFINE f == p + u - v
  <2>1. f \in Int /\ f <= q /\ p <= f /\ f = u - c /\ Device \in Int /\ f <= Device
    BY <1>0
  <2> HIDE DEF f
  <2>2. Min({f, Device}) = f
    BY <2>1, MaxMin
  <2>3. x.pte[u] = Min({f, Device})
    BY <1>2, <1>3 DEF f
  <2>4. w.pte[u] = f
    BY <1>5, <2>2, <2>3 DEF SameMaps
  <2>5. f \in p..q
    BY <1>0, <2>1
  <2> QED
    BY <2>1, <2>4, <2>5
<1>7. \A u \in Virtual \ R : w.pte[u] = m.pte[u]
  BY <1>3, <1>5 DEF SameMaps
<1>8. MappedAt(m, w, R)
  BY <1>3, <1>5, <1>7 DEF MappedAt, FreeOK, SameFree, SameMaps, SameAreas
<1>9. ASSUME PagesOK(m, P, G) PROVE PagesOK(w, {}, G)
  <2>1. \A r \in Pages : m.type[r] # "PageTable" => m.used[r] = 0 /\ CountPtes(m, R, r) = 0
    <3>1. /\ m \in VMs /\ PagesOK(m, P, G) /\ R \in SUBSET Virtual
          /\ \A u \in R : m.pde[Pde(u)] # None
      BY <1>2, <1>9
    <3> HIDE DEF R, P
    <3> QED
      BY <3>1, UsedElsewhere
  <2>2. \A r \in P : m.type[r] = "Unknown" /\ r \in Pages
    BY <1>0, <1>9 DEF PagesOK, Owners
  <2>3. \A r \in Pages : w.used[r] = IF r \in P THEN 0 ELSE (m.used[r] + CountPtes(m, R, r)) % PtesUsedWidth
    <3> HIDE DEF P, R
    <3> QED
      BY <1>3, <1>5
  <2>4. \A r \in Pages : w.used[r] = IF m.type[r] = "PageTable"
                                     THEN (m.used[r] + CountPtes(m, R, r)) % PtesUsedWidth ELSE 0
    <3> HIDE DEF P, R
    <3> TAKE r \in Pages
    <3>1. CASE m.type[r] = "PageTable"
      <4>1. r \notin P
        BY <2>2, <3>1
      <4> QED
        BY <2>3, <3>1, <4>1
    <3>2. CASE m.type[r] # "PageTable"
      <4>1. w.used[r] = 0 \/ w.used[r] = (0 + 0) % PtesUsedWidth
        BY <2>1, <2>3, <3>2
      <4> QED
        BY <3>2, <4>1, ZeroMod
    <3> QED
      BY <3>1, <3>2
  <2>5. /\ w.type = [r \in Pages |-> IF r \in P THEN "Contiguous" ELSE m.type[r]]
        /\ w.usage = [m.usage EXCEPT !["Contiguous"] = @ + (q - p + 1)]
        /\ w.pde = m.pde /\ w.free = m.free
    <3> HIDE DEF P
    <3> QED
      BY <1>3, <1>5 DEF SameMaps, SameFree
  <2>6. \A u \in R : m.pte[u] = None /\ w.pte[u] = u - c /\ u - c \in P /\ m.pde[Pde(u)] # None
    BY <1>6
  <2>7. \A u \in R : TypeAt(u) = "Contiguous" /\ u \in Int
    <3> TAKE u \in R
    <3>1. u \in Int /\ u >= c
      BY <1>0
    <3> QED
      BY <3>1, Constants DEF TypeAt
  <2>8. \A r \in P : \E u \in R : w.pte[u] = r
    <3> TAKE r \in P
    <3> DEFINE u == r + c
    <3>1. u \in R /\ u - c = r
      BY <1>0
    <3> HIDE DEF u, R, P
    <3> QED
      BY <2>6, <3>1
  <2>9. \A u, z \in R : w.pte[u] = w.pte[z] => u = z
    BY <1>0, <2>6, <2>7
  <2> HIDE DEF R, P
  <2>10. \A u \in R : w.pte[u] \in Pages /\ w.pte[u] # None /\ w.pte[u] \in P
    BY <1>0, <2>2, <2>6
  <2>11. Bound(m, w, R, P, "Contiguous")
    <3>1. R \subseteq Virtual /\ \A u \in R : m.pte[u] = None /\ m.pde[Pde(u)] # None /\ TypeAt(u) = "Contiguous"
      BY <1>2, <2>6, <2>7
    <3>2. \A u, z \in R : w.pte[u] \in Pages /\ w.pte[u] = w.pte[z] => u = z
      BY <2>9
    <3> QED
      BY ONLY <1>7, <2>4, <2>5, <2>8, <2>10, <3>1, <3>2 DEF Bound
  <2>12. UsageOK(w)
    <3> DEFINE k == q - p + 1
    <3>1. P \in SUBSET Pages /\ k = Cardinality(P) /\ k \in Int /\ "Contiguous" \in Types \ {"Unknown"}
      <4>1. p \in Int /\ q \in Int /\ p <= q /\ k \in Int
        BY <1>0
      <4>2. Cardinality(p..q) = k
        BY <4>1, RunCount
      <4>3. "Contiguous" \in Types \ {"Unknown"}
        BY DEF Types
      <4> QED
        BY <1>0, <4>1, <4>2, <4>3 DEF P
    <3>2. UsageOK(m) /\ w.usage = [m.usage EXCEPT !["Contiguous"] = @ + k]
      BY <1>9, <2>5 DEF PagesOK
    <3> HIDE DEF k
    <3> QED
      BY <2>2, <2>5, <3>1, <3>2, UsageGains
  <2>13. "Contiguous" \in {"Virtual", "System", "Contiguous"}
    OBVIOUS
  <2> QED
    BY <1>2, <1>5, <1>9, <2>11, <2>12, <2>13, BoundSound
<1>10. \A u \in R : w.pte[u] = u - c /\ u - c \in Pages
  BY <1>0, <1>6
<1> QED
  BY <1>8, <1>9, <1>10 DEF w, x

=============================================================================
