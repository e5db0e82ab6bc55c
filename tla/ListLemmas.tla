----------------------------- MODULE ListLemmas -----------------------------
(***************************************************************************)
(* The kernel's LIST_ENTRY lists as sequences without repetition: what     *)
(* InsertTailList, RemoveEntryList and RemoveHeadList do to the set of     *)
(* linked entries.                                                         *)
(***************************************************************************)
EXTENDS Integers, SequencesExt, SequenceTheorems, FiniteSetTheorems, WellFoundedInduction, TLAPS

(* RemoveEntryList on a linked entry: what RemoveAt does to a sequence, element by element. *)
LEMMA RemoveAtElements ==
    ASSUME NEW S, NEW s \in Seq(S), NEW k \in 1..Len(s)
    PROVE  /\ RemoveAt(s, k) \in Seq(S)
           /\ Len(RemoveAt(s, k)) = Len(s) - 1
           /\ \A i \in 1..Len(s) - 1 :
                RemoveAt(s, k)[i] = IF i < k THEN s[i] ELSE s[i + 1]
<1> DEFINE a == SubSeq(s, 1, k - 1)
           b == SubSeq(s, k + 1, Len(s))
<1>1. /\ a \in Seq(S)
      /\ Len(a) = k - 1
      /\ \A i \in 1..k - 1 : a[i] = s[i]
  BY SubSeqProperties, \A i \in 1..k - 1 : s[i] \in S
<1>2. /\ b \in Seq(S)
      /\ Len(b) = Len(s) - k
      /\ \A i \in 1..Len(s) - k : b[i] = s[k + i]
  BY SubSeqProperties, \A i \in k + 1..Len(s) : s[i] \in S
<1>3. RemoveAt(s, k) = a \o b
  BY DEF RemoveAt
<1> HIDE DEF a, b
<1>4. /\ a \o b \in Seq(S)
      /\ Len(a \o b) = Len(s) - 1
      /\ \A i \in 1..Len(s) - 1 : (a \o b)[i] = IF i <= k - 1 THEN a[i] ELSE b[i - (k - 1)]
  BY <1>1, <1>2, ConcatProperties
<1>5. \A i \in 1..Len(s) - 1 : (a \o b)[i] = IF i < k THEN s[i] ELSE s[i + 1]
  BY <1>1, <1>2, <1>4
<1>6. QED
  BY <1>3, <1>4, <1>5

(* InsertTailList of an object that is not linked. *)
LEMMA AppendUnlinked ==
    ASSUME NEW S, NEW s \in Seq(S), NEW e \in S, IsInjective(s), e \notin ToSet(s)
    PROVE  IsInjective(Append(s, e)) /\ ToSet(Append(s, e)) = ToSet(s) \cup {e}
<1> DEFINE r == Append(s, e)
<1>1. /\ Len(s) \in Nat
      /\ DOMAIN s = 1..Len(s)
      /\ DOMAIN r = 1..Len(s) + 1
      /\ \A i \in 1..Len(s) : r[i] = s[i]
      /\ r[Len(s) + 1] = e
  OBVIOUS
<1> HIDE DEF r
<1>2. \A i \in 1..Len(s) : s[i] # e
  BY <1>1 DEF ToSet
<1>3. IsInjective(r)
  <2> SUFFICES ASSUME NEW a \in DOMAIN r, NEW b \in DOMAIN r, r[a] = r[b] PROVE a = b
    BY DEF IsInjective
  <2>1. CASE a \in 1..Len(s) /\ b \in 1..Len(s)
    BY <1>1, <2>1 DEF IsInjective
  <2>2. CASE a = Len(s) + 1 \/ b = Len(s) + 1
    BY <1>1, <1>2, <2>2
  <2> QED
    BY <1>1, <2>1, <2>2
<1>4. ToSet(r) = ToSet(s) \cup {e}
  <2>1. ASSUME NEW x \in ToSet(r) PROVE x \in ToSet(s) \cup {e}
    <3>1. PICK i \in 1..Len(s) + 1 : x = r[i]
      BY <1>1, <2>1 DEF ToSet
    <3> QED
      BY <1>1, <3>1 DEF ToSet
  <2>2. ASSUME NEW x \in ToSet(s) PROVE x \in ToSet(r)
    <3>1. PICK i \in 1..Len(s) : x = s[i]
      BY <1>1, <2>2 DEF ToSet
    <3>2. i \in DOMAIN r /\ x = r[i]
      BY <1>1, <3>1
    <3> QED
      BY <3>2 DEF ToSet
  <2>3. e \in ToSet(r)
    <3>1. Len(s) + 1 \in DOMAIN r
      BY <1>1
    <3> QED
      BY <1>1, <3>1 DEF ToSet
  <2> QED
    BY <2>1, <2>2, <2>3
<1> QED
  BY <1>3, <1>4 DEF r

(* RemoveEntryList of a linked entry, in a list that links nothing twice. *)
LEMMA RemoveLinked ==
    ASSUME NEW S, NEW s \in Seq(S), NEW k \in 1..Len(s), IsInjective(s)
    PROVE  IsInjective(RemoveAt(s, k)) /\ ToSet(RemoveAt(s, k)) = ToSet(s) \ {s[k]}
<1> DEFINE r == RemoveAt(s, k)
           Old(i) == IF i < k THEN i ELSE i + 1
<1>1. /\ Len(s) \in Nat
      /\ DOMAIN s = 1..Len(s)
      /\ DOMAIN r = 1..Len(s) - 1
      /\ \A i \in 1..Len(s) - 1 : r[i] = s[Old(i)]
  <2>1. r \in Seq(S) /\ Len(r) = Len(s) - 1
    BY RemoveAtElements
  <2>2. DOMAIN r = 1..Len(s) - 1
    BY <2>1
  <2>3. \A i \in 1..Len(s) - 1 : r[i] = IF i < k THEN s[i] ELSE s[i + 1]
    BY RemoveAtElements
  <2> QED
    BY <2>2, <2>3
<1> HIDE DEF r
<1>2. \A i \in 1..Len(s) - 1 : Old(i) \in 1..Len(s) /\ Old(i) # k
  BY <1>1
<1>3. IsInjective(r)
  <2> SUFFICES ASSUME NEW a \in DOMAIN r, NEW b \in DOMAIN r, r[a] = r[b] PROVE a = b
    BY DEF IsInjective
  <2>1. Old(a) = Old(b)
    BY <1>1, <1>2 DEF IsInjective
  <2> QED
    BY <1>1, <2>1
<1>4. ToSet(r) = ToSet(s) \ {s[k]}
  <2>1. ASSUME NEW x \in ToSet(r) PROVE x \in ToSet(s) \ {s[k]}
    <3>1. PICK i \in 1..Len(s) - 1 : x = s[Old(i)]
      BY <1>1, <2>1 DEF ToSet
    <3>2. Old(i) \in DOMAIN s /\ Old(i) # k
      BY <1>1, <1>2, <3>1
    <3>3. x # s[k]
      BY <1>1, <3>1, <3>2 DEF IsInjective
    <3> QED
      BY <3>1, <3>2, <3>3 DEF ToSet
  <2>2. ASSUME NEW x \in ToSet(s), x # s[k] PROVE x \in ToSet(r)
    <3>1. PICK i \in 1..Len(s) : x = s[i]
      BY <1>1, <2>2 DEF ToSet
    <3>2. CASE i < k
      <4>1. i \in DOMAIN r /\ x = r[i]
        BY <1>1, <3>1, <3>2
      <4> QED
        BY <4>1 DEF ToSet
    <3>3. CASE i > k
      <4>1. i - 1 \in DOMAIN r /\ x = r[i - 1]
        BY <1>1, <3>1, <3>3
      <4> QED
        BY <4>1 DEF ToSet
    <3> QED
      BY <2>2, <3>1, <3>2, <3>3
  <2> QED
    BY <2>1, <2>2
<1> QED
  BY <1>3, <1>4 DEF r

(* RemoveHeadList is the removal of the first entry. *)
LEMMA TailIsRemoveAt ==
    ASSUME NEW S, NEW s \in Seq(S), s # <<>>
    PROVE  Tail(s) = RemoveAt(s, 1) /\ Head(s) = s[1] /\ 1 \in 1..Len(s)
<1>1. Len(s) \in Nat /\ Len(s) # 0
  BY EmptySeq
<1>2. /\ RemoveAt(s, 1) \in Seq(S)
      /\ Len(RemoveAt(s, 1)) = Len(s) - 1
      /\ \A i \in 1..Len(s) - 1 : RemoveAt(s, 1)[i] = s[i + 1]
  BY <1>1, RemoveAtElements
<1>3. /\ Tail(s) \in Seq(S)
      /\ Len(Tail(s)) = Len(s) - 1
      /\ \A i \in 1..Len(s) - 1 : Tail(s)[i] = s[i + 1]
  BY HeadTailProperties
<1>4. Tail(s) = RemoveAt(s, 1)
  BY <1>2, <1>3, SeqEqual
<1> QED
  BY <1>1, <1>4

(* Two elements put at the end together are put there one after the other. *)
LEMMA ConcatTwo ==
    ASSUME NEW S, NEW s \in Seq(S), NEW e \in S, NEW f \in S
    PROVE  s \o <<e, f>> = Append(Append(s, e), f)
<1>1. <<e>> \in Seq(S) /\ <<f>> \in Seq(S)
  OBVIOUS
<1>2. <<e, f>> = <<e>> \o <<f>>
  BY <1>1, AppendIsConcat, <<e, f>> = Append(<<e>>, f)
<1>3. (s \o <<e>>) \o <<f>> = s \o (<<e>> \o <<f>>)
  BY <1>1, ConcatAssociative
<1>4. Append(s, e) \in Seq(S) /\ Append(s, e) = s \o <<e>>
  BY AppendIsConcat, AppendProperties
<1>5. Append(Append(s, e), f) = Append(s, e) \o <<f>>
  BY <1>4, AppendIsConcat
<1> QED
  BY <1>2, <1>3, <1>4, <1>5

(* Lists of one element joined. *)
LEMMA ConcatPair ==
    ASSUME NEW S, NEW a \in S, NEW b \in S
    PROVE  <<a>> \o <<b>> = <<a, b>>
<1>1. <<a>> \in Seq(S) /\ <<b>> \in Seq(S)
  OBVIOUS
<1> QED
  BY <1>1, AppendIsConcat, <<a, b>> = Append(<<a>>, b)

(* Three of them. *)
LEMMA ConcatTriple ==
    ASSUME NEW S, NEW a \in S, NEW b \in S, NEW c \in S
    PROVE  (<<a>> \o <<b>>) \o <<c>> = <<a, b, c>>
<1>1. <<a, b>> \in Seq(S) /\ <<c>> \in Seq(S)
  OBVIOUS
<1>2. <<a, b>> \o <<c>> = <<a, b, c>>
  BY <1>1, AppendIsConcat, <<a, b, c>> = Append(<<a, b>>, c)
<1>3. <<a>> \o <<b>> = <<a, b>>
  BY ConcatPair
<1> QED
  BY <1>2, <1>3

(* RemoveEntryList by entry, not by position: nothing happens when the entry is elsewhere. *)
LEMMA RemoveFirstIs ==
    ASSUME NEW S, NEW s \in Seq(S), IsInjective(s), NEW e
    PROVE  \/ e \notin ToSet(s) /\ RemoveFirst(s, e) = s
           \/ \E k \in 1..Len(s) : s[k] = e /\ RemoveFirst(s, e) = RemoveAt(s, k)
<1>1. CASE \A i \in 1..Len(s) : s[i] # e
  BY <1>1 DEF RemoveFirst, SelectInSeq, ToSet
<1>2. CASE \E i \in 1..Len(s) : s[i] = e
  <2>1. PICK k \in 1..Len(s) : s[k] = e
    BY <1>2
  <2>2. {i \in 1..Len(s) : s[i] = e} = {k}
    BY <2>1 DEF IsInjective
  <2>3. Min({k}) = k
    BY DEF Min
  <2>4. SelectInSeq(s, LAMBDA v : v = e) = k
    BY <2>2, <2>3 DEF SelectInSeq
  <2> QED
    BY <1>2, <2>1, <2>4 DEF RemoveFirst
<1> QED
  BY <1>1, <1>2

(* A bounded set of positions has a last one. *)
LEMMA LastPosition ==
    ASSUME NEW n \in Nat, NEW I \in SUBSET (1..n), I # {}
    PROVE  \E m \in I : \A i \in I : i <= m
<1> DEFINE D == {n - i : i \in I}
<1>1. D \subseteq Nat /\ D # {}
  BY \A i \in I : i \in 1..n /\ n - i \in Nat
<1>2. \E x \in D : \A y \in D : x <= y
  <2> HIDE DEF D
  <2>1. PICK x \in D : \A y \in D : ~(<<y, x>> \in OpToRel(<, Nat))
    BY <1>1, WFMin, NatLessThanWellFounded
  <2>2. \A y \in D : ~(y < x)
    BY <1>1, <2>1 DEF OpToRel
  <2> QED
    BY <1>1, <2>2
<1>3. PICK m \in I : \A y \in D : n - m <= y
  BY <1>2
<1>4. \A i \in I : n - m <= n - i
  BY <1>3
<1> QED
  BY <1>4

(* A timer linked between two entries: what InsertAt does to a sequence, element by element. *)
LEMMA InsertAtElements ==
    ASSUME NEW S, NEW s \in Seq(S), NEW e \in S, NEW k \in 1..Len(s) + 1
    PROVE  /\ InsertAt(s, k, e) \in Seq(S)
           /\ Len(InsertAt(s, k, e)) = Len(s) + 1
           /\ \A i \in 1..Len(s) + 1 :
                InsertAt(s, k, e)[i] =
                    IF i < k THEN s[i] ELSE IF i = k THEN e ELSE s[i - 1]
<1> DEFINE a == SubSeq(s, 1, k - 1)
           b == SubSeq(s, k, Len(s))
           c == <<e>>
           ac == a \o c
<1>1. /\ a \in Seq(S)
      /\ Len(a) = k - 1
      /\ \A i \in 1..k - 1 : a[i] = s[i]
  BY SubSeqProperties, \A i \in 1..k - 1 : s[i] \in S
<1>2. /\ b \in Seq(S)
      /\ Len(b) = Len(s) + 1 - k
      /\ \A i \in 1..Len(s) + 1 - k : b[i] = s[k + i - 1]
  BY SubSeqProperties, \A i \in k..Len(s) : s[i] \in S
<1>3. c \in Seq(S) /\ Len(c) = 1 /\ c[1] = e
  OBVIOUS
<1>4. InsertAt(s, k, e) = ac \o b
  BY DEF InsertAt
<1> HIDE DEF a, b, c
<1>5. /\ ac \in Seq(S)
      /\ Len(ac) = k
      /\ \A i \in 1..k : ac[i] = IF i < k THEN s[i] ELSE e
  <2>1. /\ ac \in Seq(S)
        /\ Len(ac) = Len(a) + Len(c)
        /\ \A i \in 1..Len(a) + Len(c) : ac[i] = IF i <= Len(a) THEN a[i] ELSE c[i - Len(a)]
    BY <1>1, <1>3, ConcatProperties
  <2> QED
    BY <1>1, <1>3, <2>1
<1> HIDE DEF ac
<1>6. /\ ac \o b \in Seq(S)
      /\ Len(ac \o b) = Len(s) + 1
      /\ \A i \in 1..Len(s) + 1 : (ac \o b)[i] = IF i <= k THEN ac[i] ELSE b[i - k]
  BY <1>2, <1>5, ConcatProperties
<1>7. \A i \in 1..Len(s) + 1 :
        (ac \o b)[i] = IF i < k THEN s[i] ELSE IF i = k THEN e ELSE s[i - 1]
  BY <1>2, <1>5, <1>6
<1> QED
  BY <1>4, <1>6, <1>7

(* Insertion of an object that is not linked. *)
LEMMA InsertUnlinked ==
    ASSUME NEW S, NEW s \in Seq(S), NEW e \in S, NEW k \in 1..Len(s) + 1,
           IsInjective(s), e \notin ToSet(s)
    PROVE  IsInjective(InsertAt(s, k, e)) /\ ToSet(InsertAt(s, k, e)) = ToSet(s) \cup {e}
<1> DEFINE r == InsertAt(s, k, e)
           At(i) == IF i < k THEN i ELSE i + 1
<1>1. /\ Len(s) \in Nat
      /\ DOMAIN s = 1..Len(s)
      /\ DOMAIN r = 1..Len(s) + 1
      /\ \A i \in 1..Len(s) + 1 : r[i] = IF i < k THEN s[i] ELSE IF i = k THEN e ELSE s[i - 1]
  <2>1. r \in Seq(S) /\ Len(r) = Len(s) + 1
    BY InsertAtElements
  <2>2. \A i \in 1..Len(s) + 1 : r[i] = IF i < k THEN s[i] ELSE IF i = k THEN e ELSE s[i - 1]
    BY InsertAtElements
  <2> QED
    BY <2>1, <2>2
<1> HIDE DEF r
<1>2. \A i \in 1..Len(s) : s[i] # e
  BY <1>1 DEF ToSet
<1>3. \A i \in 1..Len(s) : At(i) \in DOMAIN r /\ r[At(i)] = s[i]
  BY <1>1
<1>4. k \in DOMAIN r /\ r[k] = e
  BY <1>1
<1>5. \A j \in DOMAIN r : j # k => \E i \in 1..Len(s) : j = At(i)
  <2> TAKE j \in DOMAIN r
  <2>1. CASE j < k
    BY <1>1, <2>1
  <2>2. CASE j > k
    <3>1. j - 1 \in 1..Len(s) /\ j = At(j - 1)
      BY <1>1, <2>2
    <3> QED
      BY <3>1
  <2> QED
    BY <1>1, <2>1, <2>2
<1>6. IsInjective(r)
  <2> SUFFICES ASSUME NEW a \in DOMAIN r, NEW b \in DOMAIN r, r[a] = r[b] PROVE a = b
    BY DEF IsInjective
  <2>1. CASE a = k \/ b = k
    BY <1>2, <1>3, <1>4, <1>5, <2>1
  <2>2. CASE a # k /\ b # k
    <3>1. PICK i \in 1..Len(s) : a = At(i)
      BY <1>5, <2>2
    <3>2. PICK j \in 1..Len(s) : b = At(j)
      BY <1>5, <2>2
    <3>3. s[i] = s[j]
      BY <1>3, <3>1, <3>2
    <3> QED
      BY <1>1, <3>1, <3>2, <3>3 DEF IsInjective
  <2> QED
    BY <2>1, <2>2
<1>7. ToSet(r) = ToSet(s) \cup {e}
  <2>1. ASSUME NEW x \in ToSet(r) PROVE x \in ToSet(s) \cup {e}
    <3>1. PICK j \in DOMAIN r : x = r[j]
      BY DEF ToSet
    <3>2. CASE j = k
      BY <1>4, <3>1, <3>2
    <3>3. CASE j # k
      <4>1. PICK i \in 1..Len(s) : j = At(i)
        BY <1>5, <3>3
      <4>2. x = s[i]
        BY <1>3, <3>1, <4>1
      <4> QED
        BY <1>1, <4>2 DEF ToSet
    <3> QED
      BY <3>2, <3>3
  <2>2. ASSUME NEW x \in ToSet(s) PROVE x \in ToSet(r)
    <3>1. PICK i \in 1..Len(s) : x = s[i]
      BY <1>1 DEF ToSet
    <3> QED
      BY <1>3, <3>1 DEF ToSet
  <2> QED
    BY <1>4, <2>1, <2>2 DEF ToSet
<1> QED
  BY <1>6, <1>7 DEF r

(* RemoveHeadList, in a list that links nothing twice. *)
LEMMA TailLinked ==
    ASSUME NEW S, NEW s \in Seq(S), s # <<>>, IsInjective(s)
    PROVE  /\ Head(s) \in S
           /\ Head(s) \in ToSet(s)
           /\ Tail(s) \in Seq(S)
           /\ IsInjective(Tail(s))
           /\ ToSet(Tail(s)) = ToSet(s) \ {Head(s)}
<1>1. Tail(s) = RemoveAt(s, 1) /\ Head(s) = s[1] /\ 1 \in 1..Len(s)
  BY TailIsRemoveAt
<1>2. IsInjective(Tail(s)) /\ ToSet(Tail(s)) = ToSet(s) \ {Head(s)}
  BY <1>1, RemoveLinked
<1>3. Tail(s) \in Seq(S) /\ Head(s) \in S
  BY HeadTailProperties
<1>4. Head(s) \in ToSet(s)
  BY <1>1 DEF ToSet
<1> QED
  BY <1>2, <1>3, <1>4

-----------------------------------------------------------------------------
(* Counting *)

(* The positions of a list at which an element of S is. *)
Occurs(s, S) == {i \in DOMAIN s : s[i] \in S}

One(b) == IF b THEN 1 ELSE 0

(* They can be counted. *)
LEMMA OccursFinite ==
    ASSUME NEW T, NEW s \in Seq(T), NEW S
    PROVE  IsFiniteSet(Occurs(s, S)) /\ Cardinality(Occurs(s, S)) \in Nat
<1>1. Occurs(s, S) \subseteq 1..Len(s) /\ Len(s) \in Nat
  BY DEF Occurs
<1>2. IsFiniteSet(1..Len(s))
  BY <1>1, FS_Interval
<1>3. IsFiniteSet(Occurs(s, S))
  BY <1>1, <1>2, FS_Subset
<1> QED
  BY <1>3, FS_CardinalityType

(* Two lists joined. *)
LEMMA OccursConcat ==
    ASSUME NEW T, NEW a \in Seq(T), NEW b \in Seq(T), NEW S
    PROVE  Cardinality(Occurs(a \o b, S)) = Cardinality(Occurs(a, S)) + Cardinality(Occurs(b, S))
<1> DEFINE ab == a \o b
           A == Occurs(a, S)
           B == Occurs(b, S)
           C == {i \in Len(a) + 1..Len(a) + Len(b) : i - Len(a) \in B}
           f == [i \in B |-> i + Len(a)]
<1>1. /\ Len(a) \in Nat /\ Len(b) \in Nat
      /\ DOMAIN a = 1..Len(a) /\ DOMAIN b = 1..Len(b)
      /\ DOMAIN ab = 1..Len(a) + Len(b)
      /\ \A i \in 1..Len(a) : ab[i] = a[i]
      /\ \A i \in Len(a) + 1..Len(a) + Len(b) : ab[i] = b[i - Len(a)]
  BY ConcatProperties
<1> HIDE DEF ab
<1>2. Occurs(ab, S) = A \cup C
  <2>1. ASSUME NEW i \in Occurs(ab, S) PROVE i \in A \cup C
    <3>1. i \in 1..Len(a) + Len(b) /\ ab[i] \in S
      BY <1>1 DEF Occurs
    <3>2. CASE i <= Len(a)
      BY <1>1, <3>1, <3>2 DEF Occurs
    <3>3. CASE i > Len(a)
      <4>1. i \in Len(a) + 1..Len(a) + Len(b) /\ i - Len(a) \in DOMAIN b /\ b[i - Len(a)] \in S
        BY <1>1, <3>1, <3>3
      <4> QED
        BY <4>1 DEF Occurs
    <3> QED
      BY <1>1, <3>1, <3>2, <3>3
  <2>2. ASSUME NEW i \in A PROVE i \in Occurs(ab, S)
    BY <1>1 DEF Occurs
  <2>3. ASSUME NEW i \in C PROVE i \in Occurs(ab, S)
    BY <1>1 DEF Occurs
  <2> QED
    BY <2>1, <2>2, <2>3
<1>3. A \cap C = {}
  BY <1>1 DEF Occurs
<1>4. IsFiniteSet(A) /\ IsFiniteSet(B) /\ Cardinality(A) \in Nat /\ Cardinality(B) \in Nat
  BY OccursFinite
<1>5. f \in Bijection(B, C)
  <2>1. \A i \in B : i \in 1..Len(b)
    BY <1>1 DEF Occurs
  <2>2. f \in [B -> C]
    BY <1>1, <2>1
  <2>3. \A i, j \in B : f[i] = f[j] => i = j
    BY <1>1, <2>1
  <2>4. \A k \in C : \E i \in B : f[i] = k
    <3> TAKE k \in C
    <3>1. k - Len(a) \in B /\ f[k - Len(a)] = k
      BY <1>1
    <3> QED
      BY <3>1
  <2> HIDE DEF f, B, C
  <2> QED
    BY <2>2, <2>3, <2>4 DEF Bijection, Injection, Surjection, IsInjective
<1> HIDE DEF A, B, C, f
<1>6. IsFiniteSet(C) /\ Cardinality(C) = Cardinality(B)
  BY <1>4, <1>5, FS_Bijection DEF ExistsBijection
<1>7. Cardinality(A \cup C) = Cardinality(A) + Cardinality(C) - Cardinality(A \cap C)
  BY <1>4, <1>6, FS_Union
<1>8. Cardinality(A \cap C) = 0
  BY <1>3, FS_EmptySet
<1>9. Cardinality(Occurs(ab, S)) = Cardinality(A) + Cardinality(B)
  BY <1>2, <1>4, <1>6, <1>7, <1>8
<1> QED
  BY <1>9 DEF A, B, ab

(* Lists of no element and of one. *)
LEMMA OccursOne ==
    ASSUME NEW S, NEW e
    PROVE  /\ Cardinality(Occurs(<<>>, S)) = 0
           /\ Cardinality(Occurs(<<e>>, S)) = One(e \in S)
<1>1. Occurs(<<>>, S) = {}
  BY DEF Occurs
<1>2. e \in S => Occurs(<<e>>, S) = {1}
  BY DEF Occurs
<1>3. e \notin S => Occurs(<<e>>, S) = {}
  BY DEF Occurs
<1> QED
  BY <1>1, <1>2, <1>3, FS_EmptySet, FS_Singleton DEF One

(* Lists of two elements. *)
LEMMA OccursTwo ==
    ASSUME NEW S, NEW T, NEW e \in T, NEW f \in T
    PROVE  Cardinality(Occurs(<<e, f>>, S)) = One(e \in S) + One(f \in S)
<1>1. <<e>> \in Seq(T) /\ <<f>> \in Seq(T)
  OBVIOUS
<1>2. <<e, f>> = <<e>> \o <<f>>
  BY <1>1, AppendIsConcat, <<e, f>> = Append(<<e>>, f)
<1>3. Cardinality(Occurs(<<e>> \o <<f>>, S))
        = Cardinality(Occurs(<<e>>, S)) + Cardinality(Occurs(<<f>>, S))
  BY <1>1, OccursConcat
<1>4. Cardinality(Occurs(<<e>>, S)) = One(e \in S) /\ Cardinality(Occurs(<<f>>, S)) = One(f \in S)
  BY OccursOne
<1> QED
  BY <1>2, <1>3, <1>4

(* Lists of three. *)
LEMMA OccursThree ==
    ASSUME NEW S, NEW T, NEW e \in T, NEW f \in T, NEW g \in T
    PROVE  Cardinality(Occurs(<<e, f, g>>, S)) = One(e \in S) + One(f \in S) + One(g \in S)
<1> DEFINE a == <<e>>
           b == <<f, g>>
           c == <<e, f, g>>
<1>1. a \in Seq(T) /\ b \in Seq(T) /\ c = a \o b
  OBVIOUS
<1>2. Cardinality(Occurs(a, S)) = One(e \in S)
  BY OccursOne
<1>3. Cardinality(Occurs(b, S)) = One(f \in S) + One(g \in S)
  BY OccursTwo
<1> HIDE DEF a, b, c
<1>4. Cardinality(Occurs(a \o b, S)) = Cardinality(Occurs(a, S)) + Cardinality(Occurs(b, S))
  BY <1>1, OccursConcat
<1>5. One(e \in S) \in Nat /\ One(f \in S) \in Nat /\ One(g \in S) \in Nat
  BY DEF One
<1>6. Cardinality(Occurs(c, S)) = One(e \in S) + One(f \in S) + One(g \in S)
  BY <1>1, <1>2, <1>3, <1>4, <1>5
<1> QED
  BY <1>6 DEF c

(* A list without its first element. *)
LEMMA OccursTail ==
    ASSUME NEW T, NEW s \in Seq(T), s # <<>>, NEW S
    PROVE  Cardinality(Occurs(s, S)) = One(Head(s) \in S) + Cardinality(Occurs(Tail(s), S))
<1>1. Head(s) \in T /\ Tail(s) \in Seq(T) /\ <<Head(s)>> \in Seq(T)
  BY HeadTailProperties
<1>2. s = <<Head(s)>> \o Tail(s)
  OBVIOUS
<1>3. Cardinality(Occurs(<<Head(s)>>, S)) = One(Head(s) \in S)
  BY OccursOne
<1>4. Cardinality(Occurs(<<Head(s)>> \o Tail(s), S))
        = Cardinality(Occurs(<<Head(s)>>, S)) + Cardinality(Occurs(Tail(s), S))
  BY <1>1, OccursConcat
<1> QED
  BY <1>2, <1>3, <1>4

(* Elements of several sets, each with the name of its set. *)
Tagged(T, F) == UNION {{u} \X F[u] : u \in T}

(* Finitely many finite sets have finitely many elements. *)
LEMMA TaggedFinite ==
    ASSUME NEW T, IsFiniteSet(T), NEW F, \A u \in T : IsFiniteSet(F[u])
    PROVE  IsFiniteSet(Tagged(T, F)) /\ Cardinality(Tagged(T, F)) \in Nat
<1> DEFINE f == [u \in T |-> {u} \X F[u]]
           R == {{u} \X F[u] : u \in T}
<1>1. f \in Surjection(T, R)
  BY DEF Surjection
<1>2. IsFiniteSet(R)
  BY <1>1, FS_Surjection
<1>3. \A u \in T : IsFiniteSet({u} \X F[u])
  BY FS_Singleton, FS_Product
<1>4. IsFiniteSet(UNION R)
  BY <1>2, <1>3, FS_UNION
<1> QED
  BY <1>4, FS_CardinalityType DEF Tagged

(* One of the sets changes: the count of all changes by as much. *)
LEMMA TaggedChange ==
    ASSUME NEW T, IsFiniteSet(T), NEW F, NEW G, NEW t \in T,
           \A u \in T : IsFiniteSet(F[u]) /\ IsFiniteSet(G[u]),
           \A u \in T \ {t} : G[u] = F[u]
    PROVE  Cardinality(Tagged(T, G)) + Cardinality(F[t])
              = Cardinality(Tagged(T, F)) + Cardinality(G[t])
<1> DEFINE U == T \ {t}
           R == Tagged(U, F)
<1>1. IsFiniteSet(U)
  BY FS_Difference
<1>2. IsFiniteSet(R) /\ Cardinality(R) \in Nat
  BY <1>1, TaggedFinite
<1>3. ASSUME NEW H, IsFiniteSet(H[t]), \A u \in U : H[u] = F[u]
      PROVE  Cardinality(Tagged(T, H)) = Cardinality(R) + Cardinality(H[t])
  <2>1. IsFiniteSet({t} \X H[t]) /\ Cardinality({t} \X H[t]) = Cardinality(H[t])
    <3>1. IsFiniteSet({t}) /\ Cardinality({t}) = 1
      BY FS_Singleton
    <3>2. Cardinality({t} \X H[t]) = 1 * Cardinality(H[t]) /\ IsFiniteSet({t} \X H[t])
      <4> DEFINE X == {t}
                 Y == H[t]
      <4>1. IsFiniteSet(X) /\ Cardinality(X) = 1 /\ IsFiniteSet(Y)
        BY <1>3, <3>1
      <4> HIDE DEF X, Y
      <4>2. IsFiniteSet(X \X Y) /\ Cardinality(X \X Y) = Cardinality(X) * Cardinality(Y)
        BY <4>1, FS_Product
      <4> QED
        BY <4>1, <4>2 DEF X, Y
    <3>3. Cardinality(H[t]) \in Nat
      BY <1>3, FS_CardinalityType
    <3> QED
      BY <3>2, <3>3
  <2>2. Tagged(T, H) = R \cup ({t} \X H[t])
    BY <1>3 DEF Tagged
  <2>3. R \cap ({t} \X H[t]) = {}
    BY DEF Tagged
  <2> HIDE DEF R
  <2>4. Cardinality(R \cup ({t} \X H[t]))
          = Cardinality(R) + Cardinality({t} \X H[t]) - Cardinality(R \cap ({t} \X H[t]))
    BY <1>2, <2>1, FS_Union
  <2>5. Cardinality(H[t]) \in Nat
    BY <1>3, FS_CardinalityType
  <2>6. Cardinality(R \cap ({t} \X H[t])) = 0
    BY <2>3, FS_EmptySet
  <2> QED
    BY <1>2, <2>1, <2>2, <2>4, <2>5, <2>6
<1>4. Cardinality(F[t]) \in Nat /\ Cardinality(G[t]) \in Nat
  BY FS_CardinalityType
<1>5. Cardinality(Tagged(T, F)) = Cardinality(R) + Cardinality(F[t])
  BY <1>3
<1>6. Cardinality(Tagged(T, G)) = Cardinality(R) + Cardinality(G[t])
  BY <1>3
<1> QED
  BY <1>2, <1>4, <1>5, <1>6

(* Where a function takes the value x. *)
Takes(D, f, x) == {c \in D : f[c] = x}

(* Functions on D that differ at k only. *)
ChangesAt(D, f, g, k) == k \in D /\ \A c \in D \ {k} : g[c] = f[c]

(* That can be counted. *)
LEMMA TakesFinite ==
    ASSUME NEW D, IsFiniteSet(D), NEW f, NEW x
    PROVE  Cardinality(Takes(D, f, x)) \in Nat
<1>1. Takes(D, f, x) \subseteq D
  BY DEF Takes
<1>2. IsFiniteSet(Takes(D, f, x))
  BY <1>1, FS_Subset
<1> QED
  BY <1>2, FS_CardinalityType

(* A function changes at one argument: how often it takes the value x. *)
LEMMA ValueChange ==
    ASSUME NEW D, IsFiniteSet(D), NEW f, NEW g, NEW k, ChangesAt(D, f, g, k), NEW x
    PROVE  Cardinality(Takes(D, g, x)) + One(f[k] = x)
              = Cardinality(Takes(D, f, x)) + One(g[k] = x)
<1> USE DEF ChangesAt
<1> DEFINE R == {c \in D \ {k} : f[c] = x}
<1>1. IsFiniteSet(R)
  BY FS_Subset
<1>2. Cardinality(R) \in Nat /\ k \notin R
  BY <1>1, FS_CardinalityType
<1>3. ASSUME NEW h, \A c \in D \ {k} : h[c] = f[c]
      PROVE  Cardinality(Takes(D, h, x)) = Cardinality(R) + One(h[k] = x)
  <2>1. CASE h[k] = x
    <3>1. Takes(D, h, x) = R \cup {k}
      BY <1>3, <2>1 DEF Takes
    <3> HIDE DEF R
    <3> QED
      BY <1>1, <1>2, <2>1, <3>1, FS_AddElement DEF One
  <2>2. CASE h[k] # x
    <3>1. Takes(D, h, x) = R
      BY <1>3, <2>2 DEF Takes
    <3> HIDE DEF R
    <3> QED
      BY <1>2, <2>2, <3>1 DEF One
  <2> QED
    BY <2>1, <2>2
<1> HIDE DEF R
<1>4. Cardinality(Takes(D, f, x)) = Cardinality(R) + One(f[k] = x)
  BY <1>3
<1>5. Cardinality(Takes(D, g, x)) = Cardinality(R) + One(g[k] = x)
  BY <1>3
<1> QED
  BY <1>2, <1>4, <1>5 DEF One

=============================================================================
