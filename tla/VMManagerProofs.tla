--------------------------- MODULE VMManagerProofs --------------------------
(***************************************************************************)
(* Theorems about VMManager: what constructing and destructing areas does, *)
(* the inductive invariant behind its safety properties, and that a caller *)
(* is left without a page only by page tables made in the same call.       *)
(***************************************************************************)
EXTENDS VMPagesProofs

(* Areas that cut a run of virtual pages into pieces, of which free ones are merged. *)
TiledSet(X, R) ==
    /\ R = UNION {Covered(a) : a \in X}
    /\ \A a, b \in X : a # b =>
           /\ VmaEnd(a) < b.base \/ VmaEnd(b) < a.base
           /\ VmaEnd(a) + 1 = b.base => "Free" \notin {a.type} \cap {b.type}

(* The areas of a set that are not free. *)
InUse(X) == {a \in X : a.type # "Free"}

(* The pages of areas that are not free. *)
UsedCover(X) == UNION {Covered(a) : a \in InUse(X)}

(* Numbers about an area. *)
LEMMA AreaIs ==
    ASSUME NEW a \in Areas
    PROVE  /\ a.base \in Virtual /\ a.base \in Nat /\ a.size \in Nat \ {0} /\ VmaEnd(a) \in Nat
           /\ a.type \in {"Free", "Reserved", "Allocated"}
           /\ a.base <= VmaEnd(a) /\ VmaEnd(a) = a.base + a.size - 1
           /\ a.base \in Covered(a) /\ VmaEnd(a) \in Covered(a)
           /\ \A u : u \in Covered(a) <=> u \in Nat /\ a.base <= u /\ u <= VmaEnd(a)
<1>1. a.base \in Virtual /\ a.size \in Nat \ {0} /\ a.type \in {"Free", "Reserved", "Allocated"}
  BY DEF Areas
<1>2. a.base \in Nat
  BY <1>1, VirtualIs
<1> QED
  BY <1>1, <1>2 DEF VmaEnd, Covered

(* An area made of numbers that fit. *)
LEMMA VmaIs ==
    ASSUME NEW base \in Virtual, NEW size \in Int, size > 0, NEW type \in {"Free", "Reserved", "Allocated"}
    PROVE  LET a == Vma(base, size, type)
           IN  /\ a \in Areas /\ a.base = base /\ a.size = size /\ a.type = type
               /\ VmaEnd(a) = base + size - 1 /\ Covered(a) = base..base + size - 1
<1>1. base \in Nat /\ size \in Nat \ {0}
  BY VirtualIs
<1> QED
  BY <1>1 DEF Vma, Areas, VmaEnd, Covered

(* Areas that share no page lie one after the other. *)
LEMMA ApartIs ==
    ASSUME NEW a \in Areas, NEW b \in Areas
    PROVE  (VmaEnd(a) < b.base \/ VmaEnd(b) < a.base) <=> Covered(a) \cap Covered(b) = {}
<1>1. /\ a.base \in Nat /\ b.base \in Nat /\ VmaEnd(a) \in Nat /\ VmaEnd(b) \in Nat
      /\ a.base <= VmaEnd(a) /\ b.base <= VmaEnd(b)
      /\ \A u : u \in Covered(a) <=> u \in Nat /\ a.base <= u /\ u <= VmaEnd(a)
      /\ \A u : u \in Covered(b) <=> u \in Nat /\ b.base <= u /\ u <= VmaEnd(b)
  BY AreaIs
<1>2. ASSUME VmaEnd(a) < b.base \/ VmaEnd(b) < a.base PROVE Covered(a) \cap Covered(b) = {}
  BY <1>1, <1>2
<1>3. ASSUME Covered(a) \cap Covered(b) = {} PROVE VmaEnd(a) < b.base \/ VmaEnd(b) < a.base
  <2>1. a.base \notin Covered(b) \/ a.base \notin Covered(a)
    BY <1>3
  <2>2. b.base \notin Covered(a) \/ b.base \notin Covered(b)
    BY <1>3
  <2> QED
    BY <1>1, <2>1, <2>2
<1> QED
  BY <1>2, <1>3

(* The smallest and the largest of some numbers. *)
LEMMA MinMaxIs ==
    ASSUME NEW S, S \subseteq Int, NEW x \in S
    PROVE  /\ (\A s \in S : x <= s) => Min(S) = x
           /\ (\A s \in S : s <= x) => Max(S) = x
<1>1. ASSUME \A s \in S : x <= s PROVE Min(S) = x
  <2>1. \A y \in S : (\A s \in S : y <= s) => y = x
    <3> SUFFICES ASSUME NEW y \in S, \A s \in S : y <= s PROVE y = x
      OBVIOUS
    <3>1. y <= x /\ x <= y /\ x \in Int /\ y \in Int
      BY <1>1
    <3> QED
      BY <3>1
  <2> QED
    BY <1>1, <2>1 DEF Min
<1>2. ASSUME \A s \in S : s <= x PROVE Max(S) = x
  <2>1. \A s \in S : x >= s
    <3> TAKE s \in S
    <3>1. s <= x /\ x \in Int /\ s \in Int
      BY <1>2
    <3> QED
      BY <3>1
  <2>2. \A y \in S : (\A s \in S : y >= s) => y = x
    <3> SUFFICES ASSUME NEW y \in S, \A s \in S : y >= s PROVE y = x
      OBVIOUS
    <3>1. y >= x /\ x >= y /\ x \in Int /\ y \in Int
      BY <2>1
    <3> QED
      BY <3>1
  <2> QED
    BY <2>1, <2>2 DEF Max
<1> QED
  BY <1>1, <1>2

(* The pages of an area are in no other. *)
LEMMA OneArea ==
    ASSUME NEW X \in SUBSET Areas, NEW R, TiledSet(X, R), NEW a \in X, NEW b \in X, a # b
    PROVE  Covered(a) \cap Covered(b) = {}
BY ApartIs DEF TiledSet

(* GetVMAIterator finds the area around a page. *)
LEMMA GetVMAIs ==
    ASSUME NEW m, NEW r, m.vma[r] \in SUBSET Areas, NEW R, TiledSet(m.vma[r], R),
           NEW a \in m.vma[r], NEW v \in Covered(a)
    PROVE  GetVMA(m, r, v) = a
<1> DEFINE X == m.vma[r]
           P(c) == c.base <= v /\ \A b \in X : b.base <= v => b.base <= c.base
<1>1. /\ a \in Areas /\ v \in Nat /\ a.base \in Nat /\ a.base <= v /\ v <= VmaEnd(a) /\ VmaEnd(a) \in Nat
  BY AreaIs
<1>2. ASSUME NEW b \in X, b # a, b.base <= v PROVE b.base < a.base
  <2>1. b.base \in Nat /\ VmaEnd(b) \in Nat /\ b.base <= VmaEnd(b)
    BY AreaIs
  <2>2. VmaEnd(a) < b.base \/ VmaEnd(b) < a.base
    BY <1>2 DEF TiledSet
  <2> QED
    BY <1>1, <1>2, <2>1, <2>2
<1>3. P(a)
  <2>1. \A b \in X : b.base <= v => b.base <= a.base
    <3> SUFFICES ASSUME NEW b \in X, b.base <= v PROVE b.base <= a.base
      OBVIOUS
    <3>1. b = a \/ b.base < a.base
      BY <1>2
    <3>2. b.base \in Nat
      BY AreaIs
    <3> QED
      BY <1>1, <3>1, <3>2
  <2> QED
    BY <1>1, <2>1
<1>4. ASSUME NEW c \in X, P(c) PROVE c = a
  <2>1. c.base \in Nat /\ a.base <= c.base /\ c.base <= v
    BY <1>1, <1>4, AreaIs
  <2> QED
    BY <1>1, <1>2, <2>1
<1>5. GetVMA(m, r, v) = CHOOSE c \in X : P(c)
  BY DEF GetVMA
<1> HIDE DEF P
<1>6. a \in X
  OBVIOUS
<1> QED
  BY <1>3, <1>4, <1>5, <1>6

(* Some areas are replaced by others that cover the same pages. *)
LEMMA ReplaceAreas ==
    ASSUME NEW X \in SUBSET Areas, NEW R, TiledSet(X, R), NEW Y \in SUBSET X, NEW Z \in SUBSET Areas,
           UNION {Covered(a) : a \in Y} = UNION {Covered(a) : a \in Z},
           \A a, b \in Z : a # b =>
               /\ Covered(a) \cap Covered(b) = {}
               /\ VmaEnd(a) + 1 = b.base => "Free" \notin {a.type} \cap {b.type},
           \A a \in X \ Y, z \in Z : a.type = "Free" /\ z.type = "Free" =>
               VmaEnd(a) + 1 # z.base /\ VmaEnd(z) + 1 # a.base
    PROVE  (X \ Y) \cup Z \in SUBSET Areas /\ TiledSet((X \ Y) \cup Z, R)
<1> DEFINE W == (X \ Y) \cup Z
<1>1. W \in SUBSET Areas
  OBVIOUS
<1>2. R = UNION {Covered(a) : a \in W}
  <2>1. R = UNION {Covered(a) : a \in X}
    BY DEF TiledSet
  <2>2. \A u : u \in R <=> (\E a \in X \ Y : u \in Covered(a)) \/ (\E a \in Y : u \in Covered(a))
    BY <2>1
  <2>3. \A u : (\E a \in Y : u \in Covered(a)) <=> (\E a \in Z : u \in Covered(a))
    OBVIOUS
  <2>4. \A u : u \in R <=> \E a \in W : u \in Covered(a)
    BY <2>2, <2>3
  <2> HIDE DEF W
  <2> QED
    BY <2>4
<1>3. ASSUME NEW a \in X \ Y, NEW z \in Z PROVE Covered(a) \cap Covered(z) = {}
  <2> SUFFICES ASSUME NEW u \in Covered(a), u \in Covered(z) PROVE FALSE
    OBVIOUS
  <2>1. u \in UNION {Covered(b) : b \in Y}
    OBVIOUS
  <2>2. PICK b \in Y : u \in Covered(b)
    BY <2>1
  <2> QED
    BY <2>2, OneArea
<1>4. ASSUME NEW a \in W, NEW b \in W, a # b
      PROVE  /\ VmaEnd(a) < b.base \/ VmaEnd(b) < a.base
             /\ VmaEnd(a) + 1 = b.base => "Free" \notin {a.type} \cap {b.type}
  <2>1. CASE a \in X \ Y /\ b \in X \ Y
    BY <1>4, <2>1 DEF TiledSet
  <2>2. CASE a \in Z /\ b \in Z
    BY <1>4, <2>2, ApartIs
  <2>3. CASE a \in X \ Y /\ b \in Z
    <3>1. VmaEnd(a) < b.base \/ VmaEnd(b) < a.base
      BY <1>3, <2>3, ApartIs
    <3> QED
      BY <2>3, <3>1
  <2>4. CASE a \in Z /\ b \in X \ Y
    <3>1. VmaEnd(b) < a.base \/ VmaEnd(a) < b.base
      BY <1>3, <2>4, ApartIs
    <3> QED
      BY <2>4, <3>1
  <2> QED
    BY <2>1, <2>2, <2>3, <2>4
<1> QED
  BY <1>1, <1>2, <1>4 DEF TiledSet

(* The areas after n pages from base in the free area old have got a type. *)
Constructed(X, old, base, n, type) ==
    (X \ {old}) \cup Sized({
        Vma(old.base, base - old.base, "Free"),
        Vma(base, n, type),
        Vma(base + n, VmaEnd(old) - base - n + 1, "Free")})

(* ConstructVMA on the set of areas. *)
LEMMA ConstructAreas ==
    ASSUME NEW X \in SUBSET Areas, NEW R \in SUBSET Virtual, TiledSet(X, R), NEW old \in X, old.type = "Free",
           NEW base \in Nat, NEW n \in Nat \ {0}, base..base + n - 1 \subseteq Covered(old),
           NEW type \in {"Reserved", "Allocated"}
    PROVE  LET W == Constructed(X, old, base, n, type)
           IN  /\ W \in SUBSET Areas /\ TiledSet(W, R)
               /\ InUse(W) = InUse(X) \cup {Vma(base, n, type)}
               /\ \A a \in W : a.type = "Free" =>
                     \/ a \in X
                     \/ /\ Covered(a) \subseteq Covered(old) /\ Covered(a) \cap base..base + n - 1 = {}
                        /\ VmaEnd(a) = VmaEnd(old) \/ VmaEnd(a) + 1 = base
<1> DEFINE b == old.base
           e == VmaEnd(old)
           z1 == Vma(b, base - b, "Free")
           z2 == Vma(base, n, type)
           z3 == Vma(base + n, e - base - n + 1, "Free")
           Z == Sized({z1, z2, z3})
           W == (X \ {old}) \cup Z
<1>1. /\ b \in Nat /\ e \in Nat /\ b \in Virtual /\ b <= base /\ base + n - 1 <= e
      /\ \A u : u \in Covered(old) <=> u \in Nat /\ b <= u /\ u <= e
  <2>1. /\ b \in Nat /\ e \in Nat /\ b \in Virtual
        /\ \A u : u \in Covered(old) <=> u \in Nat /\ b <= u /\ u <= e
    BY AreaIs
  <2>2. base \in Covered(old) /\ base + n - 1 \in Covered(old)
    <3>1. base \in base..base + n - 1 /\ base + n - 1 \in base..base + n - 1
      OBVIOUS
    <3> QED
      BY <3>1
  <2> QED
    BY <2>1, <2>2
<1>2. \A u \in Covered(old) : u \in Virtual
  BY DEF TiledSet
<1>3. base \in Virtual
  BY <1>1, <1>2
<1>4. /\ z2 \in Areas /\ z2.base = base /\ z2.size = n /\ z2.type = type
      /\ VmaEnd(z2) = base + n - 1 /\ Covered(z2) = base..base + n - 1
  <2>1. n \in Int /\ n > 0 /\ type \in {"Free", "Reserved", "Allocated"}
    OBVIOUS
  <2> QED
    BY <1>3, <2>1, VmaIs
<1>5. z1.size = base - b /\ z3.size = e - base - n + 1 /\ z2.size = n
  BY DEF Vma
<1>6. ASSUME b < base
      PROVE  /\ z1 \in Areas /\ z1.base = b /\ z1.type = "Free"
             /\ VmaEnd(z1) = base - 1 /\ Covered(z1) = b..base - 1
  <2> DEFINE k == base - b
  <2>1. k \in Int /\ k > 0 /\ b + k - 1 = base - 1 /\ "Free" \in {"Free", "Reserved", "Allocated"}
    BY <1>1, <1>6
  <2> HIDE DEF k
  <2>2. LET a == Vma(b, k, "Free")
        IN  a \in Areas /\ a.base = b /\ a.type = "Free" /\ VmaEnd(a) = b + k - 1 /\ Covered(a) = b..b + k - 1
    BY <1>1, <2>1, VmaIs
  <2> QED
    BY <2>1, <2>2 DEF k
<1>7. ASSUME base + n <= e
      PROVE  /\ z3 \in Areas /\ z3.base = base + n /\ z3.type = "Free"
             /\ VmaEnd(z3) = e /\ Covered(z3) = base + n..e
  <2> DEFINE k == e - base - n + 1
             c == base + n
  <2>1. k \in Int /\ k > 0 /\ c + k - 1 = e /\ c \in Covered(old) /\ "Free" \in {"Free", "Reserved", "Allocated"}
    BY <1>1, <1>7
  <2>2. c \in Virtual
    BY <1>2, <2>1
  <2> HIDE DEF k, c
  <2>3. LET a == Vma(c, k, "Free")
        IN  a \in Areas /\ a.base = c /\ a.type = "Free" /\ VmaEnd(a) = c + k - 1 /\ Covered(a) = c..c + k - 1
    BY <2>1, <2>2, VmaIs
  <2> QED
    BY <2>1, <2>3 DEF k, c
<1> DEFINE z1In == z1 \in Z
           z3In == z3 \in Z
<1>8. \A a \in Z : a = z2 \/ (a = z1 /\ b < base) \/ (a = z3 /\ base + n <= e)
  <2> SUFFICES ASSUME NEW a \in {z1, z2, z3}, a.size > 0
               PROVE  a = z2 \/ (a = z1 /\ b < base) \/ (a = z3 /\ base + n <= e)
    BY DEF Sized
  <2> HIDE DEF z1, z2, z3
  <2>1. a = z1 => b < base
    BY <1>1, <1>5
  <2>2. a = z3 => base + n <= e
    BY <1>1, <1>5
  <2> QED
    BY <2>1, <2>2
<1>9. z2 \in Z /\ (b < base => z1 \in Z) /\ (base + n <= e => z3 \in Z)
  <2>1. z2.size > 0 /\ (b < base => z1.size > 0) /\ (base + n <= e => z3.size > 0)
    BY <1>1, <1>5
  <2> HIDE DEF z1, z2, z3
  <2> QED
    BY <2>1 DEF Sized
<1> HIDE DEF z1, z2, z3, Z, b, e
<1>10. Z \in SUBSET Areas
  BY <1>4, <1>6, <1>7, <1>8
<1>11. UNION {Covered(a) : a \in {old}} = UNION {Covered(a) : a \in Z}
  <2>1. \A a \in Z : Covered(a) \subseteq Covered(old)
    <3> SUFFICES ASSUME NEW a \in Z, NEW u \in Covered(a) PROVE u \in Covered(old)
      OBVIOUS
    <3>1. CASE a = z2
      BY <1>4, <3>1
    <3>2. CASE a = z1 /\ b < base
      BY <1>1, <1>6, <3>2
    <3>3. CASE a = z3 /\ base + n <= e
      BY <1>1, <1>7, <3>3
    <3> QED
      BY <1>8, <3>1, <3>2, <3>3
  <2>2. \A u \in Covered(old) : \E a \in Z : u \in Covered(a)
    <3> TAKE u \in Covered(old)
    <3>1. u \in Nat /\ b <= u /\ u <= e
      BY <1>1
    <3>2. CASE u < base
      <4>1. b < base /\ u \in b..base - 1
        BY <1>1, <3>1, <3>2
      <4> QED
        BY <1>6, <1>9, <4>1
    <3>3. CASE base <= u /\ u <= base + n - 1
      <4>1. u \in base..base + n - 1
        BY <3>1, <3>3
      <4> QED
        BY <1>4, <1>9, <4>1
    <3>4. CASE base + n <= u
      <4>1. base + n <= e /\ u \in base + n..e
        BY <1>1, <3>1, <3>4
      <4> QED
        BY <1>7, <1>9, <4>1
    <3> QED
      BY <3>1, <3>2, <3>3, <3>4
  <2> QED
    BY <2>1, <2>2
<1>12. ASSUME NEW a \in Z, NEW c \in Z, a # c
       PROVE  /\ Covered(a) \cap Covered(c) = {}
              /\ VmaEnd(a) + 1 = c.base => "Free" \notin {a.type} \cap {c.type}
  <2>1. type # "Free"
    OBVIOUS
  <2>2. CASE a = z2
    <3>1. (c = z1 /\ b < base) \/ (c = z3 /\ base + n <= e)
      BY <1>8, <1>12, <2>2
    <3> QED
      BY <1>1, <1>4, <1>6, <1>7, <2>1, <2>2, <3>1
  <2>3. CASE a = z1 /\ b < base
    <3>1. c = z2 \/ (c = z3 /\ base + n <= e)
      BY <1>8, <1>12, <2>3
    <3>2. base < base + n /\ b \in Nat /\ e \in Nat
      BY <1>1
    <3> QED
      BY <1>1, <1>4, <1>6, <1>7, <2>1, <2>3, <3>1, <3>2
  <2>4. CASE a = z3 /\ base + n <= e
    <3>1. c = z2 \/ (c = z1 /\ b < base)
      BY <1>8, <1>12, <2>4
    <3> QED
      BY <1>1, <1>4, <1>6, <1>7, <2>1, <2>4, <3>1
  <2> QED
    BY <1>8, <2>2, <2>3, <2>4
<1>13. ASSUME NEW a \in X \ {old}, NEW z \in Z, a.type = "Free", z.type = "Free"
       PROVE  VmaEnd(a) + 1 # z.base /\ VmaEnd(z) + 1 # a.base
  <2>1. a.base \in Nat /\ VmaEnd(a) \in Nat /\ VmaEnd(a) + 1 # b /\ e + 1 # a.base
    <3>1. a.base \in Nat /\ VmaEnd(a) \in Nat
      BY AreaIs
    <3>2. VmaEnd(a) + 1 # old.base /\ VmaEnd(old) + 1 # a.base
      BY <1>13 DEF TiledSet
    <3> QED
      BY <3>1, <3>2 DEF b, e
  <2>2. Covered(a) \cap Covered(old) = {} /\ a.base \in Covered(a) /\ VmaEnd(a) \in Covered(a)
    BY OneArea, AreaIs
  <2>3. z # z2
    BY <1>4, <1>13
  <2>4. CASE z = z1 /\ b < base
    <3>1. base \in Covered(old)
      BY <1>1
    <3>2. a.base # base
      BY <2>2, <3>1
    <3> QED
      BY <1>1, <1>6, <2>1, <2>4, <3>2
  <2>5. CASE z = z3 /\ base + n <= e
    <3>1. base + n - 1 \in Covered(old)
      BY <1>1
    <3>2. VmaEnd(a) # base + n - 1
      BY <2>2, <3>1
    <3> QED
      BY <1>1, <1>7, <2>1, <2>5, <3>2
  <2> QED
    BY <1>8, <2>3, <2>4, <2>5
<1>14. W \in SUBSET Areas /\ TiledSet(W, R)
  <2>1. {old} \in SUBSET X
    OBVIOUS
  <2> QED
    BY <1>10, <1>11, <1>12, <1>13, <2>1, ReplaceAreas
<1>15. InUse(W) = InUse(X) \cup {z2}
  <2>1. \A a \in Z : a.type # "Free" <=> a = z2
    BY <1>4, <1>6, <1>7, <1>8
  <2> QED
    BY <1>9, <2>1 DEF InUse
<1>16. ASSUME NEW a \in W, a.type = "Free", a \notin X
       PROVE  /\ Covered(a) \subseteq Covered(old) /\ Covered(a) \cap base..base + n - 1 = {}
              /\ VmaEnd(a) = e \/ VmaEnd(a) + 1 = base
  <2>1. a \in Z /\ a # z2
    BY <1>4, <1>16
  <2>2. CASE a = z1 /\ b < base
    BY <1>1, <1>6, <2>2
  <2>3. CASE a = z3 /\ base + n <= e
    BY <1>1, <1>7, <2>3
  <2> QED
    BY <1>8, <2>1, <2>2, <2>3
<1>17. W = Constructed(X, old, base, n, type)
  BY DEF Constructed, Z, z1, z2, z3, b, e
<1> HIDE DEF W
<1> QED
  BY <1>14, <1>15, <1>16, <1>17 DEF z2, e

(* The free areas next to n pages from base. *)
Near(X, base, n) == {a \in X : a.type = "Free" /\ (VmaEnd(a) + 1 = base \/ a.base = base + n)}

(* What is left of the area old around n pages from base. *)
Rest(old, base, n) ==
    Sized({Vma(old.base, base - old.base, old.type),
           Vma(base + n, VmaEnd(old) - base - n + 1, old.type)})

Lowest(X, base, n) == Min({base} \cup {a.base : a \in Near(X, base, n)})

Highest(X, base, n) == Max({base + n - 1} \cup {VmaEnd(a) : a \in Near(X, base, n)})

(* The area that DestructVMA makes. *)
Merged(X, base, n) ==
    Vma(Lowest(X, base, n), Highest(X, base, n) - Lowest(X, base, n) + 1, "Free")

(* The areas after n pages from base in the area old have become free. *)
Destructed(X, old, base, n) ==
    (X \ ({old} \cup Near(X, base, n))) \cup (Rest(old, base, n) \cup {Merged(X, base, n)})

(* The free areas on the left, of which there is at most one, say where the new one starts.   *)
LEMMA LowestIs ==
    ASSUME NEW X \in SUBSET Areas, NEW R, TiledSet(X, R), NEW base \in Virtual, NEW n \in Nat \ {0}
    PROVE  \/ /\ Lowest(X, base, n) = base
              /\ \A a \in Near(X, base, n) : VmaEnd(a) + 1 # base
           \/ \E a \in Near(X, base, n) :
                 /\ VmaEnd(a) + 1 = base /\ Lowest(X, base, n) = a.base
                 /\ \A c \in Near(X, base, n) : VmaEnd(c) + 1 = base => c = a
<1> DEFINE N == Near(X, base, n)
           S == {base} \cup {a.base : a \in N}
<1>0. base \in Nat
  BY VirtualIs
<1>1. \A a \in N : a \in X /\ a.base \in Nat /\ VmaEnd(a) \in Nat /\ a.base <= VmaEnd(a)
                   /\ (VmaEnd(a) + 1 = base \/ a.base = base + n)
  BY AreaIs DEF Near
<1>2. S \subseteq Int
  BY <1>0, <1>1
<1>3. \A a, c \in N : VmaEnd(a) + 1 = base /\ VmaEnd(c) + 1 = base => a = c
  <2> SUFFICES ASSUME NEW a \in N, NEW c \in N, VmaEnd(a) + 1 = base, VmaEnd(c) + 1 = base, a # c PROVE FALSE
    OBVIOUS
  <2>1. VmaEnd(a) < c.base \/ VmaEnd(c) < a.base
    BY <1>1 DEF TiledSet
  <2> QED
    BY <1>1, <2>1
<1>4. Lowest(X, base, n) = Min(S)
  BY DEF Lowest
<1>5. CASE \E a \in N : VmaEnd(a) + 1 = base
  <2>1. PICK a \in N : VmaEnd(a) + 1 = base
    BY <1>5
  <2>2. \A c \in N : a.base <= c.base
    <3> TAKE c \in N
    <3>1. c = a \/ c.base = base + n
      BY <1>1, <1>3, <2>1
    <3> QED
      BY <1>0, <1>1, <2>1, <3>1
  <2>3. a.base \in S /\ \A s \in S : a.base <= s
    BY <1>0, <1>1, <2>1, <2>2
  <2> HIDE DEF S, N
  <2>4. Min(S) = a.base
    BY <1>2, <2>3, MinMaxIs
  <2> QED
    BY <1>3, <1>4, <2>1, <2>4 DEF N
<1>6. CASE \A a \in N : VmaEnd(a) + 1 # base
  <2>1. base \in S /\ \A s \in S : base <= s
    BY <1>0, <1>1, <1>6
  <2> HIDE DEF S, N
  <2>2. Min(S) = base
    BY <1>2, <2>1, MinMaxIs
  <2> QED
    BY <1>4, <1>6, <2>2 DEF N
<1> QED
  BY <1>5, <1>6

(* The free areas on the right say where it ends. *)
LEMMA HighestIs ==
    ASSUME NEW X \in SUBSET Areas, NEW R, TiledSet(X, R), NEW base \in Virtual, NEW n \in Nat \ {0}
    PROVE  \/ /\ Highest(X, base, n) = base + n - 1
              /\ \A a \in Near(X, base, n) : a.base # base + n
           \/ \E a \in Near(X, base, n) :
                 /\ a.base = base + n /\ Highest(X, base, n) = VmaEnd(a)
                 /\ \A c \in Near(X, base, n) : c.base = base + n => c = a
<1> DEFINE N == Near(X, base, n)
           last == base + n - 1
           S == {last} \cup {VmaEnd(a) : a \in N}
<1>0. base \in Nat /\ last \in Nat /\ base <= last
  BY VirtualIs
<1>1. \A a \in N : a \in X /\ a.base \in Nat /\ VmaEnd(a) \in Nat /\ a.base <= VmaEnd(a)
                   /\ (VmaEnd(a) + 1 = base \/ a.base = base + n)
  BY AreaIs DEF Near
<1>2. S \subseteq Int
  BY <1>0, <1>1
<1>3. \A a, c \in N : a.base = base + n /\ c.base = base + n => a = c
  <2> SUFFICES ASSUME NEW a \in N, NEW c \in N, a.base = base + n, c.base = base + n, a # c PROVE FALSE
    OBVIOUS
  <2>1. VmaEnd(a) < c.base \/ VmaEnd(c) < a.base
    BY <1>1 DEF TiledSet
  <2> QED
    BY <1>1, <2>1
<1>4. Highest(X, base, n) = Max(S)
  BY DEF Highest
<1>5. CASE \E a \in N : a.base = base + n
  <2>1. PICK a \in N : a.base = base + n
    BY <1>5
  <2>2. \A c \in N : VmaEnd(c) <= VmaEnd(a)
    <3> TAKE c \in N
    <3>1. c = a \/ VmaEnd(c) + 1 = base
      BY <1>1, <1>3, <2>1
    <3> QED
      BY <1>0, <1>1, <2>1, <3>1
  <2>3. VmaEnd(a) \in S /\ \A s \in S : s <= VmaEnd(a)
    BY <1>0, <1>1, <2>1, <2>2
  <2> HIDE DEF S, N
  <2>4. Max(S) = VmaEnd(a)
    BY <1>2, <2>3, MinMaxIs
  <2> QED
    BY <1>3, <1>4, <2>1, <2>4 DEF N
<1>6. CASE \A a \in N : a.base # base + n
  <2>1. last \in S /\ \A s \in S : s <= last
    <3>1. \A a \in N : VmaEnd(a) + 1 = base
      BY <1>1, <1>6
    <3> QED
      BY <1>0, <1>1, <3>1
  <2> HIDE DEF S, N, last
  <2>2. Max(S) = last
    BY <1>2, <2>1, MinMaxIs
  <2> QED
    BY <1>4, <1>6, <2>2 DEF N, last
<1> QED
  BY <1>5, <1>6

(* The merged area covers the pages that became free and the free areas next to them. *)
LEMMA MergedIs ==
    ASSUME NEW X \in SUBSET Areas, NEW R, TiledSet(X, R), NEW base \in Virtual, NEW n \in Nat \ {0}
    PROVE  LET z == Merged(X, base, n)
           IN  /\ z \in Areas /\ z.type = "Free"
               /\ \A u : u \in Covered(z) <=>
                     u \in base..base + n - 1 \/ \E a \in Near(X, base, n) : u \in Covered(a)
               /\ \/ z.base = base /\ \A a \in Near(X, base, n) : VmaEnd(a) + 1 # base
                  \/ \E a \in Near(X, base, n) : a.base = z.base
               /\ \/ VmaEnd(z) = base + n - 1 /\ \A a \in Near(X, base, n) : a.base # base + n
                  \/ \E a \in Near(X, base, n) : VmaEnd(a) = VmaEnd(z)
<1> DEFINE N == Near(X, base, n)
           l == Lowest(X, base, n)
           h == Highest(X, base, n)
           z == Merged(X, base, n)
           k == h - l + 1
<1>0. base \in Nat
  BY VirtualIs
<1>1. \A a \in N : /\ a \in Areas /\ a.base \in Virtual /\ a.base \in Nat /\ VmaEnd(a) \in Nat /\ a.base <= VmaEnd(a)
                   /\ (VmaEnd(a) + 1 = base \/ a.base = base + n)
                   /\ \A u : u \in Covered(a) <=> u \in Nat /\ a.base <= u /\ u <= VmaEnd(a)
  BY AreaIs DEF Near
<1>2. \/ l = base /\ \A a \in N : VmaEnd(a) + 1 # base
      \/ \E a \in N : /\ VmaEnd(a) + 1 = base /\ l = a.base
                      /\ \A c \in N : VmaEnd(c) + 1 = base => c = a
  BY LowestIs
<1>3. \/ h = base + n - 1 /\ \A a \in N : a.base # base + n
      \/ \E a \in N : /\ a.base = base + n /\ h = VmaEnd(a)
                      /\ \A c \in N : c.base = base + n => c = a
  BY HighestIs
<1>4. z = Vma(l, k, "Free")
  BY DEF Merged
<1> HIDE DEF N, l, h, z
<1>5. l \in Virtual /\ l \in Nat /\ l <= base
  BY <1>0, <1>1, <1>2
<1>6. h \in Nat /\ base + n - 1 <= h
  BY <1>0, <1>1, <1>3
<1>7. k \in Int /\ k > 0 /\ l + k - 1 = h /\ "Free" \in {"Free", "Reserved", "Allocated"}
  BY <1>0, <1>5, <1>6
<1> HIDE DEF k
<1>8. z \in Areas /\ z.base = l /\ z.type = "Free" /\ VmaEnd(z) = h /\ Covered(z) = l..h
  <2>1. LET a == Vma(l, k, "Free")
        IN  a \in Areas /\ a.base = l /\ a.type = "Free" /\ VmaEnd(a) = l + k - 1 /\ Covered(a) = l..l + k - 1
    BY <1>5, <1>7, VmaIs
  <2> QED
    BY <1>4, <1>7, <2>1
<1>9. ASSUME NEW a \in N PROVE l <= a.base /\ VmaEnd(a) <= h
  <2>1. CASE VmaEnd(a) + 1 = base
    <3>1. l = a.base
      BY <1>2, <2>1
    <3> QED
      BY <1>0, <1>1, <1>6, <2>1, <3>1
  <2>2. CASE a.base = base + n
    <3>1. h = VmaEnd(a)
      BY <1>3, <2>2
    <3> QED
      BY <1>0, <1>1, <1>5, <2>2, <3>1
  <2> QED
    BY <1>1, <2>1, <2>2
<1>10. ASSUME NEW u \in base..base + n - 1 PROVE u \in Covered(z)
  BY <1>0, <1>5, <1>6, <1>8
<1>11. ASSUME NEW a \in N, NEW u \in Covered(a) PROVE u \in Covered(z)
  BY <1>1, <1>5, <1>6, <1>8, <1>9
<1>12. ASSUME NEW u \in Covered(z), u \notin base..base + n - 1 PROVE \E a \in N : u \in Covered(a)
  <2>1. u \in Nat /\ l <= u /\ u <= h /\ (u < base \/ base + n <= u)
    BY <1>0, <1>5, <1>6, <1>8, <1>12
  <2>2. CASE u < base
    <3>1. l # base
      BY <1>0, <1>5, <2>1, <2>2
    <3>2. PICK a \in N : VmaEnd(a) + 1 = base /\ l = a.base
      BY <1>2, <3>1
    <3> QED
      BY <1>0, <1>1, <2>1, <2>2, <3>2
  <2>3. CASE base + n <= u
    <3>1. h # base + n - 1
      BY <1>0, <1>6, <2>1, <2>3
    <3>2. PICK a \in N : a.base = base + n /\ h = VmaEnd(a)
      BY <1>3, <3>1
    <3> QED
      BY <1>0, <1>1, <2>1, <2>3, <3>2
  <2> QED
    BY <2>1, <2>2, <2>3
<1>13. \A u : u \in Covered(z) <=> u \in base..base + n - 1 \/ \E a \in N : u \in Covered(a)
  BY <1>10, <1>11, <1>12
<1>14. /\ \/ z.base = base /\ \A a \in N : VmaEnd(a) + 1 # base
          \/ \E a \in N : a.base = z.base
       /\ \/ VmaEnd(z) = base + n - 1 /\ \A a \in N : a.base # base + n
          \/ \E a \in N : VmaEnd(a) = VmaEnd(z)
  BY <1>2, <1>3, <1>8
<1> QED
  BY <1>8, <1>13, <1>14 DEF z, N

(* DestructVMA on the set of areas. *)
LEMMA RestIs ==
    ASSUME NEW old \in Areas, NEW base \in Nat, NEW n \in Nat \ {0}, base..base + n - 1 \subseteq Covered(old),
           Covered(old) \subseteq Virtual
    PROVE  /\ Rest(old, base, n) \in SUBSET Areas
           /\ \A u : u \in Covered(old) <=>
                 u \in base..base + n - 1 \/ \E a \in Rest(old, base, n) : u \in Covered(a)
           /\ \A a \in Rest(old, base, n) :
                 /\ a.type = old.type /\ Covered(a) \cap base..base + n - 1 = {}
                 /\ \/ a.base = old.base /\ VmaEnd(a) = base - 1
                    \/ a.base = base + n /\ VmaEnd(a) = VmaEnd(old)
           /\ \A a, c \in Rest(old, base, n) : a # c => Covered(a) \cap Covered(c) = {}
           /\ base + n - 1 < VmaEnd(old) =>
                 Vma(base + n, VmaEnd(old) - base - n + 1, old.type) \in Rest(old, base, n)
           /\ base = old.base /\ base + n - 1 = VmaEnd(old) => Rest(old, base, n) = {}
<1> DEFINE b == old.base
           e == VmaEnd(old)
           t == old.type
           z1 == Vma(b, base - b, t)
           z3 == Vma(base + n, e - base - n + 1, t)
           Z == Rest(old, base, n)
<1>1. /\ b \in Nat /\ e \in Nat /\ b \in Virtual /\ b <= base /\ base + n - 1 <= e
      /\ \A u : u \in Covered(old) <=> u \in Nat /\ b <= u /\ u <= e
      /\ t \in {"Free", "Reserved", "Allocated"}
  <2>1. /\ b \in Nat /\ e \in Nat /\ b \in Virtual /\ t \in {"Free", "Reserved", "Allocated"}
        /\ \A u : u \in Covered(old) <=> u \in Nat /\ b <= u /\ u <= e
    BY AreaIs
  <2>2. base \in Covered(old) /\ base + n - 1 \in Covered(old)
    <3>1. base \in base..base + n - 1 /\ base + n - 1 \in base..base + n - 1
      OBVIOUS
    <3> QED
      BY <3>1
  <2> QED
    BY <2>1, <2>2
<1>2. z1.size = base - b /\ z3.size = e - base - n + 1
  BY DEF Vma
<1>3. ASSUME b < base
      PROVE  /\ z1 \in Areas /\ z1.base = b /\ z1.type = t
             /\ VmaEnd(z1) = base - 1 /\ Covered(z1) = b..base - 1
  <2> DEFINE k == base - b
  <2>1. k \in Int /\ k > 0 /\ b + k - 1 = base - 1
    BY <1>1, <1>3
  <2> HIDE DEF k, b, t
  <2>3. b \in Virtual /\ k \in Int /\ k > 0 /\ t \in {"Free", "Reserved", "Allocated"}
    BY <1>1, <2>1
  <2>2. LET a == Vma(b, k, t)
        IN  a \in Areas /\ a.base = b /\ a.type = t /\ VmaEnd(a) = b + k - 1 /\ Covered(a) = b..b + k - 1
    BY <2>3, VmaIs
  <2> QED
    BY <2>1, <2>2 DEF k
<1>4. ASSUME base + n <= e
      PROVE  /\ z3 \in Areas /\ z3.base = base + n /\ z3.type = t
             /\ VmaEnd(z3) = e /\ Covered(z3) = base + n..e
  <2> DEFINE k == e - base - n + 1
             c == base + n
  <2>1. k \in Int /\ k > 0 /\ c + k - 1 = e /\ c \in Covered(old)
    BY <1>1, <1>4
  <2>2. c \in Virtual
    BY <2>1
  <2> HIDE DEF k, c, t, e, b
  <2>4. c \in Virtual /\ k \in Int /\ k > 0 /\ t \in {"Free", "Reserved", "Allocated"}
    BY <1>1, <2>1, <2>2
  <2>3. LET a == Vma(c, k, t)
        IN  a \in Areas /\ a.base = c /\ a.type = t /\ VmaEnd(a) = c + k - 1 /\ Covered(a) = c..c + k - 1
    BY <2>4, VmaIs
  <2> QED
    BY <2>1, <2>3 DEF k, c
<1>5. Z = Sized({z1, z3})
  BY DEF Rest
<1> HIDE DEF z1, z3, Z, b, e, t
<1>6. \A a \in Z : (a = z1 /\ b < base) \/ (a = z3 /\ base + n <= e)
  <2> SUFFICES ASSUME NEW a \in {z1, z3}, a.size > 0
               PROVE  (a = z1 /\ b < base) \/ (a = z3 /\ base + n <= e)
    BY <1>5 DEF Sized
  <2>1. a = z1 => b < base
    BY <1>1, <1>2
  <2>2. a = z3 => base + n <= e
    BY <1>1, <1>2
  <2> QED
    BY <2>1, <2>2
<1>7. (b < base => z1 \in Z) /\ (base + n <= e => z3 \in Z)
  <2>1. (b < base => z1.size > 0) /\ (base + n <= e => z3.size > 0)
    BY <1>1, <1>2
  <2> QED
    BY <1>5, <2>1 DEF Sized
<1>8. Z \in SUBSET Areas
  BY <1>3, <1>4, <1>6
<1>9. ASSUME NEW a \in Z
      PROVE  /\ a.type = t /\ Covered(a) \cap base..base + n - 1 = {} /\ Covered(a) \subseteq Covered(old)
             /\ \/ a.base = b /\ VmaEnd(a) = base - 1
                \/ a.base = base + n /\ VmaEnd(a) = e
  <2>1. CASE a = z1 /\ b < base
    BY <1>1, <1>3, <2>1
  <2>2. CASE a = z3 /\ base + n <= e
    BY <1>1, <1>4, <2>2
  <2> QED
    BY <1>6, <2>1, <2>2
<1>10. ASSUME NEW u \in Covered(old), u \notin base..base + n - 1 PROVE \E a \in Z : u \in Covered(a)
  <2>1. u \in Nat /\ b <= u /\ u <= e /\ (u < base \/ base + n <= u)
    BY <1>1, <1>10
  <2>2. CASE u < base
    <3>1. b < base /\ u \in b..base - 1
      BY <1>1, <2>1, <2>2
    <3> QED
      BY <1>3, <1>7, <3>1
  <2>3. CASE base + n <= u
    <3>1. base + n <= e /\ u \in base + n..e
      BY <1>1, <2>1, <2>3
    <3> QED
      BY <1>4, <1>7, <3>1
  <2> QED
    BY <2>1, <2>2, <2>3
<1>11. ASSUME NEW a \in Z, NEW c \in Z, a # c PROVE Covered(a) \cap Covered(c) = {}
  <2>1. CASE a = z1 /\ b < base
    <3>1. c = z3 /\ base + n <= e
      BY <1>6, <1>11, <2>1
    <3> QED
      BY <1>1, <1>3, <1>4, <2>1, <3>1
  <2>2. CASE a = z3 /\ base + n <= e
    <3>1. c = z1 /\ b < base
      BY <1>6, <1>11, <2>2
    <3> QED
      BY <1>1, <1>3, <1>4, <2>2, <3>1
  <2> QED
    BY <1>6, <2>1, <2>2
<1>12. \A u : u \in Covered(old) <=> u \in base..base + n - 1 \/ \E a \in Z : u \in Covered(a)
  BY <1>9, <1>10
<1>13. base + n - 1 < e => z3 \in Z
  <2>1. base + n - 1 < e => base + n <= e
    BY <1>1
  <2> QED
    BY <1>7, <2>1
<1>14. ASSUME base = b, base + n - 1 = e PROVE Z = {}
  <2>1. ~(b < base) /\ ~(base + n <= e)
    BY <1>1, <1>14
  <2> QED
    BY <1>6, <2>1
<1> QED
  BY <1>8, <1>9, <1>11, <1>12, <1>13, <1>14 DEF Z, z3, b, e, t

(* The areas still tile their region, and a free one is an old one or what has become free. *)
LEMMA DestructAreas ==
    ASSUME NEW X \in SUBSET Areas, NEW R \in SUBSET Virtual, TiledSet(X, R), NEW old \in X, old.type # "Free",
           NEW base \in Nat, NEW n \in Nat \ {0}, base..base + n - 1 \subseteq Covered(old)
    PROVE  LET W == Destructed(X, old, base, n)
           IN  /\ W \in SUBSET Areas /\ TiledSet(W, R)
               /\ InUse(W) = (InUse(X) \ {old}) \cup Rest(old, base, n)
               /\ \A a \in W : a.type = "Free" =>
                     \/ a \in X
                     \/ /\ \A u \in Covered(a) : \/ u \in base..base + n - 1
                                                 \/ \E c \in X : c.type = "Free" /\ u \in Covered(c)
                        /\ \/ VmaEnd(a) = base + n - 1 /\ \A c \in X : c.type = "Free" => c.base # base + n
                           \/ \E c \in X : c.type = "Free" /\ VmaEnd(c) = VmaEnd(a)
<1> DEFINE N == Near(X, base, n)
           K == Rest(old, base, n)
           z == Merged(X, base, n)
           Y == {old} \cup N
           Z == K \cup {z}
           W == (X \ Y) \cup Z
<1>1. base \in Virtual /\ Covered(old) \subseteq Virtual /\ old \in Areas
  <2>1. Covered(old) \subseteq R
    BY DEF TiledSet
  <2>2. base \in base..base + n - 1
    OBVIOUS
  <2> QED
    BY <2>1, <2>2
<1>2. /\ z \in Areas /\ z.type = "Free"
      /\ \A u : u \in Covered(z) <=> u \in base..base + n - 1 \/ \E a \in N : u \in Covered(a)
      /\ \/ z.base = base /\ \A a \in N : VmaEnd(a) + 1 # base
         \/ \E a \in N : a.base = z.base
      /\ \/ VmaEnd(z) = base + n - 1 /\ \A a \in N : a.base # base + n
         \/ \E a \in N : VmaEnd(a) = VmaEnd(z)
  BY <1>1, MergedIs
<1>3. /\ K \in SUBSET Areas
      /\ \A u : u \in Covered(old) <=> u \in base..base + n - 1 \/ \E a \in K : u \in Covered(a)
      /\ \A a \in K : a.type = old.type /\ Covered(a) \cap base..base + n - 1 = {}
      /\ \A a, c \in K : a # c => Covered(a) \cap Covered(c) = {}
  BY <1>1, RestIs
<1>4. /\ \A a \in N : a \in X /\ a # old /\ a.type = "Free"
      /\ \A a \in X : a.type = "Free" /\ (VmaEnd(a) + 1 = base \/ a.base = base + n) => a \in N
  BY DEF Near
<1> HIDE DEF N, K, z
<1>5. UNION {Covered(a) : a \in Y} = UNION {Covered(a) : a \in Z}
  <2>1. \A u : (\E a \in Y : u \in Covered(a)) <=> u \in Covered(old) \/ \E a \in N : u \in Covered(a)
    OBVIOUS
  <2>2. \A u : (\E a \in Z : u \in Covered(a)) <=> u \in Covered(z) \/ \E a \in K : u \in Covered(a)
    OBVIOUS
  <2>3. \A u : (\E a \in Y : u \in Covered(a)) <=> (\E a \in Z : u \in Covered(a))
    BY <1>2, <1>3, <2>1, <2>2
  <2> HIDE DEF Y, Z
  <2> QED
    BY <2>3
<1>6. ASSUME NEW a \in K PROVE Covered(a) \cap Covered(z) = {}
  <2> SUFFICES ASSUME NEW u \in Covered(a), u \in Covered(z) PROVE FALSE
    OBVIOUS
  <2>1. u \in Covered(old) /\ u \notin base..base + n - 1
    BY <1>3
  <2>2. PICK c \in N : u \in Covered(c)
    BY <1>2, <2>1
  <2> QED
    BY <1>4, <2>1, <2>2, OneArea
<1>7. ASSUME NEW a \in Z, NEW c \in Z, a # c
      PROVE  /\ Covered(a) \cap Covered(c) = {}
             /\ VmaEnd(a) + 1 = c.base => "Free" \notin {a.type} \cap {c.type}
  <2>1. CASE a \in K /\ c \in K
    BY <1>3, <1>7, <2>1
  <2>2. CASE a \in K /\ c = z
    <3>1. a.type # "Free"
      BY <1>3, <2>2
    <3> QED
      BY <1>6, <2>2, <3>1
  <2>3. CASE a = z /\ c \in K
    <3>1. c.type # "Free" /\ Covered(c) \cap Covered(z) = {}
      BY <1>3, <1>6, <2>3
    <3> QED
      BY <2>3, <3>1
  <2> QED
    BY <1>7, <2>1, <2>2, <2>3
<1>8. ASSUME NEW a \in X \ Y, NEW c \in Z, a.type = "Free", c.type = "Free"
      PROVE  VmaEnd(a) + 1 # c.base /\ VmaEnd(c) + 1 # a.base
  <2>1. c = z
    BY <1>3, <1>8
  <2>2. VmaEnd(a) + 1 # z.base
    <3>1. CASE z.base = base
      BY <1>4, <1>8, <3>1
    <3>2. CASE \E b \in N : b.base = z.base
      <4>1. PICK b \in N : b.base = z.base
        BY <3>2
      <4>2. b \in X /\ b # a /\ b.type = "Free"
        BY <1>4, <4>1
      <4> QED
        BY <1>8, <4>1, <4>2 DEF TiledSet
    <3> QED
      BY <1>2, <3>1, <3>2
  <2>3. VmaEnd(z) + 1 # a.base
    <3>1. CASE VmaEnd(z) = base + n - 1
      <4>1. VmaEnd(z) + 1 = base + n
        BY <3>1
      <4> QED
        BY <1>4, <1>8, <4>1
    <3>2. CASE \E b \in N : VmaEnd(b) = VmaEnd(z)
      <4>1. PICK b \in N : VmaEnd(b) = VmaEnd(z)
        BY <3>2
      <4>2. b \in X /\ b # a /\ b.type = "Free"
        BY <1>4, <4>1
      <4> QED
        BY <1>8, <4>1, <4>2 DEF TiledSet
    <3> QED
      BY <1>2, <3>1, <3>2
  <2> QED
    BY <2>1, <2>2, <2>3
<1>9. W \in SUBSET Areas /\ TiledSet(W, R)
  <2>1. Y \in SUBSET X /\ Z \in SUBSET Areas
    BY <1>2, <1>3, <1>4
  <2> HIDE DEF Y, Z
  <2> QED
    BY <1>5, <1>7, <1>8, <2>1, ReplaceAreas
<1>10. InUse(W) = (InUse(X) \ {old}) \cup K
  BY <1>2, <1>3, <1>4 DEF InUse
<1>11. ASSUME NEW a \in W, a.type = "Free", a \notin X
       PROVE  /\ \A u \in Covered(a) : u \in base..base + n - 1 \/ \E c \in X : c.type = "Free" /\ u \in Covered(c)
              /\ \/ VmaEnd(a) = base + n - 1 /\ \A c \in X : c.type = "Free" => c.base # base + n
                 \/ \E c \in X : c.type = "Free" /\ VmaEnd(c) = VmaEnd(a)
  <2>1. a = z
    BY <1>3, <1>11
  <2>2. \A u \in Covered(z) : u \in base..base + n - 1 \/ \E c \in X : c.type = "Free" /\ u \in Covered(c)
    BY <1>2, <1>4
  <2>3. \/ VmaEnd(z) = base + n - 1 /\ \A c \in X : c.type = "Free" => c.base # base + n
        \/ \E c \in X : c.type = "Free" /\ VmaEnd(c) = VmaEnd(z)
    BY <1>2, <1>4
  <2> QED
    BY <2>1, <2>2, <2>3
<1>12. W = Destructed(X, old, base, n)
  BY DEF Destructed, N, K, z
<1> HIDE DEF W
<1> QED
  BY <1>9, <1>10, <1>11, <1>12 DEF K

(* What holds of a free area, and of one that is in use while no caller has been starved. *)
FreeArea(m, r, a) ==
    /\ \A v \in Covered(a) : m.pte[v] = None
    /\ r = "System" => (VmaEnd(a) + 1) % Granularity = 0

UsedArea(m, r, a) ==
    /\ r = "User" => a.type = "Reserved"
    /\ r = "System" =>
          /\ a.base % Granularity = 0
          /\ a.type = "Reserved" => \A v \in Covered(a) : m.pte[v] = Device
          /\ a.type = "Allocated" =>
                /\ \A v \in Covered(a) : v # a.base => m.pte[v] \in Pages
                /\ m.pte[a.base] \in Pages \/ (m.pte[a.base] = None /\ a.base < VmaEnd(a))
    /\ r = "Contiguous" =>
          /\ a.type = "Allocated"
          /\ \A v \in Covered(a) : v - ContiguousFirst \in Pages /\ m.pte[v] = v - ContiguousFirst
    /\ r # "User" /\ a.type = "Allocated" =>
          \A v \in Covered(a) : v \in m.ended <=> v = VmaEnd(a)

AreasOK(m) ==
    \A r \in Regions : /\ TiledSet(m.vma[r], Region(r))
                       /\ \A a \in m.vma[r] : a.type = "Free" => FreeArea(m, r, a)

UsedAreasOK(m) == \A r \in Regions : \A a \in InUse(m.vma[r]) : UsedArea(m, r, a)

(* The regions are parts of the virtual pages and share none. *)
LEMMA RegionIs ==
    /\ \A r \in Regions : Region(r) \subseteq Virtual
    /\ \A r, s \in Regions : r # s => Region(r) \cap Region(s) = {}
    /\ Region("User") = UserFirst..UserLast
    /\ Region("System") = SystemFirst..SystemLast
    /\ Region("Contiguous") = ContiguousFirst..ContiguousLast
    /\ {"User", "System", "Contiguous"} = Regions
<1>1. /\ Region("User") = UserFirst..UserLast
      /\ Region("System") = SystemFirst..SystemLast
      /\ Region("Contiguous") = ContiguousFirst..ContiguousLast
  BY DEF Region
<1>2. \A r, s \in Regions : r # s => Region(r) \cap Region(s) = {}
  <2>1. /\ UserFirst..UserLast \cap SystemFirst..SystemLast = {}
        /\ UserFirst..UserLast \cap ContiguousFirst..ContiguousLast = {}
        /\ SystemFirst..SystemLast \cap ContiguousFirst..ContiguousLast = {}
    BY Constants
  <2> QED
    BY <1>1, <2>1 DEF Regions
<1>3. \A r \in Regions : Region(r) \subseteq Virtual
  BY DEF Virtual
<1> QED
  BY <1>1, <1>2, <1>3 DEF Regions

(* Areas and their pages lie in their region. *)
LEMMA AreaInRegion ==
    ASSUME NEW m \in VMs, AreasOK(m), NEW r \in Regions
    PROVE  /\ m.vma[r] \in SUBSET Areas /\ TiledSet(m.vma[r], Region(r))
           /\ \A a \in m.vma[r] : a \in Areas /\ Covered(a) \subseteq Region(r) /\ Covered(a) \subseteq Virtual
<1>1. m.vma[r] \in SUBSET Areas
  BY DEF VMs
<1>2. TiledSet(m.vma[r], Region(r))
  BY DEF AreasOK
<1>3. \A a \in m.vma[r] : Covered(a) \subseteq Region(r)
  BY <1>2 DEF TiledSet
<1> QED
  BY <1>1, <1>2, <1>3, RegionIs

(* The areas of one region have been changed by ConstructVMA, or by DestructVMA. *)
VmaMade(m, w, r, old, base, n, type) ==
    w.vma = [m.vma EXCEPT ![r] = Constructed(m.vma[r], old, base, n, type)]

VmaFreed(m, w, r, old, base, n) ==
    w.vma = [m.vma EXCEPT ![r] = Destructed(m.vma[r], old, base, n)]

(* ConstructVMA changes the areas of one region. *)
LEMMA ConstructVMAIs ==
    ASSUME NEW m \in VMs, NEW r \in Regions, NEW R, R \subseteq Virtual, TiledSet(m.vma[r], R), NEW old \in m.vma[r],
           old.type = "Free",
           NEW base \in Nat, NEW n \in Nat \ {0}, base..base + n - 1 \subseteq Covered(old),
           NEW type \in {"Reserved", "Allocated"}
    PROVE  LET w == ConstructVMA(m, r, base, n, type)
           IN  /\ w \in VMs /\ SameFree(m, w) /\ SameFrames(m, w) /\ SameMaps(m, w)
               /\ w.instance = m.instance /\ w.reserved = m.reserved /\ w.starved = m.starved
               /\ VmaMade(m, w, r, old, base, n, type)
<1> DEFINE W == Constructed(m.vma[r], old, base, n, type)
           vma == [m.vma EXCEPT ![r] = W]
           w == ConstructVMA(m, r, base, n, type)
<1>1. m.vma \in [Regions -> SUBSET Areas] /\ m.vma[r] \in SUBSET Areas
  BY DEF VMs
<1>2. W \in SUBSET Areas
  BY <1>1, ConstructAreas
<1>3. GetVMA(m, r, base) = old
  <2>1. base \in Covered(old)
    <3>1. base \in base..base + n - 1
      OBVIOUS
    <3> QED
      BY <3>1
  <2> QED
    BY <1>1, <2>1, GetVMAIs
<1>4. w = [m EXCEPT !.vma = vma]
  BY <1>3 DEF ConstructVMA, Constructed
<1> HIDE DEF W
<1>5. vma \in [Regions -> SUBSET Areas]
  BY <1>1, <1>2
<1> HIDE DEF vma, w
<1>6. /\ w \in VMs /\ SameFree(m, w) /\ SameFrames(m, w) /\ SameMaps(m, w)
      /\ w.instance = m.instance /\ w.reserved = m.reserved /\ w.starved = m.starved
      /\ w.vma = vma
  BY <1>4, <1>5 DEF VMs, SameFree, SameFrames, SameMaps
<1> QED
  BY <1>6 DEF w, vma, W, VmaMade

(* DestructVMA changes the areas of one region. *)
LEMMA DestructVMAIs ==
    ASSUME NEW m \in VMs, NEW r \in Regions, NEW R, R \subseteq Virtual, TiledSet(m.vma[r], R), NEW old \in m.vma[r],
           old.type # "Free",
           NEW base \in Nat, NEW n \in Nat \ {0}, base..base + n - 1 \subseteq Covered(old)
    PROVE  LET w == DestructVMA(m, r, base, n)
           IN  /\ w \in VMs /\ SameFree(m, w) /\ SameFrames(m, w) /\ SameMaps(m, w)
               /\ w.instance = m.instance /\ w.reserved = m.reserved /\ w.starved = m.starved
               /\ VmaFreed(m, w, r, old, base, n)
<1> DEFINE W == Destructed(m.vma[r], old, base, n)
           vma == [m.vma EXCEPT ![r] = W]
           w == DestructVMA(m, r, base, n)
<1>1. m.vma \in [Regions -> SUBSET Areas] /\ m.vma[r] \in SUBSET Areas
  BY DEF VMs
<1>2. W \in SUBSET Areas
  BY <1>1, DestructAreas
<1>3. GetVMA(m, r, base) = old
  <2>1. base \in Covered(old)
    <3>1. base \in base..base + n - 1
      OBVIOUS
    <3> QED
      BY <3>1
  <2> QED
    BY <1>1, <2>1, GetVMAIs
<1>4. w = [m EXCEPT !.vma = vma]
  <2> DEFINE X == m.vma[r]
             N == Near(X, base, n)
             l == Lowest(X, base, n)
             h == Highest(X, base, n)
             z1 == Vma(old.base, base - old.base, old.type)
             z2 == Vma(l, h - l + 1, "Free")
             z3 == Vma(base + n, VmaEnd(old) - base - n + 1, old.type)
  <2>1. z2 = Merged(X, base, n) /\ z2.size = h - l + 1
    BY DEF Merged, Vma
  <2>2. z2.size > 0
    <3>1. base \in Virtual
      <4>1. base \in base..base + n - 1 /\ Covered(old) \subseteq R
        BY DEF TiledSet
      <4> QED
        BY <4>1
    <3>2. Merged(X, base, n) \in Areas
      BY <1>1, <3>1, MergedIs
    <3>3. Merged(X, base, n).size \in Nat \ {0}
      BY <3>2, AreaIs
    <3> QED
      BY <2>1, <3>3
  <2>3. w = [m EXCEPT !.vma = [m.vma EXCEPT ![r] = ((X \ {old}) \ N) \cup Sized({z1, z2, z3})]]
    BY <1>3 DEF DestructVMA, Near, Lowest, Highest
  <2>4. W = (X \ ({old} \cup N)) \cup (Sized({z1, z3}) \cup {z2})
    BY <2>1 DEF Destructed, Rest
  <2> HIDE DEF W, z1, z2, z3, N
  <2>5. Sized({z1, z2, z3}) = Sized({z1, z3}) \cup {z2}
    BY <2>2 DEF Sized
  <2>6. ((X \ {old}) \ N) \cup Sized({z1, z2, z3}) = W
    BY <2>4, <2>5
  <2> QED
    BY <2>3, <2>6
<1> HIDE DEF W
<1>5. vma \in [Regions -> SUBSET Areas]
  BY <1>1, <1>2
<1> HIDE DEF vma, w
<1>6. /\ w \in VMs /\ SameFree(m, w) /\ SameFrames(m, w) /\ SameMaps(m, w)
      /\ w.instance = m.instance /\ w.reserved = m.reserved /\ w.starved = m.starved
      /\ w.vma = vma
  BY <1>4, <1>5 DEF VMs, SameFree, SameFrames, SameMaps
<1> QED
  BY <1>6 DEF w, vma, W, VmaFreed

(* The ptes and ends outside of A are as before. *)
SameBeyond(m, w, A) ==
    /\ \A u \in Virtual \ A : w.pte[u] = m.pte[u]
    /\ \A u \in Virtual \ A : u \in w.ended <=> u \in m.ended

(* An area whose pages are outside of A is as it was. *)
LEMMA AreaStays ==
    ASSUME NEW m, NEW w, NEW A, SameBeyond(m, w, A), NEW r \in Regions, NEW a \in Areas,
           Covered(a) \subseteq Virtual \ A
    PROVE  /\ FreeArea(m, r, a) => FreeArea(w, r, a)
           /\ UsedArea(m, r, a) => UsedArea(w, r, a)
<1>1. \A u \in Covered(a) : w.pte[u] = m.pte[u] /\ (u \in w.ended <=> u \in m.ended)
  BY DEF SameBeyond
<1>2. FreeArea(m, r, a) => FreeArea(w, r, a)
  BY <1>1 DEF FreeArea
<1>3. a.base \in Covered(a)
  BY AreaIs
<1>4. UsedArea(m, r, a) => UsedArea(w, r, a)
  BY <1>1, <1>3 DEF UsedArea
<1> QED
  BY <1>2, <1>4

(* An area has been made in a free one of a region. *)
MadeIn(m, w, r, old, base, n, type) ==
    /\ m \in VMs /\ AreasOK(m) /\ r \in Regions /\ old \in m.vma[r] /\ old.type = "Free"
    /\ base \in Nat /\ n \in Nat \ {0} /\ base..base + n - 1 \subseteq Covered(old)
    /\ type \in {"Reserved", "Allocated"} /\ (r = "System" => base % Granularity = 0)
    /\ w \in VMs /\ SameBeyond(m, w, base..base + n - 1)
    /\ VmaMade(m, w, r, old, base, n, type)

(* Areas X are in use in one region instead of those of m, and nothing has changed elsewhere. *)
AreasAre(m, w, r, X) ==
    /\ AreasOK(w)
    /\ \A s \in Regions \ {r} : w.vma[s] = m.vma[s]
    /\ InUse(w.vma[r]) = X

(* The areas are as they must be after an area has been made in a free one. *)
LEMMA AfterConstruct ==
    ASSUME NEW m, NEW w, NEW r, NEW old, NEW base, NEW n, NEW type, MadeIn(m, w, r, old, base, n, type)
    PROVE  /\ AreasAre(m, w, r, InUse(m.vma[r]) \cup {Vma(base, n, type)})
           /\ UsedAreasOK(m) /\ UsedArea(w, r, Vma(base, n, type)) => UsedAreasOK(w)
           /\ \A a \in InUse(m.vma[r]) : Covered(a) \cap base..base + n - 1 = {}
<1>0. /\ m \in VMs /\ AreasOK(m) /\ r \in Regions /\ old \in m.vma[r] /\ old.type = "Free"
      /\ base \in Nat /\ n \in Nat \ {0} /\ base..base + n - 1 \subseteq Covered(old)
      /\ type \in {"Reserved", "Allocated"} /\ (r = "System" => base % Granularity = 0)
      /\ w \in VMs /\ SameBeyond(m, w, base..base + n - 1)
      /\ VmaMade(m, w, r, old, base, n, type)
  BY DEF MadeIn
<1> USE <1>0
<1> DEFINE X == m.vma[r]
           W == Constructed(X, old, base, n, type)
           A == base..base + n - 1
<1>1. /\ X \in SUBSET Areas /\ TiledSet(X, Region(r)) /\ Region(r) \subseteq Virtual
      /\ \A s \in Regions : \A a \in m.vma[s] : a \in Areas /\ Covered(a) \subseteq Region(s) /\ Covered(a) \subseteq Virtual
  BY AreaInRegion, RegionIs
<1>2. /\ W \in SUBSET Areas /\ TiledSet(W, Region(r))
      /\ InUse(W) = InUse(X) \cup {Vma(base, n, type)}
      /\ \A a \in W : a.type = "Free" =>
            \/ a \in X
            \/ /\ Covered(a) \subseteq Covered(old) /\ Covered(a) \cap A = {}
               /\ VmaEnd(a) = VmaEnd(old) \/ VmaEnd(a) + 1 = base
  <2> DEFINE R == Region(r)
  <2>1. /\ X \in SUBSET Areas /\ TiledSet(X, R) /\ R \in SUBSET Virtual
        /\ old \in X /\ old.type = "Free" /\ base..base + n - 1 \subseteq Covered(old)
        /\ base \in Nat /\ n \in Nat \ {0} /\ type \in {"Reserved", "Allocated"}
    BY <1>1
  <2> HIDE DEF X, R
  <2>2. /\ W \in SUBSET Areas /\ TiledSet(W, R)
        /\ InUse(W) = InUse(X) \cup {Vma(base, n, type)}
    BY ONLY <2>1, ConstructAreas
  <2>3. \A a \in W : a.type = "Free" =>
            \/ a \in X
            \/ /\ Covered(a) \subseteq Covered(old) /\ Covered(a) \cap A = {}
               /\ VmaEnd(a) = VmaEnd(old) \/ VmaEnd(a) + 1 = base
    BY ONLY <2>1, ConstructAreas
  <2> QED
    BY <2>2, <2>3 DEF R
<1> HIDE DEF W, A
<1>3. m.vma \in [Regions -> SUBSET Areas]
  BY DEF VMs
<1>4. w.vma[r] = W /\ \A s \in Regions \ {r} : w.vma[s] = m.vma[s]
  BY <1>3 DEF W, VmaMade
<1>5. A \subseteq Covered(old) /\ SameBeyond(m, w, A)
  BY DEF A
<1>6. \A a \in X : a # old => Covered(a) \cap A = {}
  BY <1>1, <1>5, OneArea
<1>7. \A s \in Regions \ {r} : \A a \in m.vma[s] : Covered(a) \cap A = {}
  <2>1. A \subseteq Region(r)
    BY <1>1, <1>5
  <2> QED
    BY <1>1, <2>1, RegionIs
<1>8. FreeArea(m, r, old)
  BY DEF AreasOK
<1>9. ASSUME NEW a \in W, a.type = "Free" PROVE FreeArea(w, r, a)
  <2>1. CASE a \in X /\ a # old
    <3>1. FreeArea(m, r, a) /\ Covered(a) \subseteq Virtual \ A /\ a \in Areas
      BY <1>1, <1>6, <1>9, <2>1 DEF AreasOK
    <3> QED
      BY <1>5, <3>1, AreaStays
  <2>2. CASE a = old
    <3>1. old \notin W
      <4>1. PICK c \in InUse(W) : c = Vma(base, n, type)
        BY <1>2
      <4>2. c \in W /\ c.type # "Free" /\ c.base = base
        BY <4>1 DEF InUse, Vma
      <4>3. base \in Covered(old) /\ c \in Areas /\ base \in Covered(c)
        <5>1. base \in base..base + n - 1
          OBVIOUS
        <5>2. c \in Areas
          BY <1>2, <4>2
        <5> QED
          BY <4>2, <5>1, <5>2, AreaIs
      <4> QED
        BY <1>2, <4>2, <4>3, OneArea
    <3> QED
      BY <2>2, <3>1
  <2>3. CASE a \notin X
    <3>1. /\ Covered(a) \subseteq Covered(old) /\ Covered(a) \cap A = {}
          /\ VmaEnd(a) = VmaEnd(old) \/ VmaEnd(a) + 1 = base
      BY <1>2, <1>9, <2>3
    <3>2. \A v \in Covered(a) : w.pte[v] = None
      <4>1. Covered(old) \subseteq Virtual
        BY <1>1
      <4> QED
        BY <1>5, <1>8, <3>1, <4>1 DEF FreeArea, SameBeyond
    <3>3. r = "System" => (VmaEnd(a) + 1) % Granularity = 0
      BY <1>8, <3>1 DEF FreeArea
    <3> QED
      BY <3>2, <3>3 DEF FreeArea
  <2> QED
    BY <2>1, <2>2, <2>3
<1>10. AreasOK(w)
  <2>1. ASSUME NEW s \in Regions
        PROVE  /\ TiledSet(w.vma[s], Region(s))
               /\ \A a \in w.vma[s] : a.type = "Free" => FreeArea(w, s, a)
    <3>1. CASE s = r
      BY <1>2, <1>4, <1>9, <3>1
    <3>2. CASE s # r
      <4>1. \A a \in m.vma[s] : a.type = "Free" => FreeArea(w, s, a)
        <5> SUFFICES ASSUME NEW a \in m.vma[s], a.type = "Free" PROVE FreeArea(w, s, a)
          OBVIOUS
        <5>1. FreeArea(m, s, a) /\ Covered(a) \subseteq Virtual \ A /\ a \in Areas
          BY <1>1, <1>7, <3>2 DEF AreasOK
        <5> QED
          BY <1>5, <5>1, AreaStays
      <4> QED
        BY <1>4, <3>2, <4>1 DEF AreasOK
    <3> QED
      BY <3>1, <3>2
  <2> QED
    BY <2>1 DEF AreasOK
<1>11. \A a \in InUse(X) : Covered(a) \cap A = {}
  BY <1>6 DEF InUse
<1>12. ASSUME UsedAreasOK(m), UsedArea(w, r, Vma(base, n, type)) PROVE UsedAreasOK(w)
  <2>1. ASSUME NEW s \in Regions, NEW a \in InUse(w.vma[s]) PROVE UsedArea(w, s, a)
    <3>1. CASE s = r /\ a = Vma(base, n, type)
      BY <1>12, <3>1
    <3>2. CASE ~(s = r /\ a = Vma(base, n, type))
      <4>1. a \in InUse(m.vma[s])
        BY <1>2, <1>4, <2>1, <3>2
      <4>2. UsedArea(m, s, a) /\ Covered(a) \subseteq Virtual \ A /\ a \in Areas
        <5>1. a \in m.vma[s]
          BY <4>1 DEF InUse
        <5>2. Covered(a) \cap A = {}
          BY <1>7, <1>11, <4>1, <5>1
        <5> QED
          BY <1>1, <1>12, <4>1, <5>1, <5>2 DEF UsedAreasOK
      <4> QED
        BY <1>5, <4>2, AreaStays
    <3> QED
      BY <3>1, <3>2
  <2> QED
    BY <2>1 DEF UsedAreasOK
<1> QED
  BY <1>2, <1>4, <1>10, <1>11, <1>12 DEF A, AreasAre

(* A part of an area has become free and its ptes zero.  In the system region that is the  *)
(* whole area.                                                                          *)
FreedIn(m, w, r, old, base, n) ==
    /\ m \in VMs /\ AreasOK(m) /\ UsedAreasOK(m) /\ r \in Regions /\ old \in m.vma[r] /\ old.type # "Free"
    /\ base \in Nat /\ n \in Nat \ {0} /\ base..base + n - 1 \subseteq Covered(old)
    /\ (r = "System" => base = old.base /\ base + n - 1 = VmaEnd(old))
    /\ w \in VMs /\ SameBeyond(m, w, base..base + n - 1) /\ (\A u \in base..base + n - 1 : w.pte[u] = None)
    /\ VmaFreed(m, w, r, old, base, n)
    /\ \A a \in Rest(old, base, n) : UsedArea(w, r, a)

(* The areas are as they must be after a part of an area has become free. *)
LEMMA AfterDestruct ==
    ASSUME NEW m, NEW w, NEW r, NEW old, NEW base, NEW n, FreedIn(m, w, r, old, base, n)
    PROVE  /\ AreasAre(m, w, r, (InUse(m.vma[r]) \ {old}) \cup Rest(old, base, n))
           /\ UsedAreasOK(w)
<1>0. /\ m \in VMs /\ AreasOK(m) /\ UsedAreasOK(m) /\ r \in Regions /\ old \in m.vma[r] /\ old.type # "Free"
      /\ base \in Nat /\ n \in Nat \ {0} /\ base..base + n - 1 \subseteq Covered(old)
      /\ (r = "System" => base + n - 1 = VmaEnd(old))
      /\ w \in VMs /\ SameBeyond(m, w, base..base + n - 1) /\ (\A u \in base..base + n - 1 : w.pte[u] = None)
      /\ VmaFreed(m, w, r, old, base, n)
      /\ \A a \in Rest(old, base, n) : UsedArea(w, r, a)
  BY DEF FreedIn
<1> USE <1>0
<1> DEFINE X == m.vma[r]
           W == Destructed(X, old, base, n)
           A == base..base + n - 1
           K == Rest(old, base, n)
<1>1. /\ X \in SUBSET Areas /\ TiledSet(X, Region(r)) /\ Region(r) \subseteq Virtual
      /\ \A s \in Regions : \A a \in m.vma[s] : a \in Areas /\ Covered(a) \subseteq Region(s) /\ Covered(a) \subseteq Virtual
  BY AreaInRegion, RegionIs
<1>2. /\ W \in SUBSET Areas /\ TiledSet(W, Region(r))
      /\ InUse(W) = (InUse(X) \ {old}) \cup K
      /\ \A a \in W : a.type = "Free" =>
            \/ a \in X
            \/ /\ \A u \in Covered(a) : u \in A \/ \E c \in X : c.type = "Free" /\ u \in Covered(c)
               /\ \/ VmaEnd(a) = base + n - 1 /\ \A c \in X : c.type = "Free" => c.base # base + n
                  \/ \E c \in X : c.type = "Free" /\ VmaEnd(c) = VmaEnd(a)
  <2> DEFINE R == Region(r)
  <2>1. /\ X \in SUBSET Areas /\ TiledSet(X, R) /\ R \in SUBSET Virtual
        /\ old \in X /\ old.type # "Free" /\ base..base + n - 1 \subseteq Covered(old)
        /\ base \in Nat /\ n \in Nat \ {0}
    BY <1>1
  <2> HIDE DEF X, R
  <2>2. /\ W \in SUBSET Areas /\ TiledSet(W, R)
        /\ InUse(W) = (InUse(X) \ {old}) \cup K
    BY ONLY <2>1, DestructAreas
  <2>3. \A a \in W : a.type = "Free" =>
            \/ a \in X
            \/ /\ \A u \in Covered(a) : u \in A \/ \E c \in X : c.type = "Free" /\ u \in Covered(c)
               /\ \/ VmaEnd(a) = base + n - 1 /\ \A c \in X : c.type = "Free" => c.base # base + n
                  \/ \E c \in X : c.type = "Free" /\ VmaEnd(c) = VmaEnd(a)
    BY ONLY <2>1, DestructAreas
  <2> QED
    BY <2>2, <2>3 DEF R
<1> HIDE DEF W, A, K
<1>3. m.vma \in [Regions -> SUBSET Areas]
  BY DEF VMs
<1>4. w.vma[r] = W /\ \A s \in Regions \ {r} : w.vma[s] = m.vma[s]
  BY <1>3 DEF W, VmaFreed
<1>5. A \subseteq Covered(old) /\ SameBeyond(m, w, A) /\ \A u \in A : w.pte[u] = None
  BY DEF A
<1>6. \A a \in X : a # old => Covered(a) \cap A = {}
  BY <1>1, <1>5, OneArea
<1>7. \A s \in Regions \ {r} : \A a \in m.vma[s] : Covered(a) \cap A = {}
  <2>1. A \subseteq Region(r)
    BY <1>1, <1>5
  <2> QED
    BY <1>1, <2>1, RegionIs
<1>8. \A a \in X : a.type = "Free" => FreeArea(m, r, a) /\ FreeArea(w, r, a)
  <2> SUFFICES ASSUME NEW a \in X, a.type = "Free" PROVE FreeArea(m, r, a) /\ FreeArea(w, r, a)
    OBVIOUS
  <2>1. FreeArea(m, r, a) /\ Covered(a) \subseteq Virtual \ A /\ a \in Areas
    BY <1>1, <1>6 DEF AreasOK
  <2> QED
    BY <1>5, <2>1, AreaStays
<1>9. ASSUME NEW a \in W, a.type = "Free" PROVE FreeArea(w, r, a)
  <2>1. CASE a \in X
    BY <1>8, <1>9, <2>1
  <2>2. CASE a \notin X
    <3>1. /\ \A u \in Covered(a) : u \in A \/ \E c \in X : c.type = "Free" /\ u \in Covered(c)
          /\ \/ VmaEnd(a) = base + n - 1 /\ \A c \in X : c.type = "Free" => c.base # base + n
             \/ \E c \in X : c.type = "Free" /\ VmaEnd(c) = VmaEnd(a)
      BY <1>2, <1>9, <2>2
    <3>2. \A u \in Covered(a) : w.pte[u] = None
      BY <1>5, <1>8, <3>1 DEF FreeArea
    <3>3. ASSUME r = "System" PROVE (VmaEnd(a) + 1) % Granularity = 0
      <4>1. CASE \E c \in X : c.type = "Free" /\ VmaEnd(c) = VmaEnd(a)
        BY <1>8, <3>3, <4>1 DEF FreeArea
      <4>2. CASE VmaEnd(a) = base + n - 1 /\ \A c \in X : c.type = "Free" => c.base # base + n
        <5> DEFINE e == VmaEnd(old)
        <5>1. /\ VmaEnd(a) = e /\ base + n = e + 1 /\ e \in Nat /\ e \in Region(r)
          <6>1. e \in Covered(old) /\ e \in Nat
            BY <1>1, AreaIs
          <6> QED
            BY <1>1, <3>3, <4>2, <6>1
        <5>2. CASE e = SystemLast
          BY <5>1, <5>2, VMAssumption
        <5>3. CASE e # SystemLast
          <6>1. e + 1 \in Region(r)
            <7> DEFINE f == SystemFirst
                       l == SystemLast
            <7>1. Region(r) = f..l /\ f \in Int /\ l \in Int /\ e # l /\ e \in f..l
              BY <3>3, <5>1, <5>3, RegionIs, Constants
            <7> HIDE DEF e, f, l
            <7>2. e + 1 \in f..l
              BY <7>1
            <7> QED
              BY <7>1, <7>2
          <6>2. PICK c \in X : e + 1 \in Covered(c)
            BY <1>1, <6>1 DEF TiledSet
          <6>3. /\ c.base \in Nat /\ c.base <= e + 1 /\ e + 1 <= VmaEnd(c) /\ VmaEnd(c) \in Nat
                /\ old.base \in Nat /\ old.base <= e
            BY <1>1, <6>2, AreaIs
          <6>4. c # old
            BY <5>1, <6>3
          <6>5. VmaEnd(c) < old.base \/ e < c.base
            BY <1>1, <6>4 DEF TiledSet
          <6>6. c.base = e + 1
            BY <5>1, <6>3, <6>5
          <6>7. c.type # "Free"
            BY <4>2, <5>1, <6>6
          <6>8. c.base % Granularity = 0
            <7>1. c \in InUse(m.vma[r])
              BY <6>7 DEF InUse
            <7> QED
              BY <3>3, <7>1 DEF UsedAreasOK, UsedArea
          <6> QED
            BY <5>1, <6>6, <6>8
        <5> QED
          BY <5>2, <5>3
      <4> QED
        BY <3>1, <4>1, <4>2
    <3> QED
      BY <3>2, <3>3 DEF FreeArea
  <2> QED
    BY <2>1, <2>2
<1>10. AreasOK(w)
  <2>1. ASSUME NEW s \in Regions
        PROVE  /\ TiledSet(w.vma[s], Region(s))
               /\ \A a \in w.vma[s] : a.type = "Free" => FreeArea(w, s, a)
    <3>1. CASE s = r
      BY <1>2, <1>4, <1>9, <3>1
    <3>2. CASE s # r
      <4>1. \A a \in m.vma[s] : a.type = "Free" => FreeArea(w, s, a)
        <5> SUFFICES ASSUME NEW a \in m.vma[s], a.type = "Free" PROVE FreeArea(w, s, a)
          OBVIOUS
        <5>1. FreeArea(m, s, a) /\ Covered(a) \subseteq Virtual \ A /\ a \in Areas
          BY <1>1, <1>7, <3>2 DEF AreasOK
        <5> QED
          BY <1>5, <5>1, AreaStays
      <4> QED
        BY <1>4, <3>2, <4>1 DEF AreasOK
    <3> QED
      BY <3>1, <3>2
  <2> QED
    BY <2>1 DEF AreasOK
<1>11. UsedAreasOK(w)
  <2>1. ASSUME NEW s \in Regions, NEW a \in InUse(w.vma[s]) PROVE UsedArea(w, s, a)
    <3>1. CASE s = r /\ a \in K
      BY <3>1 DEF K
    <3>2. CASE ~(s = r /\ a \in K)
      <4>1. a \in InUse(m.vma[s]) /\ ~(s = r /\ a = old)
        BY <1>2, <1>4, <2>1, <3>2
      <4>2. UsedArea(m, s, a) /\ Covered(a) \subseteq Virtual \ A /\ a \in Areas
        <5>1. a \in m.vma[s]
          BY <4>1 DEF InUse
        <5>2. Covered(a) \cap A = {}
          BY <1>6, <1>7, <4>1, <5>1
        <5> QED
          BY <1>1, <4>1, <5>1, <5>2 DEF UsedAreasOK
      <4> QED
        BY <1>5, <4>2, AreaStays
    <3> QED
      BY <3>1, <3>2
  <2> QED
    BY <2>1 DEF UsedAreasOK
<1> QED
  BY <1>2, <1>4, <1>10, <1>11 DEF K, AreasAre

(* How the pages that are not free are counted. *)
LEMMA CoverConstructed ==
    ASSUME NEW X \in SUBSET Areas, NEW R \in SUBSET Virtual, TiledSet(X, R), NEW W,
           NEW base \in Virtual, NEW n \in Nat \ {0}, NEW type \in {"Reserved", "Allocated"},
           InUse(W) = InUse(X) \cup {Vma(base, n, type)},
           \A a \in InUse(X) : Covered(a) \cap base..base + n - 1 = {}
    PROVE  Cardinality(UsedCover(W)) = Cardinality(UsedCover(X)) + n
<1> DEFINE z == Vma(base, n, type)
           A == base..base + n - 1
<1>1. Covered(z) = A
  <2>1. n \in Int /\ n > 0 /\ type \in {"Free", "Reserved", "Allocated"}
    OBVIOUS
  <2> QED
    BY <2>1, VmaIs
<1> HIDE DEF z
<1>2. UsedCover(W) = UsedCover(X) \cup A
  BY <1>1 DEF UsedCover, z
<1>3. UsedCover(X) \cap A = {}
  BY DEF UsedCover
<1>4. IsFiniteSet(UsedCover(X))
  <2>1. UsedCover(X) \subseteq Virtual
    BY DEF UsedCover, InUse, TiledSet
  <2> QED
    BY <2>1, VirtualIs, FS_Subset
<1>5. IsFiniteSet(A) /\ Cardinality(A) = n
  <2>1. base \in Int /\ base + n - 1 \in Int /\ base <= base + n - 1 /\ base + n - 1 - base + 1 = n
    BY VirtualIs
  <2> QED
    BY <2>1, RunCount
<1> QED
  BY <1>2, <1>3, <1>4, <1>5, CountJoin

(* The same after a part of an area has become free. *)
LEMMA CoverDestructed ==
    ASSUME NEW X \in SUBSET Areas, NEW R \in SUBSET Virtual, TiledSet(X, R), NEW W, NEW old \in InUse(X),
           NEW base \in Nat, NEW n \in Nat \ {0}, base..base + n - 1 \subseteq Covered(old),
           InUse(W) = (InUse(X) \ {old}) \cup Rest(old, base, n)
    PROVE  Cardinality(UsedCover(W)) = Cardinality(UsedCover(X)) - n
<1> DEFINE K == Rest(old, base, n)
           A == base..base + n - 1
<1>1. old \in X /\ old \in Areas /\ Covered(old) \subseteq Virtual
  BY DEF InUse, TiledSet
<1>2. /\ \A u : u \in Covered(old) <=> u \in A \/ \E a \in K : u \in Covered(a)
      /\ \A a \in K : Covered(a) \cap A = {}
  BY <1>1, RestIs
<1> HIDE DEF K, A
<1>3. \A a \in InUse(X) \ {old} : Covered(a) \cap Covered(old) = {}
  BY <1>1, OneArea DEF InUse
<1>4. A \subseteq UsedCover(X)
  BY <1>2 DEF UsedCover
<1>5. UsedCover(W) = UsedCover(X) \ A
  <2>1. \A u : u \in UsedCover(W) <=> (\E a \in InUse(X) \ {old} : u \in Covered(a)) \/ (\E a \in K : u \in Covered(a))
    BY DEF UsedCover, K
  <2>2. \A u : u \in UsedCover(X) <=> (\E a \in InUse(X) \ {old} : u \in Covered(a)) \/ u \in Covered(old)
    BY DEF UsedCover
  <2>3. \A u : u \in UsedCover(W) <=> u \in UsedCover(X) /\ u \notin A
    BY <1>2, <1>3, <2>1, <2>2
  <2> QED
    BY <2>3
<1>6. IsFiniteSet(UsedCover(X))
  <2>1. UsedCover(X) \subseteq Virtual
    BY DEF UsedCover, InUse, TiledSet
  <2> QED
    BY <2>1, VirtualIs, FS_Subset
<1>7. Cardinality(A) = n
  <2>1. base \in Int /\ base + n - 1 \in Int /\ base <= base + n - 1 /\ base + n - 1 - base + 1 = n
    OBVIOUS
  <2> QED
    BY <2>1, RunCount DEF A
<1> QED
  BY <1>4, <1>5, <1>6, <1>7, CountPart

(* The guard pages: their ptes are zero and counted. *)
Guards(m) == {a.base : a \in {b \in m.vma["System"] : Guarded(m, b)}}

(* The instance memory of the NV2A is an area that no title frees. *)
InstanceIn(size, X) ==
    size > 0 => Vma(ContiguousFirst + HighestPage + 1 - size, size, "Allocated") \in X

InstanceOK(m) == InstanceIn(m.instance, m.vma["Contiguous"])

(* What holds while no caller has been starved. *)
SoundOK(m) ==
    /\ PagesOK(m, {}, Guards(m))
    /\ UsedAreasOK(m)
    /\ \A v \in Region("User") : m.pte[v] # Device
    /\ \A v \in m.ended : m.pte[v] # None

(* The inductive invariant. *)
CoreOK(m) ==
    /\ m \in VMs /\ FreeOK(m) /\ AreasOK(m)
    /\ m.reserved = Cardinality(UsedCover(m.vma["User"]))
    /\ m.starved \/ SoundOK(m)

VMInv(m) == CoreOK(m) /\ (m.starved \/ InstanceOK(m))

(* The guard pages are in areas of the system region that are in use. *)
LEMMA GuardsIn ==
    ASSUME NEW m, NEW g \in Guards(m)
    PROVE  \E a \in InUse(m.vma["System"]) : a.base = g /\ Guarded(m, a)
<1>1. PICK a \in {b \in m.vma["System"] : Guarded(m, b)} : g = a.base
  BY DEF Guards
<1>2. a.type # "Free"
  BY <1>1 DEF Guarded
<1> QED
  BY <1>1, <1>2 DEF InUse

(* No guard page is in another region, or in another area. *)
LEMMA GuardsAway ==
    ASSUME NEW m \in VMs, AreasOK(m), NEW r \in Regions, NEW a \in m.vma[r]
    PROVE  /\ Guards(m) \subseteq Virtual
           /\ r # "System" => Covered(a) \cap Guards(m) = {}
           /\ a.type = "Free" => Covered(a) \cap Guards(m) = {}
           /\ ~Guarded(m, a) => Covered(a) \cap Guards(m) = {}
           /\ Covered(a) \cap Guards(m) \subseteq {a.base}
<1>1. "System" \in Regions
  BY DEF Regions
<1>2. ASSUME NEW g \in Guards(m)
      PROVE  \E c \in InUse(m.vma["System"]) :
                 /\ c.base = g /\ Guarded(m, c) /\ c \in m.vma["System"] /\ c.type # "Free"
                 /\ g \in Covered(c) /\ Covered(c) \subseteq Region("System") /\ g \in Virtual
  <2>1. PICK c \in InUse(m.vma["System"]) : c.base = g /\ Guarded(m, c)
    BY GuardsIn
  <2>2. c \in m.vma["System"] /\ c.type # "Free"
    BY DEF InUse
  <2>3. c \in Areas /\ Covered(c) \subseteq Region("System") /\ Covered(c) \subseteq Virtual
    BY <1>1, <2>2, AreaInRegion
  <2>4. g \in Covered(c)
    BY <2>1, <2>3, AreaIs
  <2> QED
    BY <2>1, <2>2, <2>3, <2>4
<1>3. /\ m.vma[r] \in SUBSET Areas /\ TiledSet(m.vma[r], Region(r)) /\ Covered(a) \subseteq Region(r)
  BY AreaInRegion
<1>4. ASSUME NEW g \in Guards(m), g \in Covered(a) PROVE r = "System" /\ a.base = g /\ Guarded(m, a) /\ a.type # "Free"
  <2>1. PICK c \in InUse(m.vma["System"]) :
                 /\ c.base = g /\ Guarded(m, c) /\ c \in m.vma["System"] /\ c.type # "Free"
                 /\ g \in Covered(c) /\ Covered(c) \subseteq Region("System")
    BY <1>2
  <2>2. r = "System"
    BY <1>1, <1>3, <1>4, <2>1, RegionIs
  <2>3. c = a
    BY <1>3, <1>4, <2>1, <2>2, OneArea
  <2> QED
    BY <2>1, <2>2, <2>3
<1> QED
  BY <1>2, <1>4

(* The guard pages of some areas of a region. *)
GuardsOf(m, r, X) == {a.base : a \in {b \in X : r = "System" /\ Guarded(m, b)}}

(* The guard pages after the areas that are in use have changed in one place. *)
LEMMA GuardsMade ==
    ASSUME NEW m \in VMs, AreasOK(m), NEW r \in Regions, NEW w, NEW A, SameBeyond(m, w, A),
           \A s \in Regions \ {r} : w.vma[s] = m.vma[s],
           NEW Y, NEW Z \in SUBSET InUse(m.vma[r]), InUse(w.vma[r]) = Z \cup Y,
           \A a \in Z : Covered(a) \cap A = {},
           \A s \in Regions \ {r} : \A a \in m.vma[s] : Covered(a) \cap A = {}
    PROVE  Guards(w) \subseteq (Guards(m) \ A) \cup GuardsOf(w, r, Y)
<1> SUFFICES ASSUME NEW g \in Guards(w)
             PROVE  g \in (Guards(m) \ A) \cup GuardsOf(w, r, Y)
  OBVIOUS
<1>1. PICK a \in InUse(w.vma["System"]) : a.base = g /\ Guarded(w, a)
  BY GuardsIn
<1>2. CASE r = "System" /\ a \in Y
  BY <1>1, <1>2 DEF GuardsOf
<1>3. CASE ~(r = "System" /\ a \in Y)
  <2>1. a \in InUse(m.vma["System"]) /\ Covered(a) \cap A = {}
    <3>1. CASE r = "System"
      BY <1>1, <1>3, <3>1
    <3>2. CASE r # "System"
      BY <1>1, <3>2 DEF InUse, Regions
    <3> QED
      BY <3>1, <3>2
  <2>2. a \in m.vma["System"] /\ "System" \in Regions
    BY <2>1 DEF InUse, Regions
  <2>3. a \in Areas /\ Covered(a) \subseteq Virtual
    BY <2>2, AreaInRegion
  <2>4. a.base \in Covered(a)
    BY <2>3, AreaIs
  <2>5. w.pte[a.base] = m.pte[a.base] /\ a.base \notin A
    BY <2>1, <2>3, <2>4 DEF SameBeyond
  <2>6. Guarded(m, a)
    BY <1>1, <2>5 DEF Guarded
  <2> QED
    BY <1>1, <2>2, <2>5, <2>6 DEF Guards
<1> QED
  BY <1>2, <1>3

(* An area has been made in a free one, its pages have been mapped, and H is its guard page. *)
Making(m, w, r, old, base, n, type, H) ==
    /\ CoreOK(m) /\ ~m.starved /\ MadeIn(m, w, r, old, base, n, type) /\ FreeOK(w)
    /\ w.reserved = m.reserved + (IF r = "User" THEN n ELSE 0) /\ w.instance = m.instance
    /\ H \subseteq {base} /\ (r = "System" /\ type = "Allocated" /\ w.pte[base] = None => H = {base})
    /\ ~w.starved => /\ PagesOK(w, {}, Guards(m) \cup H)
                     /\ UsedArea(w, r, Vma(base, n, type))
                     /\ \A u \in base..base + n - 1 : /\ u \in w.ended => w.pte[u] # None
                                                      /\ r = "User" => w.pte[u] # Device

(* The invariant after that. *)
LEMMA AreaMade ==
    ASSUME NEW m, NEW w, NEW r, NEW old, NEW base, NEW n, NEW type, NEW H, Making(m, w, r, old, base, n, type, H)
    PROVE  /\ CoreOK(w)
           /\ InUse(m.vma["Contiguous"]) \subseteq InUse(w.vma["Contiguous"])
           /\ InUse(w.vma[r]) = InUse(m.vma[r]) \cup {Vma(base, n, type)}
<1>00. /\ CoreOK(m) /\ ~m.starved /\ MadeIn(m, w, r, old, base, n, type) /\ FreeOK(w)
       /\ w.reserved = m.reserved + (IF r = "User" THEN n ELSE 0) /\ w.instance = m.instance
       /\ H \subseteq {base} /\ (r = "System" /\ type = "Allocated" /\ w.pte[base] = None => H = {base})
       /\ ~w.starved => /\ PagesOK(w, {}, Guards(m) \cup H)
                        /\ UsedArea(w, r, Vma(base, n, type))
                        /\ \A u \in base..base + n - 1 : /\ u \in w.ended => w.pte[u] # None
                                                         /\ r = "User" => w.pte[u] # Device
  BY DEF Making
<1>0. /\ m \in VMs /\ AreasOK(m) /\ r \in Regions /\ old \in m.vma[r] /\ old.type = "Free"
      /\ base \in Nat /\ n \in Nat \ {0} /\ base..base + n - 1 \subseteq Covered(old)
      /\ type \in {"Reserved", "Allocated"}
      /\ w \in VMs /\ SameBeyond(m, w, base..base + n - 1)
  BY <1>00 DEF MadeIn
<1> USE <1>00, <1>0
<1> DEFINE A == base..base + n - 1
           a0 == Vma(base, n, type)
<1>1. m \in VMs /\ FreeOK(m) /\ AreasOK(m) /\ SoundOK(m) /\ m.reserved = Cardinality(UsedCover(m.vma["User"]))
  BY DEF CoreOK
<1>2. /\ AreasOK(w)
      /\ \A s \in Regions \ {r} : w.vma[s] = m.vma[s]
      /\ InUse(w.vma[r]) = InUse(m.vma[r]) \cup {a0}
      /\ UsedAreasOK(m) /\ UsedArea(w, r, a0) => UsedAreasOK(w)
      /\ \A a \in InUse(m.vma[r]) : Covered(a) \cap A = {}
  BY <1>1, AfterConstruct DEF AreasAre
<1>3. /\ m.vma[r] \in SUBSET Areas /\ TiledSet(m.vma[r], Region(r)) /\ Region(r) \in SUBSET Virtual
      /\ A \subseteq Region(r) /\ A \subseteq Virtual /\ base \in Virtual
  <2>1. m.vma[r] \in SUBSET Areas /\ TiledSet(m.vma[r], Region(r)) /\ Covered(old) \subseteq Region(r)
    BY <1>1, AreaInRegion
  <2>2. base \in A
    OBVIOUS
  <2> QED
    BY <2>1, <2>2, RegionIs
<1>4. w.reserved = Cardinality(UsedCover(w.vma["User"]))
  <2>1. CASE r = "User"
    <3>1. Cardinality(UsedCover(w.vma[r])) = Cardinality(UsedCover(m.vma[r])) + n
      <4> HIDE DEF A
      <4>1. \A a \in InUse(m.vma[r]) : Covered(a) \cap base..base + n - 1 = {}
        BY <1>2 DEF A
      <4> QED
        BY <1>2, <1>3, <4>1, CoverConstructed
    <3> QED
      BY <1>1, <2>1, <3>1
  <2>2. CASE r # "User"
    <3>1. w.vma["User"] = m.vma["User"] /\ w.reserved = m.reserved
      <4>1. m.reserved \in Int
        BY <1>1 DEF VMs
      <4> QED
        BY <1>2, <2>2, <4>1 DEF Regions
    <3> QED
      BY <1>1, <3>1
  <2> QED
    BY <2>1, <2>2
<1>5. a0.base = base /\ a0.type = type
  BY DEF Vma
<1> HIDE DEF A, a0
<1>6. ASSUME ~w.starved PROVE SoundOK(w)
  <2>1. Guards(w) \subseteq Guards(m) \cup H
    <3>1. \A s \in Regions \ {r} : \A a \in m.vma[s] : Covered(a) \cap A = {}
      <4> SUFFICES ASSUME NEW s \in Regions \ {r}, NEW a \in m.vma[s] PROVE Covered(a) \cap A = {}
        OBVIOUS
      <4>1. Covered(a) \subseteq Region(s)
        BY <1>1, AreaInRegion
      <4> QED
        BY <1>3, <4>1, RegionIs
    <3>2. SameBeyond(m, w, A)
      BY DEF A
    <3>3. Guards(w) \subseteq (Guards(m) \ A) \cup GuardsOf(w, r, {a0})
      <4> DEFINE Z == InUse(m.vma[r])
                 Y == {a0}
      <4>1. /\ m \in VMs /\ AreasOK(m) /\ r \in Regions /\ SameBeyond(m, w, A)
            /\ \A s \in Regions \ {r} : w.vma[s] = m.vma[s]
            /\ Z \in SUBSET InUse(m.vma[r]) /\ InUse(w.vma[r]) = Z \cup Y
            /\ \A a \in Z : Covered(a) \cap A = {}
            /\ \A s \in Regions \ {r} : \A a \in m.vma[s] : Covered(a) \cap A = {}
        BY <1>1, <1>2, <3>1, <3>2
      <4> HIDE DEF Y, Z
      <4>2. Guards(w) \subseteq (Guards(m) \ A) \cup GuardsOf(w, r, Y)
        BY ONLY <4>1, GuardsMade
      <4> QED
        BY <4>2 DEF Y
    <3>4. ASSUME NEW b \in {a0}, r = "System", Guarded(w, b) PROVE b.base \in H
      BY <1>5, <3>4 DEF Guarded
    <3> QED
      BY <3>3, <3>4 DEF GuardsOf
  <2>2. PagesOK(w, {}, Guards(w))
    BY <1>6, <2>1, FewerGuards, VirtualIs
  <2>3. UsedAreasOK(w)
    BY <1>1, <1>2, <1>6 DEF SoundOK, a0
  <2>4. ASSUME NEW v \in Region("User") PROVE w.pte[v] # Device
    <3>1. CASE v \in A
      <4>1. r = "User"
        BY <1>3, <3>1, <2>4, RegionIs
      <4> QED
        BY <1>6, <3>1, <4>1 DEF A
    <3>2. CASE v \notin A
      <4>1. v \in Virtual
        BY <2>4, RegionIs
      <4> QED
        BY <1>1, <3>2, <4>1, <2>4 DEF SameBeyond, SoundOK, A
    <3> QED
      BY <3>1, <3>2
  <2>5. ASSUME NEW v \in w.ended PROVE w.pte[v] # None
    <3>1. v \in Virtual
      BY <2>5 DEF VMs
    <3>2. CASE v \in A
      BY <1>6, <3>2, <2>5 DEF A
    <3>3. CASE v \notin A
      BY <1>1, <3>1, <3>3, <2>5 DEF SameBeyond, SoundOK, A
    <3> QED
      BY <3>2, <3>3
  <2> QED
    BY <2>2, <2>3, <2>4, <2>5 DEF SoundOK
<1>7. InUse(m.vma["Contiguous"]) \subseteq InUse(w.vma["Contiguous"])
  BY <1>2 DEF Regions
<1> QED
  BY <1>2, <1>4, <1>6, <1>7 DEF CoreOK, a0

(* A part of an area has become free, its pages have been freed and its ptes zeroed. *)
Freeing(m, w, r, old, base, n) ==
    /\ CoreOK(m) /\ ~m.starved /\ FreedIn(m, w, r, old, base, n) /\ FreeOK(w)
    /\ w.reserved = m.reserved - (IF r = "User" THEN n ELSE 0)
    /\ PagesOK(w, {}, Guards(m) \ (base..base + n - 1))
    /\ \A u \in base..base + n - 1 : u \notin w.ended

(* Nothing is left of an area that is freed as a whole. *)
LEMMA RestNone ==
    ASSUME NEW old \in Areas, NEW base, base = old.base, NEW n \in Nat, base + n - 1 = VmaEnd(old)
    PROVE  Rest(old, base, n) = {}
<1> DEFINE x == base - old.base
           y == VmaEnd(old) - base - n + 1
<1>1. x = 0 /\ y = 0
  BY AreaIs
<1> HIDE DEF x, y
<1>2. Rest(old, base, n) = Sized({Vma(old.base, x, old.type), Vma(base + n, y, old.type)})
  BY DEF Rest, x, y
<1>3. Vma(old.base, x, old.type).size = 0 /\ Vma(base + n, y, old.type).size = 0
  BY <1>1 DEF Vma
<1> QED
  BY <1>2, <1>3 DEF Sized

(* The invariant after that. *)
LEMMA AreaFreed ==
    ASSUME NEW m, NEW w, NEW r, NEW old, NEW base, NEW n, Freeing(m, w, r, old, base, n)
    PROVE  CoreOK(w) /\ AreasAre(m, w, r, (InUse(m.vma[r]) \ {old}) \cup Rest(old, base, n))
<1>00. /\ CoreOK(m) /\ ~m.starved /\ FreedIn(m, w, r, old, base, n) /\ FreeOK(w)
       /\ w.reserved = m.reserved - (IF r = "User" THEN n ELSE 0)
       /\ PagesOK(w, {}, Guards(m) \ (base..base + n - 1))
       /\ \A u \in base..base + n - 1 : u \notin w.ended
  BY DEF Freeing
<1>0. /\ m \in VMs /\ AreasOK(m) /\ r \in Regions /\ old \in m.vma[r] /\ old.type # "Free"
      /\ base \in Nat /\ n \in Nat \ {0} /\ base..base + n - 1 \subseteq Covered(old)
      /\ w \in VMs /\ SameBeyond(m, w, base..base + n - 1)
      /\ (\A u \in base..base + n - 1 : w.pte[u] = None)
  BY <1>00 DEF FreedIn
<1> USE <1>00, <1>0
<1> DEFINE A == base..base + n - 1
           K == Rest(old, base, n)
<1>1. SoundOK(m) /\ m.reserved = Cardinality(UsedCover(m.vma["User"]))
  BY DEF CoreOK
<1>2. AreasAre(m, w, r, (InUse(m.vma[r]) \ {old}) \cup K) /\ UsedAreasOK(w)
  BY AfterDestruct
<1>3. /\ m.vma[r] \in SUBSET Areas /\ TiledSet(m.vma[r], Region(r)) /\ Region(r) \in SUBSET Virtual
      /\ A \subseteq Region(r) /\ A \subseteq Virtual /\ old \in InUse(m.vma[r]) /\ old \in Areas
  <2>1. m.vma[r] \in SUBSET Areas /\ TiledSet(m.vma[r], Region(r)) /\ Covered(old) \subseteq Region(r)
    BY AreaInRegion
  <2> QED
    BY <2>1, RegionIs DEF InUse
<1>4. /\ AreasOK(w) /\ InUse(w.vma[r]) = (InUse(m.vma[r]) \ {old}) \cup K
      /\ \A s \in Regions \ {r} : w.vma[s] = m.vma[s]
  BY <1>2 DEF AreasAre
<1>5. w.reserved = Cardinality(UsedCover(w.vma["User"]))
  <2>1. CASE r = "User"
    <3>1. Cardinality(UsedCover(w.vma[r])) = Cardinality(UsedCover(m.vma[r])) - n
      <4> DEFINE X == m.vma[r]
                 R == Region(r)
                 W == w.vma[r]
      <4>1. /\ X \in SUBSET Areas /\ R \in SUBSET Virtual /\ TiledSet(X, R) /\ old \in InUse(X)
            /\ base \in Nat /\ n \in Nat \ {0} /\ base..base + n - 1 \subseteq Covered(old)
            /\ InUse(W) = (InUse(X) \ {old}) \cup Rest(old, base, n)
        BY <1>3, <1>4
      <4> HIDE DEF X, R, W
      <4>2. Cardinality(UsedCover(W)) = Cardinality(UsedCover(X)) - n
        BY ONLY <4>1, CoverDestructed
      <4> QED
        BY <4>2 DEF X, W
    <3> QED
      BY <1>1, <2>1, <3>1
  <2>2. CASE r # "User"
    <3>1. w.vma["User"] = m.vma["User"] /\ w.reserved = m.reserved
      <4>1. m.reserved \in Int
        BY DEF VMs
      <4> QED
        BY <1>4, <2>2, <4>1 DEF Regions
    <3> QED
      BY <1>1, <3>1
  <2> QED
    BY <2>1, <2>2
<1> HIDE DEF A
<1>6. Guards(w) \subseteq Guards(m) \ A
  <2>1. \A s \in Regions \ {r} : \A a \in m.vma[s] : Covered(a) \cap A = {}
    <3> SUFFICES ASSUME NEW s \in Regions \ {r}, NEW a \in m.vma[s] PROVE Covered(a) \cap A = {}
      OBVIOUS
    <3>1. Covered(a) \subseteq Region(s)
      BY AreaInRegion
    <3> QED
      BY <1>3, <3>1, RegionIs
  <2>2. \A a \in InUse(m.vma[r]) \ {old} : Covered(a) \cap A = {}
    <3> SUFFICES ASSUME NEW a \in InUse(m.vma[r]) \ {old} PROVE Covered(a) \cap A = {}
      OBVIOUS
    <3>1. a \in m.vma[r] /\ A \subseteq Covered(old)
      BY DEF InUse, A
    <3>2. Covered(a) \cap Covered(old) = {}
      BY <1>3, <3>1, OneArea
    <3> QED
      BY <3>1, <3>2
  <2> DEFINE Z == InUse(m.vma[r]) \ {old}
  <2>3. /\ Z \in SUBSET InUse(m.vma[r]) /\ InUse(w.vma[r]) = Z \cup K
        /\ \A a \in Z : Covered(a) \cap A = {}
    BY <1>4, <2>2
  <2>4. SameBeyond(m, w, A)
    BY DEF A
  <2> HIDE DEF Z, K
  <2>5. Guards(w) \subseteq (Guards(m) \ A) \cup GuardsOf(w, r, K)
    BY <1>4, <2>1, <2>3, <2>4, GuardsMade
  <2>6. GuardsOf(w, r, K) = {}
    <3>1. CASE r = "System"
      <4>1. base = old.base /\ base + n - 1 = VmaEnd(old)
        BY <3>1 DEF FreedIn
      <4> QED
        BY <1>3, <4>1, RestNone DEF GuardsOf, K
    <3>2. CASE r # "System"
      BY <3>2 DEF GuardsOf
    <3> QED
      BY <3>1, <3>2
  <2> QED
    BY <2>5, <2>6
<1>7. SoundOK(w)
  <2>1. PagesOK(w, {}, Guards(w))
    <3> DEFINE G == Guards(m) \ A
    <3>1. PagesOK(w, {}, G) /\ Guards(w) \subseteq G
      BY <1>6 DEF A
    <3> HIDE DEF G
    <3> QED
      BY <3>1, FewerGuards, VirtualIs
  <2>2. ASSUME NEW v \in Region("User") PROVE w.pte[v] # Device
    <3>1. v \in Virtual /\ m.pte[v] # Device
      BY <1>1, RegionIs DEF SoundOK
    <3>2. CASE v \in A
      <4>1. w.pte[v] = None
        BY <3>2 DEF A
      <4> QED
        BY <4>1, Constants DEF None, Device
    <3>3. CASE v \notin A
      BY <3>1, <3>3 DEF SameBeyond, A
    <3> QED
      BY <3>2, <3>3
  <2>3. ASSUME NEW v \in w.ended PROVE w.pte[v] # None
    <3>1. v \in Virtual /\ v \notin A
      BY DEF VMs, A
    <3>2. v \in m.ended /\ w.pte[v] = m.pte[v]
      BY <3>1 DEF SameBeyond, A
    <3> QED
      BY <1>1, <3>2 DEF SoundOK
  <2> QED
    BY <1>2, <2>1, <2>2, <2>3 DEF SoundOK
<1> QED
  BY <1>2, <1>4, <1>5, <1>7 DEF CoreOK

(* The areas stay, and only ptes inside areas of the user region change. *)
Keeping(m, w, A) ==
    /\ CoreOK(m) /\ ~m.starved /\ w \in VMs /\ FreeOK(w) /\ SameAreas(m, w) /\ SameBeyond(m, w, A)
    /\ \A r \in Regions : \A a \in m.vma[r] : Covered(a) \cap A = {} \/ (r = "User" /\ a.type # "Free")
    /\ ~w.starved => /\ PagesOK(w, {}, Guards(m))
                     /\ \A u \in A : w.pte[u] # Device /\ (u \in w.ended => w.pte[u] # None)

(* The invariant after that. *)
LEMMA AreasKept ==
    ASSUME NEW m, NEW w, NEW A, Keeping(m, w, A)
    PROVE  CoreOK(w) /\ (~m.starved /\ InstanceOK(m) => InstanceOK(w))
<1>0. /\ CoreOK(m) /\ ~m.starved /\ w \in VMs /\ FreeOK(w) /\ SameAreas(m, w) /\ SameBeyond(m, w, A)
      /\ \A r \in Regions : \A a \in m.vma[r] : Covered(a) \cap A = {} \/ (r = "User" /\ a.type # "Free")
      /\ ~w.starved => /\ PagesOK(w, {}, Guards(m))
                       /\ \A u \in A : w.pte[u] # Device /\ (u \in w.ended => w.pte[u] # None)
  BY DEF Keeping
<1>1. m \in VMs /\ AreasOK(m) /\ SoundOK(m) /\ w.vma = m.vma
  BY <1>0 DEF CoreOK, SameAreas
<1>2. ASSUME NEW r \in Regions, NEW a \in m.vma[r], r # "User" \/ a.type = "Free"
      PROVE  /\ FreeArea(m, r, a) => FreeArea(w, r, a)
             /\ UsedArea(m, r, a) => UsedArea(w, r, a)
             /\ w.pte[a.base] = m.pte[a.base]
  <2>1. a \in Areas /\ Covered(a) \subseteq Virtual
    BY <1>1, AreaInRegion
  <2>2. Covered(a) \subseteq Virtual \ A
    BY <1>0, <1>2, <2>1
  <2>3. w.pte[a.base] = m.pte[a.base]
    BY <1>0, <2>1, <2>2, AreaIs DEF SameBeyond
  <2> QED
    BY <1>0, <2>1, <2>2, <2>3, AreaStays
<1>3. AreasOK(w)
  BY <1>1, <1>2 DEF AreasOK
<1>4. UsedAreasOK(w)
  <2>1. ASSUME NEW r \in Regions, NEW a \in InUse(m.vma[r]) PROVE UsedArea(w, r, a)
    <3>1. a \in m.vma[r] /\ UsedArea(m, r, a)
      BY <1>1 DEF InUse, SoundOK, UsedAreasOK
    <3>2. CASE r = "User"
      BY <3>1, <3>2 DEF UsedArea
    <3>3. CASE r # "User"
      BY <1>2, <3>1, <3>3
    <3> QED
      BY <3>2, <3>3
  <2> QED
    BY <1>1, <2>1 DEF UsedAreasOK
<1>5. Guards(w) = Guards(m)
  <2>1. \A a \in m.vma["System"] : Guarded(w, a) <=> Guarded(m, a)
    BY <1>2 DEF Guarded, Regions
  <2> QED
    BY <1>1, <2>1 DEF Guards
<1>6. ASSUME ~w.starved PROVE SoundOK(w)
  <2>1. ASSUME NEW v \in Region("User") PROVE w.pte[v] # Device
    <3>1. v \in Virtual /\ m.pte[v] # Device
      BY <1>1, RegionIs DEF SoundOK
    <3> QED
      BY <1>0, <1>6, <3>1 DEF SameBeyond
  <2>2. ASSUME NEW v \in w.ended PROVE w.pte[v] # None
    <3>1. v \in Virtual
      BY <1>0 DEF VMs
    <3> QED
      BY <1>0, <1>1, <1>6, <3>1 DEF SameBeyond, SoundOK
  <2> QED
    BY <1>0, <1>4, <1>5, <1>6, <2>1, <2>2 DEF SoundOK
<1>7. w.reserved = m.reserved /\ w.instance = m.instance
  BY <1>0 DEF SameAreas
<1> QED
  BY <1>0, <1>1, <1>3, <1>6, <1>7 DEF CoreOK, InstanceOK

(* A caller is left without a page only when page tables have been made in the same call. *)
Explained(m, w) == w.starved => \E d \in Pdes : m.pde[d] = None /\ w.pde[d] # None

(* That is so when it would not be left without one if all tables were there. *)
LEMMA TablesExplain ==
    ASSUME NEW m, NEW t, NEW v \in Nat, NEW n \in Nat \ {0}, v..v + n - 1 \subseteq Virtual, NEW L, NEW G,
           AfterTables(m, t, Pde(v)..Pde(v + n - 1), L, G), NEW w, w.pde = t.pde, t = m => ~w.starved
    PROVE  Explained(m, w)
<1> DEFINE F == Pde(v)..Pde(v + n - 1)
<1>1. /\ \A e \in F : e \in Pdes /\ t.pde[e] # None
      /\ (\A e \in F : m.pde[e] # None) => t = m
  BY PdeRange DEF AfterTables
<1> QED
  BY <1>1 DEF Explained

(* The addresses at which a run of free pages is mapped are in one free area: an area in use  *)
(* would use one of the pages, and two free areas would have been merged.                  *)
LEMMA RunUnused ==
    ASSUME NEW m \in VMs, AreasOK(m), UsedAreasOK(m), NEW G, PagesOK(m, {}, G),
           NEW p \in Nat, NEW n \in Nat \ {0}, p..p + n - 1 \subseteq FreePages(m.free),
           FreePages(m.free) \subseteq Pages, NEW v, v = ContiguousFirst + p
    PROVE  \E old \in m.vma["Contiguous"] : old.type = "Free" /\ v..v + n - 1 \subseteq Covered(old)
<1> DEFINE X == m.vma["Contiguous"]
           A == v..v + n - 1
<1>1. /\ "Contiguous" \in Regions /\ X \in SUBSET Areas /\ TiledSet(X, Region("Contiguous"))
      /\ \A a \in X : a \in Areas /\ Covered(a) \subseteq Virtual
  <2>1. "Contiguous" \in Regions
    BY DEF Regions
  <2> QED
    BY <2>1, AreaInRegion
<1>2. v \in Nat /\ ContiguousFirst \in Nat /\ HighestPage \in Nat
  BY Constants
<1>3. ASSUME NEW u \in A PROVE u \in Region("Contiguous") /\ u - ContiguousFirst \in FreePages(m.free) /\ u \in Nat
  <2> DEFINE c == u - ContiguousFirst
  <2>1. c \in p..p + n - 1 /\ u \in Nat /\ u = ContiguousFirst + c
    BY <1>2
  <2>2. c \in FreePages(m.free) /\ c \in 0..HighestPage
    BY <2>1 DEF Pages
  <2>3. u \in ContiguousFirst..ContiguousLast
    BY <1>2, <2>1, <2>2 DEF ContiguousLast
  <2> QED
    BY <2>1, <2>2, <2>3, RegionIs
<1>4. ASSUME NEW u \in A PROVE \E a \in X : u \in Covered(a) /\ a.type = "Free"
  <2>1. PICK a \in X : u \in Covered(a)
    BY <1>1, <1>3 DEF TiledSet
  <2>2. ASSUME a.type # "Free" PROVE FALSE
    <3>1. UsedArea(m, "Contiguous", a)
      BY <1>1, <2>2 DEF UsedAreasOK, InUse
    <3>2. m.pte[u] = u - ContiguousFirst /\ m.pte[u] \in Pages /\ u \in Virtual
      BY <1>1, <2>1, <3>1 DEF UsedArea
    <3>3. m.pte[u] \notin FreePages(m.free)
      BY <3>2, MappedPage
    <3> QED
      BY <1>3, <3>2, <3>3
  <2> QED
    BY <2>1, <2>2
<1>5. v \in A
  BY <1>2
<1>6. PICK old \in X : v \in Covered(old) /\ old.type = "Free"
  BY <1>4, <1>5
<1> DEFINE e == VmaEnd(old)
<1>7. old.base \in Nat /\ e \in Nat /\ old.base <= v /\ v <= e
  BY <1>1, <1>6, AreaIs
<1>8. ASSUME e < v + n - 1 PROVE FALSE
  <2>1. e + 1 \in A
    BY <1>2, <1>7, <1>8
  <2>2. PICK c \in X : e + 1 \in Covered(c) /\ c.type = "Free"
    BY <1>4, <2>1
  <2>3. c.base \in Nat /\ VmaEnd(c) \in Nat /\ c.base <= e + 1 /\ e + 1 <= VmaEnd(c)
    BY <1>1, <2>2, AreaIs
  <2>4. c # old
    BY <1>7, <2>3
  <2>5. /\ e < c.base \/ VmaEnd(c) < old.base
        /\ e + 1 = c.base => "Free" \notin {old.type} \cap {c.type}
    BY <1>1, <2>4 DEF TiledSet
  <2>6. e + 1 = c.base
    BY <1>7, <2>3, <2>5
  <2> QED
    BY <1>6, <2>2, <2>5, <2>6
<1>9. A \subseteq Covered(old)
  <2> SUFFICES ASSUME NEW u \in A PROVE u \in Covered(old)
    OBVIOUS
  <2>1. u \in Nat /\ old.base <= u /\ u <= e
    BY <1>2, <1>7, <1>8
  <2> QED
    BY <1>1, <2>1, AreaIs
<1> QED
  BY <1>6, <1>9

(* What happens to the pages r.pfn..r.pfn + n - 1 that a request has found. *)
RunTaken(m, w, r, n) ==
    LET v == ContiguousFirst + r.pfn
        t == AllocatePT(Taken(m, r, n), v, n)
    IN  /\ AfterTables(Taken(m, r, n), t, Pde(v)..Pde(v + n - 1), r.pfn..r.pfn + n - 1, Guards(m))
        /\ w.free = t.free /\ w.available = t.available /\ w.pde = t.pde /\ w.starved = t.starved
        /\ Vma(v, n, "Allocated") \in InUse(w.vma["Contiguous"])

(* The contiguous areas in use stay in use. *)
KeepsAreas(m, w) == InUse(m.vma["Contiguous"]) \subseteq InUse(w.vma["Contiguous"])

(* AllocateContiguousMemoryInternal keeps the invariant, whether it finds pages or not. *)
LEMMA ContiguousPagesIs ==
    ASSUME NEW m, CoreOK(m), ~m.starved, NEW n \in Nat \ {0}, NEW align \in Nat, NEW lo \in Nat, NEW hi \in Nat,
           Alignable(m.free, n, align, lo, hi)
    PROVE  LET w == ContiguousPages(m, n, align, lo, hi)
               r == RemoveFree(m.free, n, align, lo, hi)
           IN  /\ CoreOK(w) /\ w.instance = m.instance /\ KeepsAreas(m, w) /\ Explained(m, w)
               /\ r.found /\ CanAllocatePT(Taken(m, r, n), ContiguousFirst + r.pfn, n) => RunTaken(m, w, r, n)
<1> DEFINE r == RemoveFree(m.free, n, align, lo, hi)
           m1 == Taken(m, r, n)
           p == r.pfn
           q == p + n - 1
           v == ContiguousFirst + p
           last == v + n - 1
           t == AllocatePT(m1, v, n)
           done == WritePfn(WritePte(t, v, last, p), p, q, "Contiguous")
           y == [done EXCEPT !.ended = @ \cup {last}]
           w == ContiguousPages(m, n, align, lo, hi)
           G == Guards(m)
           A == v..last
<1>1. /\ m \in VMs /\ FreeOK(m) /\ AreasOK(m) /\ UsedAreasOK(m) /\ PagesOK(m, {}, G)
      /\ FreePages(m.free) \subseteq Pages
  BY DEF CoreOK, SoundOK, FreeOK
<1>2. CASE ~r.found
  <2>1. w = m
    BY <1>2 DEF ContiguousPages
  <2> QED
    BY <1>2, <2>1 DEF KeepsAreas, Explained
<1>3. CASE r.found
  <2>1. /\ m1 \in VMs /\ FreeOK(m1)
        /\ p \in Pages /\ q \in Pages /\ p..q \subseteq Pages
        /\ p..q \subseteq FreePages(m.free) /\ FreePages(m1.free) = FreePages(m.free) \ (p..q)
        /\ SameFrames(m, m1) /\ SameMaps(m, m1) /\ SameAreas(m, m1) /\ m1.starved = m.starved
    <3>1. LET z == Taken(m, r, n)
              P == r.pfn..r.pfn + n - 1
          IN  /\ z \in VMs /\ FreeOK(z)
              /\ r.pfn \in Pages /\ r.pfn + n - 1 \in Pages /\ P \subseteq Pages
              /\ lo <= r.pfn /\ r.pfn + n - 1 <= hi
              /\ P \subseteq FreePages(m.free) /\ FreePages(z.free) = FreePages(m.free) \ P
              /\ z.available = m.available - n
              /\ SameFrames(m, z) /\ SameMaps(m, z) /\ SameAreas(m, z) /\ z.starved = m.starved
      BY <1>1, <1>3, TakeFree
    <3> HIDE DEF r
    <3> QED
      BY <3>1
  <2> HIDE DEF r, m1
  <2>2. p \in Nat /\ v \in Nat /\ last \in Nat /\ p <= q /\ v <= last /\ last = v + n - 1
    BY <2>1, Constants DEF Pages
  <2>3. PICK old \in m.vma["Contiguous"] : old.type = "Free" /\ v..v + n - 1 \subseteq Covered(old)
    BY <1>1, <2>1, <2>2, RunUnused
  <2>4. /\ "Contiguous" \in Regions /\ Covered(old) \subseteq Virtual
        /\ A \subseteq Virtual /\ \A u \in A : m.pte[u] = None /\ u \notin G
    <3>1. "Contiguous" \in Regions
      BY DEF Regions
    <3>2. Covered(old) \subseteq Virtual /\ Covered(old) \cap G = {} /\ FreeArea(m, "Contiguous", old)
      BY <1>1, <2>3, <3>1, AreaInRegion, GuardsAway DEF AreasOK
    <3> QED
      BY <2>2, <2>3, <3>1, <3>2 DEF FreeArea
  <2>5. PagesOK(m1, p..q, G)
    <3>1. /\ (p..q) \cap FreePages(m1.free) = {}
          /\ FreePages(m1.free) \cup (p..q) = FreePages(m.free) \cup {}
          /\ m1.pde = m.pde /\ m1.pte = m.pte
      BY <2>1 DEF SameMaps
    <3> DEFINE K == p..q
    <3>2. /\ K \in SUBSET Pages /\ K \cap FreePages(m1.free) = {}
          /\ FreePages(m1.free) \cup K = FreePages(m.free) \cup {}
      BY <2>1, <3>1
    <3> HIDE DEF K
    <3>3. PagesOK(m1, K, G)
      BY <1>1, <2>1, <3>1, <3>2, PagesMove
    <3> QED
      BY <3>3 DEF K
  <2>6. CASE ~CanAllocatePT(m1, v, n)
    <3>1. w = Released(m1, p, q)
      BY <1>3, <2>1, <2>6 DEF ContiguousPages, r, m1
    <3>2. /\ w \in VMs /\ FreeOK(w)
          /\ FreePages(w.free) = FreePages(m1.free) \cup (p..q)
          /\ SameFrames(m1, w) /\ SameMaps(m1, w) /\ SameAreas(m1, w) /\ w.starved = m1.starved
      <4>1. p..q \cap FreePages(m1.free) = {}
        BY <2>1
      <4> QED
        BY <2>1, <2>2, <3>1, <4>1, ReleaseFree
    <3> HIDE DEF w
    <3>3. PagesOK(w, {}, G)
      <4>1. /\ {} \in SUBSET Pages /\ {} \cap FreePages(w.free) = {} /\ w.pde = m1.pde /\ w.pte = m1.pte
            /\ FreePages(w.free) \cup {} = FreePages(m1.free) \cup (p..q)
        BY <3>2 DEF SameMaps
      <4> QED
        BY <2>5, <3>2, <4>1, PagesMove
    <3>4. Keeping(m, w, {})
      <4>1. SameAreas(m, w) /\ SameBeyond(m, w, {})
        BY <2>1, <3>2 DEF SameAreas, SameMaps, SameBeyond
      <4> QED
        BY <3>2, <3>3, <4>1 DEF Keeping
    <3>5. w.vma = m.vma /\ w.instance = m.instance
      BY <2>1, <3>2 DEF SameAreas
    <3>6. Explained(m, w)
      BY <2>1, <3>2 DEF Explained
    <3> QED
      BY <2>6, <3>4, <3>5, <3>6, AreasKept DEF w, r, m1, KeepsAreas
  <2>7. CASE CanAllocatePT(m1, v, n)
    <3>1. w = ConstructVMA(y, "Contiguous", v, n, "Allocated")
      BY <1>3, <2>1, <2>7 DEF ContiguousPages, r, m1
    <3> HIDE DEF w
    <3>2. AfterTables(m1, t, Pde(v)..Pde(v + n - 1), p..q, G)
      BY <2>1, <2>2, <2>4, AllocatePTIs
    <3> HIDE DEF t
    <3>3. /\ t \in VMs /\ FreeOK(t) /\ t.pte = m.pte /\ t.ended = m.ended /\ SameAreas(m, t)
          /\ \A u \in A : t.pde[Pde(u)] # None
          /\ ~t.starved => PagesOK(t, p..q, G)
      <4>1. \A u \in A : Pde(u) \in Pde(v)..Pde(v + n - 1)
        BY <2>2, <2>4, PdeRange
      <4> QED
        BY <2>1, <2>5, <3>2, <4>1 DEF AfterTables, SameMaps, SameAreas
    <3>4. /\ MappedAt(t, done, A)
          /\ \A u \in A : done.pte[u] = u - ContiguousFirst /\ u - ContiguousFirst \in Pages
          /\ ~t.starved => PagesOK(done, {}, G)
      <4>1. \A u \in v..last : u \in Virtual \ G /\ t.pte[u] = None /\ t.pde[Pde(u)] # None
        BY <2>4, <3>3
      <4>2. LET z == WritePfn(WritePte(t, v, last, p), p, q, "Contiguous")
            IN  /\ MappedAt(t, z, v..last)
                /\ \A u \in v..last : z.pte[u] = u - ContiguousFirst /\ u - ContiguousFirst \in Pages
                /\ PagesOK(t, p..q, G) => PagesOK(z, {}, G)
        BY <2>1, <2>2, <3>3, <4>1, MapRunIs
      <4> QED
        BY <3>3, <4>2
    <3> HIDE DEF done
    <3>5. /\ done \in VMs /\ FreeOK(done) /\ SameAreas(m, done) /\ done.starved = t.starved /\ done.pde = t.pde
          /\ \A u \in Virtual \ A : done.pte[u] = m.pte[u]
          /\ done.ended = m.ended
      BY <3>3, <3>4 DEF MappedAt, SameAreas
    <3>6. /\ y \in VMs /\ SameFree(done, y) /\ SameFrames(done, y) /\ y.pde = done.pde /\ y.pte = done.pte
          /\ y.ended = m.ended \cup {last} /\ SameAreas(done, y) /\ y.starved = done.starved
      <4>1. last \in Virtual
        BY <2>2, <2>4
      <4> QED
        BY <3>5, <4>1 DEF VMs, SameFree, SameFrames, SameAreas
    <3> HIDE DEF y
    <3>7. /\ w \in VMs /\ SameFree(y, w) /\ SameFrames(y, w) /\ SameMaps(y, w)
          /\ w.instance = y.instance /\ w.reserved = y.reserved /\ w.starved = y.starved
          /\ VmaMade(y, w, "Contiguous", old, v, n, "Allocated")
      <4> DEFINE R == Region("Contiguous")
      <4>1. /\ y \in VMs /\ "Contiguous" \in Regions /\ R \subseteq Virtual /\ TiledSet(y.vma["Contiguous"], R)
            /\ old \in y.vma["Contiguous"] /\ old.type = "Free" /\ v \in Nat /\ n \in Nat \ {0}
            /\ v..v + n - 1 \subseteq Covered(old) /\ "Allocated" \in {"Reserved", "Allocated"}
        <5>1. y.vma = m.vma
          BY <3>5, <3>6 DEF SameAreas
        <5> QED
          BY <1>1, <2>2, <2>3, <2>4, <3>6, <5>1, AreaInRegion, RegionIs
      <4> HIDE DEF R, v
      <4>2. LET z == ConstructVMA(y, "Contiguous", v, n, "Allocated")
            IN  /\ z \in VMs /\ SameFree(y, z) /\ SameFrames(y, z) /\ SameMaps(y, z)
                /\ z.instance = y.instance /\ z.reserved = y.reserved /\ z.starved = y.starved
                /\ VmaMade(y, z, "Contiguous", old, v, n, "Allocated")
        BY ONLY <4>1, ConstructVMAIs
      <4> QED
        BY <3>1, <4>2
    <3>8. VmaMade(m, w, "Contiguous", old, v, n, "Allocated")
      <4>1. y.vma = m.vma
        BY <3>5, <3>6 DEF SameAreas
      <4> QED
        BY <3>7, <4>1 DEF VmaMade
    <3>9. SameBeyond(m, w, A)
      <4>1. last \in A
        BY <2>2
      <4> QED
        BY <3>5, <3>6, <3>7, <4>1 DEF SameBeyond, SameMaps
    <3>10. FreeOK(w) /\ w.free = t.free /\ w.available = t.available /\ w.pde = t.pde /\ w.starved = t.starved
      <4>1. w.free = done.free /\ w.available = done.available
        BY <3>6, <3>7 DEF SameFree
      <4>2. w.pde = t.pde /\ w.starved = t.starved
        BY <3>5, <3>6, <3>7 DEF SameMaps
      <4> QED
        BY <3>4, <3>5, <4>1, <4>2 DEF MappedAt, SameFree, FreeOK
    <3>11. ASSUME ~w.starved
           PROVE  /\ PagesOK(w, {}, G \cup {}) /\ UsedArea(w, "Contiguous", Vma(v, n, "Allocated"))
                  /\ \A u \in A : u \in w.ended => w.pte[u] # None
      <4>1. PagesOK(done, {}, G)
        BY <3>4, <3>10, <3>11
      <4>2. /\ SameFrames(done, w) /\ w.pde = done.pde /\ w.pte = done.pte /\ w.free = done.free
            /\ w.ended = m.ended \cup {last}
        BY <3>6, <3>7 DEF SameFrames, SameMaps, SameFree
      <4>3. PagesOK(w, {}, G)
        <5>1. /\ {} \in SUBSET Pages /\ {} \cap FreePages(w.free) = {}
              /\ FreePages(w.free) \cup {} = FreePages(done.free) \cup {}
          BY <4>2
        <5> QED
          BY <4>1, <4>2, <5>1, PagesMove
      <4>4. \A u \in A : w.pte[u] = u - ContiguousFirst /\ u - ContiguousFirst \in Pages /\ w.pte[u] # None
        <5>1. \A x \in Pages : x # None
          BY Constants DEF Pages, None
        <5> QED
          BY <3>4, <4>2, <5>1
      <4>5. \A u \in A : u \in w.ended <=> u = last
        <5>1. \A u \in A : u \notin m.ended
          BY <1>1, <2>4 DEF CoreOK, SoundOK
        <5> QED
          BY <2>2, <4>2, <5>1
      <4>6. LET a == Vma(v, n, "Allocated")
            IN  a.type = "Allocated" /\ Covered(a) = A /\ VmaEnd(a) = last
        BY <2>2 DEF Vma, Covered, VmaEnd
      <4>7. UsedArea(w, "Contiguous", Vma(v, n, "Allocated"))
        BY <4>4, <4>5, <4>6 DEF UsedArea
      <4> QED
        BY <4>3, <4>4, <4>7
    <3>12. Making(m, w, "Contiguous", old, v, n, "Allocated", {})
      <4>1. MadeIn(m, w, "Contiguous", old, v, n, "Allocated")
        BY <1>1, <2>2, <2>3, <2>4, <3>7, <3>8, <3>9 DEF MadeIn
      <4>2. w.reserved = m.reserved /\ w.instance = m.instance /\ m.reserved \in Int
        BY <1>1, <3>5, <3>6, <3>7 DEF SameAreas, VMs
      <4> QED
        BY <3>10, <3>11, <4>1, <4>2 DEF Making
    <3>13. /\ CoreOK(w)
           /\ InUse(m.vma["Contiguous"]) \subseteq InUse(w.vma["Contiguous"])
           /\ InUse(w.vma["Contiguous"]) = InUse(m.vma["Contiguous"]) \cup {Vma(v, n, "Allocated")}
      BY <3>12, AreaMade
    <3>14. RunTaken(m, w, r, n)
      BY <3>2, <3>10, <3>13 DEF RunTaken, t, m1
    <3>15. w.instance = m.instance
      BY <3>5, <3>6, <3>7 DEF SameAreas
    <3>16. Explained(m, w)
      <4>1. t = m1 => ~w.starved
        BY <2>1, <3>10
      <4>2. v..v + n - 1 \subseteq Virtual
        BY <2>4
      <4>3. Explained(m1, w)
        BY <2>2, <3>2, <3>10, <4>1, <4>2, TablesExplain
      <4> QED
        BY <2>1, <4>3 DEF Explained, SameMaps
    <3> QED
      BY <3>13, <3>14, <3>15, <3>16 DEF w, r, m1, KeepsAreas
  <2> QED
    BY <2>6, <2>7 DEF r, m1
<1> QED
  BY <1>2, <1>3

(* The instance memory stays where the other areas change. *)
LEMMA InstanceStays ==
    ASSUME NEW m, InstanceOK(m), NEW w, w.instance = m.instance,
           NEW a, ~(a.base = ContiguousFirst + HighestPage + 1 - m.instance) \/ a.type = "Free",
           InUse(m.vma["Contiguous"]) \ {a} \subseteq InUse(w.vma["Contiguous"])
    PROVE  InstanceOK(w)
<1> SUFFICES ASSUME m.instance > 0
             PROVE  Vma(ContiguousFirst + HighestPage + 1 - m.instance, m.instance, "Allocated") \in w.vma["Contiguous"]
  BY DEF InstanceOK, InstanceIn
<1> DEFINE i == Vma(ContiguousFirst + HighestPage + 1 - m.instance, m.instance, "Allocated")
<1>1. i \in m.vma["Contiguous"]
  BY DEF InstanceOK, InstanceIn
<1>2. i.type = "Allocated" /\ i.base = ContiguousFirst + HighestPage + 1 - m.instance
  BY DEF Vma
<1> HIDE DEF i
<1>3. i \in InUse(m.vma["Contiguous"]) /\ i # a
  BY <1>1, <1>2 DEF InUse
<1>4. i \in w.vma["Contiguous"]
  BY <1>3 DEF InUse
<1> QED
  BY <1>4 DEF i

(* AllocateContiguousMemory. *)
LEMMA AllocateContiguousStep ==
    ASSUME VMInv(vm), AllocateContiguousMemory, ~broken'
    PROVE  VMInv(vm') /\ Explained(vm, vm')
<1>1. PICK n \in Sizes, align \in Alignments, range \in Ranges :
         LET hi == Min({range[2], MaxContiguousPfn})
             lo == Min({range[1], hi})
         IN  /\ IsMappable(n)
             /\ vm' = ContiguousPages(vm, n, align, lo, hi)
             /\ broken' = (RemoveFree(vm.free, n, align, lo, hi).pfn \notin Pages)
  BY DEF AllocateContiguousMemory
<1>2. /\ n \in Nat \ {0} /\ align \in Nat /\ range[1] \in Nat /\ range[2] \in Nat /\ MaxContiguousPfn \in Nat
      /\ CoreOK(vm) /\ ~vm.starved /\ InstanceOK(vm)
  BY <1>1, VMAssumption DEF VMInv, IsMappable, Running
<1> DEFINE hi == Min({range[2], MaxContiguousPfn})
<1>3. hi \in Nat
  <2> DEFINE x == range[2]
  <2>1. x \in Int /\ MaxContiguousPfn \in Int /\ x \in Nat
    BY <1>2
  <2> HIDE DEF x
  <2>2. Min({x, MaxContiguousPfn}) = IF x <= MaxContiguousPfn THEN x ELSE MaxContiguousPfn
    BY <2>1, MaxMin
  <2> QED
    BY <1>2, <2>1, <2>2 DEF x
<1> HIDE DEF hi
<1> DEFINE lo == Min({range[1], hi})
<1>4. lo \in Nat
  <2> DEFINE x == range[1]
  <2>1. x \in Int /\ hi \in Int /\ x \in Nat
    BY <1>2, <1>3
  <2> HIDE DEF x
  <2>2. Min({x, hi}) = IF x <= hi THEN x ELSE hi
    BY <2>1, MaxMin
  <2> QED
    BY <1>3, <2>1, <2>2 DEF x
<1> HIDE DEF lo
<1>5. vm' = ContiguousPages(vm, n, align, lo, hi) /\ Alignable(vm.free, n, align, lo, hi)
  <2>1. /\ vm' = ContiguousPages(vm, n, align, lo, hi)
        /\ RemoveFree(vm.free, n, align, lo, hi).pfn \in Pages
    BY <1>1 DEF lo, hi
  <2>2. vm.free \in Seq(Blocks) /\ Coalesced(vm.free) /\ FreePages(vm.free) \subseteq Pages
    BY <1>2 DEF CoreOK, VMs, FreeOK
  <2> QED
    BY <1>3, <1>4, <2>1, <2>2, UnalignableOutside
<1> DEFINE w == ContiguousPages(vm, n, align, lo, hi)
<1>6. CoreOK(w) /\ w.instance = vm.instance /\ KeepsAreas(vm, w) /\ Explained(vm, w)
  <2>1. /\ CoreOK(vm) /\ ~vm.starved /\ n \in Nat \ {0} /\ align \in Nat /\ lo \in Nat /\ hi \in Nat
        /\ Alignable(vm.free, n, align, lo, hi)
    BY <1>2, <1>3, <1>4, <1>5
  <2> HIDE DEF lo
  <2> QED
    BY ONLY <2>1, ContiguousPagesIs
<1> HIDE DEF w
<1>7. InstanceOK(w)
  <2> DEFINE a == Vma(0, 0, "Free")
  <2>1. a.type = "Free" /\ InUse(vm.vma["Contiguous"]) \ {a} \subseteq InUse(w.vma["Contiguous"])
    BY <1>6 DEF Vma, KeepsAreas
  <2> HIDE DEF a
  <2> QED
    BY <1>2, <1>6, <2>1, InstanceStays
<1> QED
  BY <1>5, <1>6, <1>7 DEF VMInv, w

(* The physical pages of a run have been freed and its ptes zeroed. *)
Cleared(m, x, A, G) ==
    /\ x \in VMs /\ FreeOK(x) /\ PagesOK(x, {}, G)
    /\ x.pde = m.pde /\ SameAreas(m, x) /\ x.starved = m.starved
    /\ SameBeyond(m, x, A)
    /\ \A u \in A : x.pte[u] = None /\ u \notin x.ended

(* A guard page has no page to free and no pte to zero. *)
LEMMA UnmappedCleared ==
    ASSUME NEW m, \A u \in m.ended : m.pte[u] # None, NEW A \in SUBSET Virtual, NEW B \in SUBSET A,
           \A u \in A \ B : m.pte[u] = None, NEW G, NEW x, Unmapped(m, x, B, G)
    PROVE  Cleared(m, x, A, G)
BY DEF Cleared, Unmapped, SameBeyond

(* The pages of an area that is in use have page tables. *)
LEMMA AreaHasTables ==
    ASSUME NEW m, CoreOK(m), ~m.starved, NEW r \in {"System", "Contiguous"}, NEW a \in m.vma[r], a.type # "Free",
           NEW u \in Covered(a)
    PROVE  m.pde[Pde(u)] # None
<1>1. m \in VMs /\ AreasOK(m) /\ UsedAreasOK(m) /\ PagesOK(m, {}, Guards(m))
  BY DEF CoreOK, SoundOK
<1>2. r \in Regions /\ a \in Areas /\ u \in Virtual
  <2>1. r \in Regions
    BY DEF Regions
  <2> QED
    BY <1>1, <2>1, AreaInRegion
<1>3. UsedArea(m, r, a) /\ a.type \in {"Reserved", "Allocated"}
  <2>1. a \in InUse(m.vma[r])
    BY DEF InUse
  <2> QED
    BY <1>1, <1>2, <2>1, AreaIs DEF UsedAreasOK
<1>4. \A p \in Pages : p # None
  BY Constants DEF Pages, None
<1>5. Device # None
  BY Constants DEF Device, None
<1>6. m.pte[u] # None \/ u \in Guards(m)
  <2>1. CASE r = "Contiguous"
    BY <1>3, <1>4, <2>1 DEF UsedArea
  <2>2. CASE r = "System" /\ a.type = "Reserved"
    BY <1>3, <1>5, <2>2 DEF UsedArea
  <2>3. CASE r = "System" /\ a.type = "Allocated"
    <3>1. CASE u # a.base
      BY <1>3, <1>4, <2>3, <3>1 DEF UsedArea
    <3>2. CASE u = a.base /\ m.pte[u] = None
      BY <2>3, <3>2 DEF Guards, Guarded
    <3> QED
      BY <3>1, <3>2
  <2> QED
    BY <1>3, <2>1, <2>2, <2>3
<1> QED
  BY <1>1, <1>2, <1>6 DEF PagesOK, CountsOK

(* A whole area becomes free, and then the page tables it leaves empty. *)
LEMMA AreaReleased ==
    ASSUME NEW m, CoreOK(m), ~m.starved, NEW r \in {"System", "Contiguous"}, NEW a \in m.vma[r], a.type # "Free",
           NEW x, Cleared(m, x, Covered(a), Guards(m) \ Covered(a))
    PROVE  LET w == DeallocatePT(DestructVMA(x, r, a.base, a.size), a.base, a.size)
           IN  /\ CoreOK(w) /\ w.instance = m.instance /\ w.starved = m.starved
               /\ AreasAre(m, w, r, InUse(m.vma[r]) \ {a})
<1> DEFINE base == a.base
           n == a.size
           G == Guards(m) \ Covered(a)
           y == DestructVMA(x, r, base, n)
           w == DeallocatePT(y, base, n)
<1>1. m \in VMs /\ AreasOK(m) /\ UsedAreasOK(m)
  BY DEF CoreOK, SoundOK
<1>2. /\ r \in Regions /\ a \in Areas /\ Covered(a) \subseteq Virtual
      /\ TiledSet(m.vma[r], Region(r)) /\ Region(r) \subseteq Virtual
  <2>1. r \in Regions
    BY DEF Regions
  <2> QED
    BY <1>1, <2>1, AreaInRegion, RegionIs
<1>3. base \in Nat /\ n \in Nat \ {0} /\ base + n - 1 = VmaEnd(a) /\ base..base + n - 1 = Covered(a)
  <2>1. base \in Nat /\ n \in Nat \ {0} /\ base + n - 1 = VmaEnd(a)
    BY <1>2, AreaIs
  <2> QED
    BY <2>1 DEF Covered
<1>4. /\ x \in VMs /\ FreeOK(x) /\ PagesOK(x, {}, G) /\ x.pde = m.pde /\ x.starved = m.starved
      /\ x.vma = m.vma /\ x.instance = m.instance /\ x.reserved = m.reserved
      /\ SameBeyond(m, x, Covered(a))
      /\ \A u \in Covered(a) : x.pte[u] = None /\ u \notin x.ended
  BY DEF Cleared, SameAreas
<1> HIDE DEF base, n, G
<1>5. /\ y \in VMs /\ SameFree(x, y) /\ SameFrames(x, y) /\ SameMaps(x, y)
      /\ y.instance = x.instance /\ y.reserved = x.reserved /\ y.starved = x.starved
      /\ VmaFreed(x, y, r, a, base, n)
  <2> DEFINE R == Region(r)
  <2>1. /\ x \in VMs /\ r \in Regions /\ R \subseteq Virtual /\ TiledSet(x.vma[r], R) /\ a \in x.vma[r]
        /\ a.type # "Free" /\ base \in Nat /\ n \in Nat \ {0} /\ base..base + n - 1 \subseteq Covered(a)
    BY <1>2, <1>3, <1>4
  <2> HIDE DEF R
  <2>2. LET z == DestructVMA(x, r, base, n)
        IN  /\ z \in VMs /\ SameFree(x, z) /\ SameFrames(x, z) /\ SameMaps(x, z)
            /\ z.instance = x.instance /\ z.reserved = x.reserved /\ z.starved = x.starved
            /\ VmaFreed(x, z, r, a, base, n)
    BY ONLY <2>1, DestructVMAIs
  <2> QED
    BY <2>2
<1> HIDE DEF y
<1>6. FreeOK(y) /\ PagesOK(y, {}, G)
  <2>1. FreeOK(y)
    BY <1>4, <1>5 DEF FreeOK, SameFree
  <2>2. /\ {} \in SUBSET Pages /\ {} \cap FreePages(y.free) = {} /\ y.pde = x.pde /\ y.pte = x.pte
        /\ FreePages(y.free) \cup {} = FreePages(x.free) \cup {}
    BY <1>5 DEF SameFree, SameMaps
  <2> QED
    BY <1>4, <1>5, <2>1, <2>2, PagesMove
<1>7. w \in VMs /\ FreeOK(w) /\ PagesOK(w, {}, G) /\ SameOutside(y, w)
  <2>1. base..base + n - 1 \subseteq Virtual /\ \A u \in base..base + n - 1 : y.pde[Pde(u)] # None
    <3>1. y.pde = m.pde
      BY <1>4, <1>5 DEF SameMaps
    <3> QED
      BY <1>2, <1>3, <3>1, AreaHasTables
  <2> QED
    BY <1>3, <1>5, <1>6, <2>1, DeallocatePTIs
<1> HIDE DEF w
<1>8. /\ w.pte = x.pte /\ w.ended = x.ended /\ w.reserved = m.reserved /\ w.instance = m.instance
      /\ w.starved = m.starved /\ VmaFreed(m, w, r, a, base, n)
  BY <1>4, <1>5, <1>7 DEF SameOutside, SameAreas, SameMaps, VmaFreed
<1>9. Rest(a, base, n) = {}
  BY <1>2, <1>3, RestNone DEF base
<1>10. FreedIn(m, w, r, a, base, n)
  <2>1. SameBeyond(m, w, base..base + n - 1) /\ \A u \in base..base + n - 1 : w.pte[u] = None
    BY <1>3, <1>4, <1>8 DEF SameBeyond
  <2>2. base = a.base
    BY DEF base
  <2> QED
    BY <1>1, <1>2, <1>3, <1>7, <1>8, <1>9, <2>1, <2>2 DEF FreedIn
<1>11. Freeing(m, w, r, a, base, n)
  <2>1. w.reserved = m.reserved - (IF r = "User" THEN n ELSE 0)
    <3>1. m.reserved \in Int
      BY <1>1 DEF VMs
    <3> QED
      BY <1>8, <3>1
  <2>2. PagesOK(w, {}, Guards(m) \ (base..base + n - 1))
    BY <1>3, <1>7 DEF G
  <2>3. \A u \in base..base + n - 1 : u \notin w.ended
    BY <1>3, <1>4, <1>8
  <2> QED
    BY <1>7, <1>10, <2>1, <2>2, <2>3 DEF Freeing
<1>12. CoreOK(w) /\ AreasAre(m, w, r, (InUse(m.vma[r]) \ {a}) \cup Rest(a, base, n))
  BY <1>11, AreaFreed
<1>13. AreasAre(m, w, r, InUse(m.vma[r]) \ {a})
  BY <1>9, <1>12
<1> QED
  BY <1>8, <1>12, <1>13 DEF w, y, base, n

(* The pages outside of an area's are guarded by fewer pages. *)
LEMMA GuardsWithout ==
    ASSUME NEW m, CoreOK(m), ~m.starved, NEW r \in Regions, NEW a \in m.vma[r]
    PROVE  /\ PagesOK(m, {}, Guards(m) \ Covered(a))
           /\ Covered(a) \cap (Guards(m) \ Covered(a)) = {}
<1>1. m \in VMs /\ PagesOK(m, {}, Guards(m))
  BY DEF CoreOK, SoundOK
<1> DEFINE H == Guards(m) \ Covered(a)
<1>2. H \in SUBSET Guards(m)
  OBVIOUS
<1> HIDE DEF H
<1>3. PagesOK(m, {}, H)
  BY <1>1, <1>2, FewerGuards, VirtualIs
<1> QED
  BY <1>3 DEF H

(* What an invariant state says of an area that is in use. *)
LEMMA UsedAreaIs ==
    ASSUME NEW m, CoreOK(m), ~m.starved, NEW r \in Regions, NEW a \in m.vma[r], a.type # "Free"
    PROVE  /\ m \in VMs /\ FreeOK(m) /\ AreasOK(m) /\ UsedAreasOK(m) /\ \A u \in m.ended : m.pte[u] # None
           /\ a \in Areas /\ Covered(a) \subseteq Virtual /\ Covered(a) \subseteq Region(r)
           /\ a.type \in {"Reserved", "Allocated"} /\ UsedArea(m, r, a)
           /\ a.base \in Nat /\ a.size \in Nat \ {0} /\ VmaEnd(a) \in Nat /\ a.base <= VmaEnd(a)
           /\ VmaEnd(a) = a.base + a.size - 1 /\ Covered(a) = a.base..VmaEnd(a)
           /\ TiledSet(m.vma[r], Region(r)) /\ Region(r) \subseteq Virtual
           /\ PagesOK(m, {}, Guards(m) \ Covered(a))
           /\ Covered(a) \cap (Guards(m) \ Covered(a)) = {}
<1>1. /\ m \in VMs /\ FreeOK(m) /\ AreasOK(m) /\ UsedAreasOK(m) /\ \A u \in m.ended : m.pte[u] # None
  BY DEF CoreOK, SoundOK
<1>2. /\ a \in Areas /\ Covered(a) \subseteq Virtual /\ Covered(a) \subseteq Region(r)
      /\ TiledSet(m.vma[r], Region(r)) /\ Region(r) \subseteq Virtual
  BY <1>1, AreaInRegion, RegionIs
<1>3. a \in InUse(m.vma[r])
  BY DEF InUse
<1>4. UsedArea(m, r, a)
  BY <1>1, <1>3 DEF UsedAreasOK
<1>5. /\ a.type \in {"Reserved", "Allocated"}
      /\ a.base \in Nat /\ a.size \in Nat \ {0} /\ VmaEnd(a) \in Nat /\ a.base <= VmaEnd(a)
      /\ VmaEnd(a) = a.base + a.size - 1 /\ Covered(a) = a.base..VmaEnd(a)
  BY <1>2, AreaIs DEF Covered
<1> QED
  BY <1>1, <1>2, <1>4, <1>5, GuardsWithout

(* DeallocateContiguousMemory. *)
LEMMA DeallocateContiguousStep ==
    ASSUME VMInv(vm), DeallocateContiguousMemory
    PROVE  VMInv(vm') /\ Explained(vm, vm')
<1>1. ~vm.starved /\ CoreOK(vm) /\ InstanceOK(vm)
  BY DEF VMInv, DeallocateContiguousMemory, Running
<1>2. PICK a \in Owned :
        LET p == vm.pte[a.base]
            q == p + a.size - 1
            m == ZeroPte(ZeroPfn(Released(vm, p, q), p, q, "Contiguous"), a.base, VmaEnd(a))
        IN  vm' = DeallocatePT(DestructVMA(m, "Contiguous", a.base, a.size), a.base, a.size)
  BY DEF DeallocateContiguousMemory
<1> DEFINE G == Guards(vm) \ Covered(a)
           A == Covered(a)
           v == a.base
           n == a.size
           last == VmaEnd(a)
           p == vm.pte[v]
           q == p + n - 1
           x == ZeroPfn(Released(vm, p, q), p, q, "Contiguous")
           y == ZeroPte(x, v, last)
           w == DeallocatePT(DestructVMA(y, "Contiguous", v, n), v, n)
<1>3. /\ a \in vm.vma["Contiguous"] /\ a.type = "Allocated" /\ a.type # "Free" /\ "Contiguous" \in Regions
      /\ a.base < ContiguousFirst + InstanceFirst
  BY DEF Owned, Regions
<1>4. /\ vm \in VMs /\ FreeOK(vm) /\ \A u \in vm.ended : vm.pte[u] # None
      /\ A \subseteq Virtual /\ UsedArea(vm, "Contiguous", a)
      /\ v \in Nat /\ n \in Nat \ {0} /\ last \in Nat /\ v <= last /\ last = v + n - 1 /\ A = v..last
      /\ PagesOK(vm, {}, G) /\ A \cap G = {}
  BY <1>1, <1>3, UsedAreaIs
<1>5. vm' = w
  BY <1>2
<1> HIDE DEF G, A, v, n, last
<1>6. RunAt(vm, v, n) /\ v..v + n - 1 \subseteq Virtual /\ v..last = v..v + n - 1
  <2>1. \A u \in A : u - ContiguousFirst \in Pages /\ vm.pte[u] = u - ContiguousFirst
    BY <1>4 DEF UsedArea, A
  <2> QED
    BY <1>4, <2>1 DEF RunAt
<1>7. FreedFrames(vm, x, MappedIn(vm, v, last))
  <2>1. FreedFrames(vm, x, MappedIn(vm, v, v + n - 1))
    <3> HIDE DEF p, q
    <3>1. p = vm.pte[v] /\ q = p + n - 1
      BY DEF p, q
    <3> QED
      BY <1>4, <1>6, <3>1, FreeRunIs
  <2> QED
    BY <1>4, <2>1
<1> HIDE DEF x
<1>8. Unmapped(vm, y, A, G)
  <2>1. Unmapped(vm, y, v..last, G)
    BY <1>4, <1>6, <1>7, UnmapIs
  <2> QED
    BY <1>4, <2>1
<1> HIDE DEF y
<1>9. Cleared(vm, y, A, G)
  <2>1. A \in SUBSET Virtual /\ A \in SUBSET A /\ \A u \in A \ A : vm.pte[u] = None
    BY <1>4
  <2> QED
    BY <1>4, <1>8, <2>1, UnmappedCleared
<1>10. /\ CoreOK(w) /\ w.instance = vm.instance /\ w.starved = vm.starved
       /\ AreasAre(vm, w, "Contiguous", InUse(vm.vma["Contiguous"]) \ {a})
  <2>1. Cleared(vm, y, Covered(a), Guards(vm) \ Covered(a)) /\ "Contiguous" \in {"System", "Contiguous"}
    BY <1>9 DEF A, G
  <2>2. LET z == DeallocatePT(DestructVMA(y, "Contiguous", a.base, a.size), a.base, a.size)
        IN  /\ CoreOK(z) /\ z.instance = vm.instance /\ z.starved = vm.starved
            /\ AreasAre(vm, z, "Contiguous", InUse(vm.vma["Contiguous"]) \ {a})
    BY <1>1, <1>3, <2>1, AreaReleased
  <2> QED
    BY <2>2 DEF v, n
<1> HIDE DEF w
<1>11. InstanceOK(w)
  <2>1. a.base # ContiguousFirst + HighestPage + 1 - vm.instance
    <3>1. vm.instance \in 0..HighestPage - MaxContiguousPfn
      BY <1>4 DEF VMs
    <3>2. v = a.base
      BY DEF v
    <3> QED
      BY <1>3, <1>4, <3>1, <3>2, Constants DEF InstanceFirst
  <2>2. InUse(vm.vma["Contiguous"]) \ {a} \subseteq InUse(w.vma["Contiguous"])
    BY <1>10 DEF AreasAre
  <2> QED
    BY <1>1, <1>10, <2>1, <2>2, InstanceStays
<1> QED
  BY <1>1, <1>5, <1>10, <1>11 DEF VMInv, Explained

(* DeallocateSystemMemory. *)
LEMMA DeallocateSystemStep ==
    ASSUME VMInv(vm), DeallocateSystemMemory
    PROVE  VMInv(vm') /\ Explained(vm, vm')
<1>1. ~vm.starved /\ CoreOK(vm) /\ InstanceOK(vm)
  BY DEF VMInv, DeallocateSystemMemory, Running
<1>2. PICK a \in vm.vma["System"] :
          LET v == IF Guarded(vm, a) THEN a.base + 1 ELSE a.base
              m == ZeroPte(FreeSystemPages(vm, v, VmaEnd(a)), v, VmaEnd(a))
          IN  /\ a.type = "Allocated"
              /\ vm' = DeallocatePT(DestructVMA(m, "System", a.base, a.size), a.base, a.size)
  BY DEF DeallocateSystemMemory
<1> DEFINE G == Guards(vm) \ Covered(a)
           A == Covered(a)
           v == IF Guarded(vm, a) THEN a.base + 1 ELSE a.base
           last == VmaEnd(a)
           x == FreeSystemPages(vm, v, last)
           y == ZeroPte(x, v, last)
           w == DeallocatePT(DestructVMA(y, "System", a.base, a.size), a.base, a.size)
<1>3. a.type = "Allocated" /\ a.type # "Free" /\ "System" \in Regions /\ vm' = w
  BY <1>2 DEF Regions
<1>4. /\ vm \in VMs /\ FreeOK(vm) /\ \A u \in vm.ended : vm.pte[u] # None
      /\ A \subseteq Virtual /\ UsedArea(vm, "System", a) /\ A \subseteq Region("System")
      /\ a.base \in Nat /\ last \in Nat /\ a.base <= last /\ A = a.base..last
      /\ PagesOK(vm, {}, G) /\ A \cap G = {}
  BY <1>1, <1>3, UsedAreaIs
<1>5. /\ v \in Nat /\ v <= last /\ v..last \subseteq A
      /\ \A u \in v..last : vm.pte[u] \in Pages
      /\ \A u \in A \ (v..last) : vm.pte[u] = None
  <2>1. /\ \A u \in A : u # a.base => vm.pte[u] \in Pages
        /\ vm.pte[a.base] \in Pages \/ (vm.pte[a.base] = None /\ a.base < last)
    BY <1>3, <1>4 DEF UsedArea
  <2> HIDE DEF A, last
  <2>2. CASE vm.pte[a.base] = None
    <3>1. v = a.base + 1
      BY <1>3, <2>2 DEF Guarded
    <3>2. None \notin Pages
      BY Constants DEF Pages, None
    <3> HIDE DEF v
    <3>3. a.base < last
      BY <2>1, <2>2, <3>2
    <3> QED
      BY <1>4, <2>1, <2>2, <3>1, <3>3
  <2>3. CASE vm.pte[a.base] # None
    <3>1. v = a.base
      BY <2>3 DEF Guarded
    <3> HIDE DEF v
    <3> QED
      BY <1>4, <2>1, <2>3, <3>1
  <2> QED
    BY <2>2, <2>3
<1> HIDE DEF G, A, v, last
<1>6. FreedFrames(vm, x, MappedIn(vm, v, last))
  <2>1. \A u \in v..last : u \in Virtual /\ UserLast < u /\ u <= SystemLast /\ vm.pte[u] \in Pages
    <3> SUFFICES ASSUME NEW u \in v..last PROVE u \in Virtual /\ UserLast < u /\ u <= SystemLast /\ vm.pte[u] \in Pages
      OBVIOUS
    <3>1. u \in SystemFirst..SystemLast /\ u \in Virtual
      BY <1>4, <1>5, RegionIs
    <3> QED
      BY <1>5, <3>1, Constants
  <2> QED
    BY <1>4, <1>5, <2>1, FreeSystemPagesIs
<1> HIDE DEF x
<1>7. Unmapped(vm, y, v..last, G)
  <2>1. v..last \subseteq Virtual /\ (v..last) \cap G = {}
    BY <1>4, <1>5
  <2> QED
    BY <1>4, <1>5, <1>6, <2>1, UnmapIs
<1> HIDE DEF y
<1>8. Cleared(vm, y, A, G)
  <2> DEFINE B == v..last
  <2>1. A \in SUBSET Virtual /\ B \in SUBSET A /\ (\A u \in A \ B : vm.pte[u] = None) /\ Unmapped(vm, y, B, G)
    BY <1>4, <1>5, <1>7
  <2> HIDE DEF B
  <2> QED
    BY <1>4, <2>1, UnmappedCleared
<1>9. /\ CoreOK(w) /\ w.instance = vm.instance /\ w.starved = vm.starved
      /\ AreasAre(vm, w, "System", InUse(vm.vma["System"]) \ {a})
  <2>1. Cleared(vm, y, Covered(a), Guards(vm) \ Covered(a)) /\ "System" \in {"System", "Contiguous"}
    BY <1>8 DEF A, G
  <2> QED
    BY <1>1, <1>3, <2>1, AreaReleased
<1> HIDE DEF w
<1>10. InstanceOK(w)
  <2>1. w.vma["Contiguous"] = vm.vma["Contiguous"]
    BY <1>9 DEF AreasAre, Regions
  <2> QED
    BY <1>1, <1>9, <2>1 DEF InstanceOK
<1> QED
  BY <1>1, <1>3, <1>9, <1>10 DEF VMInv, Explained

(* UnmapDeviceMemory. *)
LEMMA UnmapDeviceStep ==
    ASSUME VMInv(vm), UnmapDeviceMemory
    PROVE  VMInv(vm') /\ Explained(vm, vm')
<1>1. ~vm.starved /\ CoreOK(vm) /\ InstanceOK(vm)
  BY DEF VMInv, UnmapDeviceMemory, Running
<1>2. PICK a \in vm.vma["System"] :
          /\ a.type = "Reserved"
          /\ vm' = DeallocatePT(DestructVMA(ZeroPte(vm, a.base, VmaEnd(a)), "System", a.base, a.size),
                                a.base, a.size)
  BY DEF UnmapDeviceMemory
<1> DEFINE G == Guards(vm) \ Covered(a)
           A == Covered(a)
           v == a.base
           last == VmaEnd(a)
           y == ZeroPte(vm, v, last)
           w == DeallocatePT(DestructVMA(y, "System", a.base, a.size), a.base, a.size)
<1>3. a.type = "Reserved" /\ a.type # "Free" /\ "System" \in Regions /\ vm' = w
  BY <1>2 DEF Regions
<1>4. /\ vm \in VMs /\ FreeOK(vm) /\ \A u \in vm.ended : vm.pte[u] # None
      /\ A \subseteq Virtual /\ UsedArea(vm, "System", a)
      /\ v \in Nat /\ last \in Nat /\ v <= last /\ A = v..last
      /\ PagesOK(vm, {}, G) /\ A \cap G = {}
  BY <1>1, <1>3, UsedAreaIs
<1> HIDE DEF G, last, v
<1>5. FreedFrames(vm, vm, MappedIn(vm, v, last))
  <2>1. \A u \in A : vm.pte[u] = Device
    BY <1>3, <1>4 DEF UsedArea
  <2>2. Device \notin Pages
    BY Constants DEF Device, Pages
  <2>3. MappedIn(vm, v, last) = {}
    BY <1>4, <2>1, <2>2 DEF MappedIn
  <2>4. FreedFrames(vm, vm, {})
    BY <1>4, FreedNone
  <2> QED
    BY <2>3, <2>4
<1>6. Unmapped(vm, y, A, G)
  <2>1. Unmapped(vm, y, v..last, G)
    BY <1>4, <1>5, UnmapIs
  <2> QED
    BY <1>4, <2>1
<1> HIDE DEF y, A
<1>7. Cleared(vm, y, A, G)
  <2>1. A \in SUBSET Virtual /\ A \in SUBSET A /\ \A u \in A \ A : vm.pte[u] = None
    BY <1>4
  <2> QED
    BY <1>4, <1>6, <2>1, UnmappedCleared
<1>8. /\ CoreOK(w) /\ w.instance = vm.instance /\ w.starved = vm.starved
      /\ AreasAre(vm, w, "System", InUse(vm.vma["System"]) \ {a})
  <2>1. Cleared(vm, y, Covered(a), Guards(vm) \ Covered(a)) /\ "System" \in {"System", "Contiguous"}
    BY <1>7 DEF A, G
  <2> QED
    BY <1>1, <1>3, <2>1, AreaReleased
<1> HIDE DEF w
<1>9. InstanceOK(w)
  <2>1. w.vma["Contiguous"] = vm.vma["Contiguous"]
    BY <1>8 DEF AreasAre, Regions
  <2> QED
    BY <1>1, <1>8, <2>1 DEF InstanceOK
<1> QED
  BY <1>1, <1>3, <1>8, <1>9 DEF VMInv, Explained

(* What is left of an area whose first pages are freed. *)
LEMMA RestAbove ==
    ASSUME NEW a \in Areas, NEW n \in Nat, NEW k \in Nat, a.size = n + k, NEW base, base = a.base
    PROVE  Rest(a, base, n) = IF k = 0 THEN {} ELSE {Vma(base + n, k, a.type)}
<1> DEFINE x == base - a.base
           y == VmaEnd(a) - base - n + 1
<1>1. x = 0 /\ y = k
  BY AreaIs
<1> HIDE DEF x, y
<1>2. Rest(a, base, n) = Sized({Vma(a.base, x, a.type), Vma(base + n, y, a.type)})
  BY DEF Rest, x, y
<1>3. Vma(a.base, x, a.type).size = 0 /\ Vma(base + n, y, a.type).size = k
  BY <1>1 DEF Vma
<1> QED
  BY <1>1, <1>2, <1>3 DEF Sized

(* ClaimGpuMemory. *)
LEMMA ClaimGpuStep ==
    ASSUME VMInv(vm), ClaimGpuMemory, ~broken'
    PROVE  VMInv(vm') /\ Explained(vm, vm')
<1>1. ~vm.starved /\ CoreOK(vm) /\ InstanceOK(vm)
  BY DEF VMInv, ClaimGpuMemory, Running
<1>2. PICK size \in 0 .. HighestPage : size < vm.instance /\ vm' = ShrinkInstance(vm, size)
  BY DEF ClaimGpuMemory
<1> DEFINE i == vm.instance
           p == HighestPage + 1 - i
           q == HighestPage - size
           v == ContiguousFirst + p
           last == v + q - p
           n == q - p + 1
           a == Vma(v, i, "Allocated")
           A == v..last
           G == Guards(vm) \ Covered(a)
           x == Released(ZeroPfn(ZeroPte(vm, v, last), p, q, "Contiguous"), p, q)
           y == DestructVMA(x, "Contiguous", v, n)
           w == [y EXCEPT !.instance = size]
<1>3. vm' = w
  BY <1>2 DEF ShrinkInstance
<1>4. i \in 0..HighestPage - MaxContiguousPfn /\ size \in Nat /\ size < i /\ HighestPage \in Nat /\ MaxContiguousPfn \in Nat
      /\ ContiguousFirst \in Nat /\ i \in Nat
  <2>1. i \in 0..HighestPage - MaxContiguousPfn
    BY <1>1 DEF CoreOK, VMs
  <2> HIDE DEF i
  <2> QED
    BY <1>2, <2>1, Constants DEF i
<1>5. a \in vm.vma["Contiguous"] /\ a.base = v /\ a.size = i /\ a.type = "Allocated" /\ "Contiguous" \in Regions
  <2>1. i > 0
    BY <1>4
  <2>2. a = Vma(ContiguousFirst + HighestPage + 1 - vm.instance, vm.instance, "Allocated")
    BY <1>4
  <2>3. a \in vm.vma["Contiguous"]
    BY <1>1, <2>1, <2>2 DEF InstanceOK, InstanceIn
  <2> QED
    BY <2>3 DEF Vma, Regions
<1> HIDE DEF i, a
<1>6. /\ p \in Nat /\ q \in Nat /\ v \in Nat /\ n \in Nat \ {0} /\ last \in Nat /\ v <= last /\ last = v + n - 1
      /\ q = p + n - 1 /\ p = v - ContiguousFirst /\ i = n + size /\ v + n = ContiguousFirst + HighestPage + 1 - size
  BY <1>4
<1> HIDE DEF p, q, v, last, n
<1>7. /\ vm \in VMs /\ FreeOK(vm) /\ AreasOK(vm) /\ UsedAreasOK(vm) /\ \A u \in vm.ended : vm.pte[u] # None
      /\ a \in Areas /\ Covered(a) \subseteq Virtual /\ UsedArea(vm, "Contiguous", a)
      /\ VmaEnd(a) \in Nat /\ VmaEnd(a) = v + i - 1 /\ Covered(a) = v..VmaEnd(a)
      /\ TiledSet(vm.vma["Contiguous"], Region("Contiguous")) /\ Region("Contiguous") \subseteq Virtual
      /\ PagesOK(vm, {}, G) /\ Covered(a) \cap G = {}
  <2>1. a.type # "Free"
    BY <1>5
  <2> QED
    BY <1>1, <1>5, <2>1, UsedAreaIs
<1> HIDE DEF G
<1>8. A \subseteq Covered(a) /\ A \subseteq Virtual /\ A \cap G = {} /\ A = v..v + n - 1
  <2>1. last <= VmaEnd(a)
    BY <1>4, <1>6, <1>7
  <2>2. v..last \subseteq v..VmaEnd(a)
    <3>1. v \in Nat /\ last \in Nat /\ VmaEnd(a) \in Nat
      BY <1>6, <1>7
    <3> QED
      BY ONLY <2>1, <3>1, RunWithin
  <2>3. v..last = v..v + n - 1
    BY <1>6
  <2> QED
    BY <1>7, <2>2, <2>3
<1>9. RunAt(vm, v, n)
  <2>1. \A u \in Covered(a) : u - ContiguousFirst \in Pages /\ vm.pte[u] = u - ContiguousFirst
    BY <1>7 DEF UsedArea
  <2> QED
    BY <1>8, <2>1 DEF RunAt
<1>10. Unmapped(vm, x, A, G)
  <2>1. v..v + n - 1 \subseteq Virtual /\ v..v + n - 1 \cap G = {}
    BY <1>8
  <2> QED
    BY <1>6, <1>7, <1>9, <2>1, ClaimRunIs
<1> HIDE DEF x
<1>11. Cleared(vm, x, A, G)
  <2>1. A \in SUBSET Virtual /\ A \in SUBSET A /\ \A u \in A \ A : vm.pte[u] = None
    BY <1>8
  <2> HIDE DEF A
  <2> QED
    BY <1>7, <1>10, <2>1, UnmappedCleared
<1>12. /\ x \in VMs /\ FreeOK(x) /\ PagesOK(x, {}, G) /\ x.pde = vm.pde /\ x.starved = vm.starved
       /\ x.vma = vm.vma /\ x.instance = vm.instance /\ x.reserved = vm.reserved
       /\ SameBeyond(vm, x, A) /\ \A u \in A : x.pte[u] = None /\ u \notin x.ended
  BY <1>11 DEF Cleared, SameAreas
<1>13. /\ y \in VMs /\ SameFree(x, y) /\ SameFrames(x, y) /\ SameMaps(x, y)
       /\ y.instance = x.instance /\ y.reserved = x.reserved /\ y.starved = x.starved
       /\ VmaFreed(x, y, "Contiguous", a, v, n)
  <2> DEFINE R == Region("Contiguous")
  <2>1. /\ x \in VMs /\ "Contiguous" \in Regions /\ R \subseteq Virtual /\ TiledSet(x.vma["Contiguous"], R)
        /\ a \in x.vma["Contiguous"] /\ a.type # "Free"
        /\ v \in Nat /\ n \in Nat \ {0} /\ v..v + n - 1 \subseteq Covered(a)
    BY <1>5, <1>6, <1>7, <1>8, <1>12
  <2> HIDE DEF R
  <2>2. LET z == DestructVMA(x, "Contiguous", v, n)
        IN  /\ z \in VMs /\ SameFree(x, z) /\ SameFrames(x, z) /\ SameMaps(x, z)
            /\ z.instance = x.instance /\ z.reserved = x.reserved /\ z.starved = x.starved
            /\ VmaFreed(x, z, "Contiguous", a, v, n)
    BY ONLY <2>1, DestructVMAIs
  <2> QED
    BY <2>2
<1> HIDE DEF y
<1>14. /\ w \in VMs /\ w.free = x.free /\ w.available = x.available /\ SameFrames(x, w)
       /\ w.pde = x.pde /\ w.pte = x.pte /\ w.ended = x.ended
       /\ w.instance = size /\ w.reserved = vm.reserved /\ ~w.starved /\ VmaFreed(vm, w, "Contiguous", a, v, n)
  <2>1. size \in 0..HighestPage - MaxContiguousPfn
    BY <1>4
  <2>2. w \in VMs /\ w.vma = y.vma /\ w.instance = size /\ w.free = y.free /\ w.available = y.available
        /\ w.type = y.type /\ w.used = y.used /\ w.usage = y.usage /\ w.pde = y.pde /\ w.pte = y.pte
        /\ w.ended = y.ended /\ w.reserved = y.reserved /\ w.starved = y.starved
    BY <1>13, <2>1 DEF VMs
  <2> HIDE DEF w
  <2> QED
    BY <1>1, <1>12, <1>13, <2>2 DEF SameFree, SameFrames, SameMaps, VmaFreed
<1> HIDE DEF w
<1>15. FreeOK(w) /\ PagesOK(w, {}, G)
  <2>1. FreeOK(w)
    BY <1>12, <1>14 DEF FreeOK
  <2>2. /\ {} \in SUBSET Pages /\ {} \cap FreePages(w.free) = {}
        /\ FreePages(w.free) \cup {} = FreePages(x.free) \cup {}
    BY <1>14
  <2> QED
    BY <1>12, <1>14, <2>1, <2>2, PagesMove
<1>16. SameBeyond(vm, w, A) /\ \A u \in A : w.pte[u] = None /\ u \notin w.ended
  BY <1>12, <1>14 DEF SameBeyond
<1> DEFINE b == Vma(v + n, size, "Allocated")
           K == Rest(a, v, n)
<1>17. K = IF size = 0 THEN {} ELSE {b}
  <2>1. n \in Nat /\ size \in Nat /\ a.size = n + size /\ v = a.base
    BY <1>4, <1>5, <1>6
  <2>2. Rest(a, v, n) = IF size = 0 THEN {} ELSE {Vma(v + n, size, a.type)}
    BY <1>7, <2>1, RestAbove
  <2> QED
    BY <1>5, <2>2
<1>18. \A c \in K : UsedArea(w, "Contiguous", c)
  <2>1. ASSUME size # 0 PROVE UsedArea(w, "Contiguous", b)
    <3>1. /\ b.type = "Allocated" /\ VmaEnd(b) = VmaEnd(a) /\ Covered(b) = v + n..VmaEnd(a)
      <4>1. v + n + size - 1 = v + i - 1
        BY <1>4, <1>6
      <4> QED
        BY <1>7, <4>1 DEF Vma, VmaEnd, Covered
    <3> HIDE DEF b
    <3>2. Covered(b) \subseteq Covered(a) \ A
      BY <1>6, <1>7, <1>8, <3>1
    <3>3. \A u \in Covered(b) : w.pte[u] = vm.pte[u] /\ (u \in w.ended <=> u \in vm.ended)
      BY <1>7, <1>16, <3>2 DEF SameBeyond
    <3> QED
      BY <1>5, <1>7, <3>1, <3>2, <3>3 DEF UsedArea
  <2> QED
    BY <1>17, <2>1
<1>19. Freeing(vm, w, "Contiguous", a, v, n)
  <2>1. FreedIn(vm, w, "Contiguous", a, v, n)
    BY <1>5, <1>6, <1>7, <1>8, <1>14, <1>16, <1>18 DEF FreedIn
  <2>2. w.reserved = vm.reserved - (IF "Contiguous" = "User" THEN n ELSE 0)
    <3>1. vm.reserved \in Int
      BY <1>7 DEF VMs
    <3> QED
      BY <1>14, <3>1
  <2>3. PagesOK(w, {}, Guards(vm) \ (v..v + n - 1))
    <3>1. Covered(a) \cap Guards(vm) = {}
      BY <1>5, <1>7, GuardsAway
    <3>2. Guards(vm) \ (v..v + n - 1) = G
      BY <1>8, <3>1 DEF G
    <3> QED
      BY <1>15, <3>2
  <2>4. \A u \in v..v + n - 1 : u \notin w.ended
    BY <1>8, <1>16
  <2> QED
    BY <1>1, <1>15, <2>1, <2>2, <2>3, <2>4 DEF Freeing
<1>20. CoreOK(w) /\ AreasAre(vm, w, "Contiguous", (InUse(vm.vma["Contiguous"]) \ {a}) \cup K)
  BY <1>19, AreaFreed
<1>21. InstanceOK(w)
  <2> SUFFICES ASSUME size > 0
               PROVE  Vma(ContiguousFirst + HighestPage + 1 - size, size, "Allocated") \in w.vma["Contiguous"]
    BY <1>14 DEF InstanceOK, InstanceIn
  <2>1. b \in K
    BY <1>17
  <2>2. b \in w.vma["Contiguous"]
    BY <1>20, <2>1 DEF AreasAre, InUse
  <2> QED
    BY <1>6, <2>2
<1> QED
  BY <1>3, <1>14, <1>20, <1>21 DEF VMInv, Explained

(* MapMemoryBlock finds room in one free area. *)
LEMMA PlaceIs ==
    ASSUME NEW m, CoreOK(m), ~m.starved, NEW r \in Regions, NEW n \in Nat \ {0}, NEW v \in Places(m, r, n)
    PROVE  /\ v \in Nat /\ v % Granularity = 0 /\ v..v + n - 1 \subseteq Virtual /\ v..v + n - 1 \subseteq Region(r)
           /\ \E old \in m.vma[r] : old.type = "Free" /\ v..v + n - 1 \subseteq Covered(old)
           /\ \A u \in v..v + n - 1 : m.pte[u] = None /\ u \notin Guards(m) /\ u \notin m.ended
<1>1. m \in VMs /\ AreasOK(m) /\ \A u \in m.ended : m.pte[u] # None
  BY DEF CoreOK, SoundOK
<1>2. PICK old \in m.vma[r] :
        /\ old.type = "Free" /\ v % Granularity = 0 /\ v >= old.base /\ v + n - 1 <= VmaEnd(old)
  BY DEF Places
<1>3. v \in Virtual /\ v \in Nat
  BY VirtualIs DEF Places
<1>4. old \in Areas /\ Covered(old) \subseteq Region(r) /\ Covered(old) \subseteq Virtual
  BY <1>1, AreaInRegion
<1>5. v..v + n - 1 \subseteq Covered(old)
  <2>1. old.base \in Nat /\ VmaEnd(old) \in Nat /\ \A u : u \in Covered(old) <=> u \in Nat /\ old.base <= u /\ u <= VmaEnd(old)
    BY <1>4, AreaIs
  <2> SUFFICES ASSUME NEW u \in v..v + n - 1 PROVE u \in Covered(old)
    OBVIOUS
  <2> QED
    BY <1>2, <1>3, <2>1
<1>6. Covered(old) \cap Guards(m) = {}
  BY <1>1, <1>2, GuardsAway
<1>7. \A u \in Covered(old) : m.pte[u] = None
  BY <1>1, <1>2 DEF AreasOK, FreeArea
<1> QED
  BY <1>1, <1>2, <1>3, <1>4, <1>5, <1>6, <1>7

(* The pages of a new area have been mapped, and it becomes an area. *)
Ready(m, y, r, old, base, n, type, H) ==
    /\ CoreOK(m) /\ ~m.starved /\ r \in {"System", "Contiguous"} /\ old \in m.vma[r] /\ old.type = "Free"
    /\ base \in Nat /\ n \in Nat \ {0} /\ base..base + n - 1 \subseteq Covered(old)
    /\ type \in {"Reserved", "Allocated"} /\ (r = "System" => base % Granularity = 0)
    /\ y \in VMs /\ FreeOK(y) /\ SameAreas(m, y) /\ SameBeyond(m, y, base..base + n - 1)
    /\ H \subseteq {base} /\ (r = "System" /\ type = "Allocated" /\ y.pte[base] = None => H = {base})
    /\ ~y.starved => /\ PagesOK(y, {}, Guards(m) \cup H)
                     /\ UsedArea(y, r, Vma(base, n, type))
                     /\ \A u \in base..base + n - 1 : u \in y.ended => y.pte[u] # None

(* The invariant after that. *)
LEMMA ReadyMade ==
    ASSUME NEW m, NEW y, NEW r, NEW old, NEW base, NEW n, NEW type, NEW H, Ready(m, y, r, old, base, n, type, H)
    PROVE  LET w == ConstructVMA(y, r, base, n, type)
           IN  CoreOK(w) /\ (InstanceOK(m) => InstanceOK(w)) /\ w.starved = y.starved /\ w.pde = y.pde
<1> DEFINE w == ConstructVMA(y, r, base, n, type)
           R == Region(r)
<1>1. /\ CoreOK(m) /\ ~m.starved /\ r \in {"System", "Contiguous"} /\ old \in m.vma[r] /\ old.type = "Free"
      /\ base \in Nat /\ n \in Nat \ {0} /\ base..base + n - 1 \subseteq Covered(old)
      /\ type \in {"Reserved", "Allocated"} /\ (r = "System" => base % Granularity = 0)
      /\ y \in VMs /\ FreeOK(y) /\ SameAreas(m, y) /\ SameBeyond(m, y, base..base + n - 1)
      /\ H \subseteq {base} /\ (r = "System" /\ type = "Allocated" /\ y.pte[base] = None => H = {base})
      /\ ~y.starved => /\ PagesOK(y, {}, Guards(m) \cup H)
                       /\ UsedArea(y, r, Vma(base, n, type))
                       /\ \A u \in base..base + n - 1 : u \in y.ended => y.pte[u] # None
  BY DEF Ready
<1>2. m \in VMs /\ AreasOK(m) /\ r \in Regions /\ y.vma = m.vma /\ m.reserved \in Int
  BY <1>1 DEF CoreOK, VMs, Regions, SameAreas
<1>3. R \subseteq Virtual /\ TiledSet(y.vma[r], R) /\ base..base + n - 1 \subseteq Virtual
  <2>1. TiledSet(m.vma[r], R) /\ Covered(old) \subseteq Virtual
    BY <1>1, <1>2, AreaInRegion
  <2> QED
    BY <1>1, <1>2, <2>1, RegionIs
<1>4. /\ w \in VMs /\ SameFree(y, w) /\ SameFrames(y, w) /\ SameMaps(y, w)
      /\ w.instance = y.instance /\ w.reserved = y.reserved /\ w.starved = y.starved
      /\ VmaMade(y, w, r, old, base, n, type)
  <2>1. /\ y \in VMs /\ r \in Regions /\ R \subseteq Virtual /\ TiledSet(y.vma[r], R) /\ old \in y.vma[r]
        /\ old.type = "Free" /\ base \in Nat /\ n \in Nat \ {0} /\ base..base + n - 1 \subseteq Covered(old)
        /\ type \in {"Reserved", "Allocated"}
    BY <1>1, <1>2, <1>3
  <2> HIDE DEF R
  <2>2. LET z == ConstructVMA(y, r, base, n, type)
        IN  /\ z \in VMs /\ SameFree(y, z) /\ SameFrames(y, z) /\ SameMaps(y, z)
            /\ z.instance = y.instance /\ z.reserved = y.reserved /\ z.starved = y.starved
            /\ VmaMade(y, z, r, old, base, n, type)
    BY ONLY <2>1, ConstructVMAIs
  <2> QED
    BY <2>2
<1> HIDE DEF w
<1>5. /\ w.pte = y.pte /\ w.ended = y.ended /\ w.pde = y.pde /\ w.free = y.free /\ w.available = y.available
      /\ VmaMade(m, w, r, old, base, n, type) /\ w.reserved = m.reserved /\ w.instance = m.instance
  BY <1>1, <1>2, <1>4 DEF SameMaps, SameFree, VmaMade, SameAreas
<1>6. FreeOK(w) /\ SameBeyond(m, w, base..base + n - 1)
  BY <1>1, <1>5 DEF FreeOK, SameBeyond
<1>7. ASSUME ~w.starved
      PROVE  /\ PagesOK(w, {}, Guards(m) \cup H)
             /\ UsedArea(w, r, Vma(base, n, type))
             /\ \A u \in base..base + n - 1 : u \in w.ended => w.pte[u] # None
  <2>1. /\ PagesOK(y, {}, Guards(m) \cup H) /\ UsedArea(y, r, Vma(base, n, type))
        /\ \A u \in base..base + n - 1 : u \in y.ended => y.pte[u] # None
    BY <1>1, <1>4, <1>7
  <2>2. PagesOK(w, {}, Guards(m) \cup H)
    <3> DEFINE G == Guards(m) \cup H
    <3>1. /\ {} \in SUBSET Pages /\ {} \cap FreePages(w.free) = {}
          /\ FreePages(w.free) \cup {} = FreePages(y.free) \cup {}
          /\ PagesOK(y, {}, G)
      BY <1>5, <2>1
    <3> HIDE DEF G
    <3>2. PagesOK(w, {}, G)
      BY <1>4, <1>5, <3>1, PagesMove
    <3> QED
      BY <3>2 DEF G
  <2>3. UsedArea(w, r, Vma(base, n, type))
    BY <1>5, <2>1 DEF UsedArea
  <2> QED
    BY <1>5, <2>1, <2>2, <2>3
<1>8. Making(m, w, r, old, base, n, type, H)
  <2>1. MadeIn(m, w, r, old, base, n, type)
    BY <1>1, <1>2, <1>4, <1>5, <1>6 DEF MadeIn
  <2>2. w.reserved = m.reserved + (IF r = "User" THEN n ELSE 0) /\ r # "User"
    BY <1>1, <1>2, <1>5
  <2> QED
    BY <1>1, <1>5, <1>6, <1>7, <2>1, <2>2 DEF Making
<1>9. CoreOK(w) /\ InUse(m.vma["Contiguous"]) \subseteq InUse(w.vma["Contiguous"])
  BY <1>8, AreaMade
<1>10. InstanceOK(m) => InstanceOK(w)
  <2> DEFINE a == Vma(0, 0, "Free")
  <2>1. a.type = "Free" /\ InUse(m.vma["Contiguous"]) \ {a} \subseteq InUse(w.vma["Contiguous"])
    BY <1>9 DEF Vma
  <2> HIDE DEF a
  <2> QED
    BY <1>5, <2>1, InstanceStays
<1> QED
  BY <1>4, <1>5, <1>9, <1>10 DEF w

(* AllocatePT, for a free range in a sound state. *)
LEMMA TablesReady ==
    ASSUME NEW m, CoreOK(m), ~m.starved, NEW v \in Nat, NEW n \in Nat \ {0}, v..v + n - 1 \subseteq Virtual
    PROVE  LET t == AllocatePT(m, v, n)
           IN  /\ AfterTables(m, t, Pde(v)..Pde(v + n - 1), {}, Guards(m))
               /\ t \in VMs /\ FreeOK(t) /\ t.pte = m.pte /\ t.ended = m.ended /\ SameAreas(m, t)
               /\ \A u \in v..v + n - 1 : t.pde[Pde(u)] # None
               /\ ~t.starved => PagesOK(t, {}, Guards(m))
<1> DEFINE t == AllocatePT(m, v, n)
           G == Guards(m)
<1>1. m \in VMs /\ FreeOK(m) /\ PagesOK(m, {}, G)
  BY DEF CoreOK, SoundOK
<1> HIDE DEF G
<1>2. AfterTables(m, t, Pde(v)..Pde(v + n - 1), {}, G)
  BY <1>1, AllocatePTIs
<1> HIDE DEF t
<1>3. \A u \in v..v + n - 1 : Pde(u) \in Pde(v)..Pde(v + n - 1)
  BY PdeRange
<1>4. /\ t \in VMs /\ FreeOK(t) /\ t.pte = m.pte /\ t.ended = m.ended /\ SameAreas(m, t)
      /\ \A u \in v..v + n - 1 : t.pde[Pde(u)] # None
      /\ ~t.starved => PagesOK(t, {}, G)
  BY <1>1, <1>2, <1>3 DEF AfterTables
<1> QED
  BY <1>2, <1>4 DEF t, G

(* MapDeviceMemory. *)
LEMMA MapDeviceStep ==
    ASSUME VMInv(vm), MapDeviceMemory
    PROVE  VMInv(vm') /\ Explained(vm, vm')
<1>1. ~vm.starved /\ CoreOK(vm) /\ InstanceOK(vm)
  BY DEF VMInv, MapDeviceMemory, IsMappable, Running
<1>2a. PICK n \in Sizes : \E v \in Places(vm, "System", n) :
          LET t == AllocatePT(vm, v, n)
          IN  /\ CanAllocatePT(vm, v, n)
              /\ vm' = ConstructVMA(WritePte(t, v, v + n - 1, Device), "System", v, n, "Reserved")
  BY DEF MapDeviceMemory
<1>2. PICK v \in Places(vm, "System", n) :
          LET t == AllocatePT(vm, v, n)
          IN  /\ CanAllocatePT(vm, v, n)
              /\ vm' = ConstructVMA(WritePte(t, v, v + n - 1, Device), "System", v, n, "Reserved")
  BY <1>2a
<1> DEFINE t == AllocatePT(vm, v, n)
           last == v + n - 1
           A == v..last
           G == Guards(vm)
           y == WritePte(t, v, last, Device)
           w == ConstructVMA(y, "System", v, n, "Reserved")
<1>3. n \in Nat \ {0} /\ "System" \in Regions /\ vm' = w
  BY <1>2, VMAssumption DEF Regions
<1> HIDE DEF w
<1>4. /\ v \in Nat /\ v % Granularity = 0 /\ A \subseteq Virtual
      /\ \E old \in vm.vma["System"] : old.type = "Free" /\ A \subseteq Covered(old)
      /\ \A u \in A : vm.pte[u] = None /\ u \notin G /\ u \notin vm.ended
  BY <1>1, <1>3, PlaceIs
<1>5. PICK old \in vm.vma["System"] : old.type = "Free" /\ A \subseteq Covered(old)
  BY <1>4
<1>6. /\ AfterTables(vm, t, Pde(v)..Pde(v + n - 1), {}, G)
      /\ t \in VMs /\ FreeOK(t) /\ t.pte = vm.pte /\ t.ended = vm.ended /\ SameAreas(vm, t)
      /\ \A u \in A : t.pde[Pde(u)] # None
      /\ ~t.starved => PagesOK(t, {}, G)
  BY <1>1, <1>3, <1>4, TablesReady
<1> HIDE DEF t
<1>7. /\ MappedAt(t, y, A)
      /\ AllDevice(y, A)
      /\ PagesOK(t, {}, G) => PagesOK(y, {}, G)
  <2>1. \A u \in v..last : u \in Virtual \ G /\ t.pte[u] = None /\ t.pde[Pde(u)] # None
    BY <1>4, <1>6
  <2>2. last = v + n - 1 /\ t \in VMs /\ FreeOK(t) /\ v \in Nat /\ n \in Nat \ {0}
    BY <1>3, <1>4, <1>6
  <2> HIDE DEF last, G
  <2>3. LET z == WritePte(t, v, last, Device)
        IN  /\ MappedAt(t, z, v..last)
            /\ AllDevice(z, v..last)
            /\ PagesOK(t, {}, G) => PagesOK(z, {}, G)
    BY ONLY <2>1, <2>2, MapDeviceIs
  <2> QED
    BY <2>3
<1> HIDE DEF y
<1>8. /\ y \in VMs /\ FreeOK(y) /\ SameAreas(vm, y) /\ SameBeyond(vm, y, A) /\ y.ended = vm.ended
      /\ y.starved = t.starved /\ y.pde = t.pde
  BY <1>6, <1>7 DEF MappedAt, SameAreas, SameBeyond
<1>9. UsedArea(y, "System", Vma(v, n, "Reserved"))
  <2>1. LET a == Vma(v, n, "Reserved") IN a.type = "Reserved" /\ a.base = v /\ Covered(a) = A
    BY DEF Vma, Covered, VmaEnd
  <2> QED
    BY <1>4, <1>7, <2>1 DEF UsedArea, AllDevice
<1>10. Ready(vm, y, "System", old, v, n, "Reserved", {})
  <2>1. PagesOK(t, {}, G) => PagesOK(y, {}, G \cup {})
    BY <1>7
  <2> QED
    BY <1>1, <1>3, <1>4, <1>5, <1>6, <1>8, <1>9, <2>1 DEF Ready
<1>11. CoreOK(w) /\ InstanceOK(w) /\ w.starved = y.starved /\ w.pde = y.pde
  <2>1. LET z == ConstructVMA(y, "System", v, n, "Reserved")
        IN  CoreOK(z) /\ (InstanceOK(vm) => InstanceOK(z)) /\ z.starved = y.starved /\ z.pde = y.pde
    BY <1>10, ReadyMade
  <2> QED
    BY <1>1, <2>1 DEF w
<1>12. Explained(vm, w)
  <2>1. t = vm => ~w.starved
    BY <1>1, <1>8, <1>11
  <2>2. w.pde = t.pde /\ v..v + n - 1 \subseteq Virtual
    BY <1>4, <1>8, <1>11
  <2> QED
    BY <1>3, <1>4, <1>6, <2>1, <2>2, TablesExplain
<1> QED
  BY <1>3, <1>11, <1>12 DEF VMInv

(* The tables of a free range have room for its guard page when they had room before.  A new  *)
(* table is empty.                                                                         *)
LEMMA RoomForGuard ==
    ASSUME NEW m, CoreOK(m), ~m.starved, NEW v \in Nat, NEW n \in Nat \ {0}, v..v + n - 1 \subseteq Virtual,
           LeakedPtes(m, Pde(v)) < MaxLeaks, ~AllocatePT(m, v, n).starved
    PROVE  LeakedPtes(AllocatePT(m, v, n), Pde(v)) < MaxLeaks
<1> DEFINE t == AllocatePT(m, v, n)
           d == Pde(v)
<1>1. /\ AfterTables(m, t, Pde(v)..Pde(v + n - 1), {}, Guards(m))
      /\ t.pte = m.pte /\ m \in VMs /\ t \in VMs /\ ~t.starved /\ PagesOK(m, {}, Guards(m))
      /\ \A u \in v..v + n - 1 : t.pde[Pde(u)] # None
  BY TablesReady DEF CoreOK, SoundOK
<1> HIDE DEF t
<1>2. v \in v..v + n - 1 /\ d \in Pdes
  BY PdeRange DEF Pdes
<1>3. t.pde[d] # None
  BY <1>1, <1>2
<1>4. t.used[t.pde[d]] = IF m.pde[d] # None THEN m.used[m.pde[d]] ELSE 0
  BY <1>1, <1>2, <1>3 DEF AfterTables
<1>5. UsedPtes(t, d) = UsedPtes(m, d)
  BY <1>1 DEF UsedPtes
<1>6. UsedPtes(m, d) \in Nat
  <2> DEFINE X == {u \in Virtual : Pde(u) = d /\ m.pte[u] # None}
  <2>1. X \in SUBSET Virtual /\ \A u \in X : Pde(u) = d
    OBVIOUS
  <2> HIDE DEF X
  <2>2. Cardinality(X) \in 0..PtesPerTable
    BY <1>2, <2>1, TableSize
  <2>3. Cardinality(X) \in Nat
    BY <2>2, Constants
  <2> QED
    BY <2>3 DEF X, UsedPtes
<1>7. CASE m.pde[d] # None
  BY <1>3, <1>4, <1>5, <1>7 DEF LeakedPtes, t
<1>8. CASE m.pde[d] = None
  <2>1. LeakedPtes(t, d) = 0 - UsedPtes(m, d)
    BY <1>3, <1>4, <1>5, <1>8 DEF LeakedPtes
  <2>2. LeakedPtes(m, d) = 0
    BY <1>8 DEF LeakedPtes
  <2>3. 0 < MaxLeaks
    BY <2>2
  <2>4. LeakedPtes(t, d) < MaxLeaks
    BY <1>6, <2>1, <2>3, Constants
  <2> QED
    BY <2>4 DEF t
<1> QED
  BY <1>7, <1>8

(* AllocateSystemMemory. *)
LEMMA AllocateSystemStep ==
    ASSUME ~ManyStacks, VMInv(vm), AllocateSystemMemory
    PROVE  VMInv(vm') /\ Explained(vm, vm')
<1>1. PICK n \in Sizes, guard \in {0, 1} :
        /\ IsMappable(n + guard)
        /\ UNCHANGED broken
        /\ \E v \in Places(vm, "System", n + guard) :
              LET t == AllocatePT(vm, v, n + guard)
                  g == IF guard = 1 THEN CountGuard(t, v) ELSE t
                  last == v + guard + n - 1
                  m == CommitSystemPages(g, v + guard, last)
              IN  /\ guard = 1 => ManyStacks \/ LeakedPtes(vm, Pde(v)) < MaxLeaks
                  /\ CanAllocatePT(vm, v, n + guard)
                  /\ vm' = ConstructVMA([m EXCEPT !.ended = @ \cup {last}],
                                        "System", v, n + guard, "Allocated")
  BY DEF AllocateSystemMemory
<1>2. PICK v \in Places(vm, "System", n + guard) :
              LET t == AllocatePT(vm, v, n + guard)
                  g == IF guard = 1 THEN CountGuard(t, v) ELSE t
                  last == v + guard + n - 1
                  m == CommitSystemPages(g, v + guard, last)
              IN  /\ guard = 1 => ManyStacks \/ LeakedPtes(vm, Pde(v)) < MaxLeaks
                  /\ CanAllocatePT(vm, v, n + guard)
                  /\ vm' = ConstructVMA([m EXCEPT !.ended = @ \cup {last}],
                                        "System", v, n + guard, "Allocated")
  BY <1>1
<1>3. ~vm.starved /\ CoreOK(vm) /\ InstanceOK(vm) /\ n \in Nat \ {0} /\ "System" \in Regions
  BY <1>1, VMAssumption DEF VMInv, IsMappable, Running, Regions
<1> DEFINE k == n + guard
           t == AllocatePT(vm, v, k)
           g == IF guard = 1 THEN CountGuard(t, v) ELSE t
           first == v + guard
           last == v + guard + n - 1
           m == CommitSystemPages(g, first, last)
           y == [m EXCEPT !.ended = @ \cup {last}]
           w == ConstructVMA(y, "System", v, k, "Allocated")
           H == IF guard = 1 THEN {v} ELSE {}
           G == Guards(vm)
           A == v..last
<1>4. vm' = w /\ (guard = 1 => LeakedPtes(vm, Pde(v)) < MaxLeaks)
  BY <1>2
<1> HIDE DEF w, k
<1>5. k \in Nat \ {0} /\ k = n + guard /\ last = v + k - 1 /\ v \in Places(vm, "System", k)
  <2>1. v \in Nat
    BY VirtualIs DEF Places
  <2> QED
    BY <1>3, <2>1 DEF k
<1>6. /\ v \in Nat /\ v % Granularity = 0 /\ v..v + k - 1 \subseteq Virtual /\ v..v + k - 1 \subseteq Region("System")
      /\ \E old \in vm.vma["System"] : old.type = "Free" /\ v..v + k - 1 \subseteq Covered(old)
      /\ \A u \in v..v + k - 1 : vm.pte[u] = None /\ u \notin G /\ u \notin vm.ended
  BY <1>3, <1>5, PlaceIs
<1>7. /\ first \in Nat /\ last \in Nat /\ first <= last /\ v <= first /\ v \in A
      /\ A = v..v + k - 1 /\ first..last \subseteq A /\ last \in first..last
      /\ A \ (first..last) = H
  BY <1>3, <1>5, <1>6
<1>8. /\ AfterTables(vm, t, Pde(v)..Pde(v + k - 1), {}, G)
      /\ t \in VMs /\ FreeOK(t) /\ t.pte = vm.pte /\ t.ended = vm.ended /\ SameAreas(vm, t)
      /\ \A u \in A : t.pde[Pde(u)] # None
      /\ ~t.starved => PagesOK(t, {}, G)
  <2>1. LET z == AllocatePT(vm, v, k)
        IN  /\ AfterTables(vm, z, Pde(v)..Pde(v + k - 1), {}, G)
            /\ z \in VMs /\ FreeOK(z) /\ z.pte = vm.pte /\ z.ended = vm.ended /\ SameAreas(vm, z)
            /\ \A u \in v..v + k - 1 : z.pde[Pde(u)] # None
            /\ ~z.starved => PagesOK(z, {}, G)
    BY <1>3, <1>5, <1>6, TablesReady
  <2> QED
    BY <1>7, <2>1
<1>9. ASSUME guard = 1, ~t.starved PROVE LeakedPtes(t, Pde(v)) < MaxLeaks
  BY <1>3, <1>4, <1>5, <1>6, <1>9, RoomForGuard
<1> HIDE DEF t, first, last, A
<1>10. /\ g \in VMs /\ FreeOK(g) /\ SameMaps(t, g) /\ SameAreas(t, g) /\ g.starved = t.starved /\ g.available = t.available
       /\ ~t.starved => PagesOK(g, {}, G \cup H)
  <2>1. CASE guard = 1
    <3>1. g = CountGuard(t, v) /\ H = {v}
      BY <2>1
    <3>2. v \in Virtual \ G /\ t.pte[v] = None /\ t.pde[Pde(v)] # None
      BY <1>6, <1>7, <1>8
    <3>3. LET z == CountGuard(t, v)
          IN  /\ z \in VMs /\ SameFree(t, z) /\ SameMaps(t, z) /\ SameAreas(t, z) /\ z.starved = t.starved
              /\ PagesOK(t, {}, G) /\ LeakedPtes(t, Pde(v)) < MaxLeaks => PagesOK(z, {}, G \cup {v})
      <4> HIDE DEF G
      <4> QED
        BY <1>8, <3>2, CountGuardIs
    <3> QED
      BY <1>8, <1>9, <2>1, <3>1, <3>3 DEF SameFree, FreeOK
  <2>2. CASE guard = 0
    <3>1. g = t /\ H = {}
      BY <2>2
    <3> QED
      BY <1>8, <3>1 DEF SameMaps, SameAreas
  <2> QED
    BY <2>1, <2>2
<1> HIDE DEF g
<1> DEFINE GH == G \cup H
<1>11. /\ Committed(g, m, first..last, GH) /\ GH = G \cup H
       /\ \A u \in first..last : u \in Virtual
  <2>1. \A u \in first..last : /\ u \in Virtual \ GH /\ UserLast < u /\ u <= SystemLast
                               /\ g.pte[u] = None /\ g.pde[Pde(u)] # None
    <3> SUFFICES ASSUME NEW u \in first..last
                 PROVE  /\ u \in Virtual \ GH /\ UserLast < u /\ u <= SystemLast
                        /\ g.pte[u] = None /\ g.pde[Pde(u)] # None
      OBVIOUS
    <3>1. u \in A /\ u \notin H
      BY <1>7
    <3>2. u \in SystemFirst..SystemLast /\ u \in Virtual /\ u \notin G /\ vm.pte[u] = None
      BY <1>6, <1>7, <3>1, RegionIs
    <3>3. UserLast < u /\ u <= SystemLast
      BY <3>2, Constants
    <3>4. g.pte[u] = None /\ g.pde[Pde(u)] # None
      BY <1>8, <1>10, <3>1, <3>2 DEF SameMaps
    <3> QED
      BY <3>1, <3>2, <3>3, <3>4
  <2> HIDE DEF GH
  <2>2. Committed(g, m, first..last, GH)
    BY <1>7, <1>10, <2>1, CommitSystemPagesIs
  <2> QED
    BY <2>1, <2>2 DEF GH
<1> HIDE DEF m, GH
<1>12. /\ m \in VMs /\ FreeOK(m) /\ SameAreas(vm, m) /\ m.ended = vm.ended
       /\ \A u \in Virtual \ (first..last) : m.pte[u] = vm.pte[u]
       /\ \A u \in first..last : m.pte[u] \in Pages
       /\ ~m.starved => PagesOK(m, {}, GH)
  BY <1>8, <1>10, <1>11 DEF Committed, SameAreas, SameMaps
<1>13. /\ y \in VMs /\ y.free = m.free /\ y.available = m.available /\ SameFrames(m, y) /\ y.pde = m.pde
       /\ y.pte = m.pte /\ y.ended = vm.ended \cup {last} /\ SameAreas(m, y) /\ y.starved = m.starved
  <2>1. last \in Virtual
    BY <1>7, <1>11
  <2> QED
    BY <1>12, <2>1 DEF VMs, SameFrames, SameAreas
<1> HIDE DEF y
<1>14. FreeOK(y) /\ SameAreas(vm, y) /\ SameBeyond(vm, y, A)
  <2>1. last \in A
    BY <1>7
  <2>2. FreeOK(y) /\ SameAreas(vm, y)
    BY <1>12, <1>13 DEF FreeOK, SameAreas
  <2>3. SameBeyond(vm, y, A)
    BY <1>7, <1>12, <1>13, <2>1 DEF SameBeyond
  <2> QED
    BY <2>2, <2>3
<1>15. ASSUME ~y.starved PROVE PagesOK(y, {}, GH)
  <2>1. /\ {} \in SUBSET Pages /\ {} \cap FreePages(y.free) = {}
        /\ FreePages(y.free) \cup {} = FreePages(m.free) \cup {} /\ PagesOK(m, {}, GH)
    BY <1>12, <1>13, <1>15
  <2> QED
    BY <1>13, <2>1, PagesMove
<1>16. \A p \in Pages : p # None
  BY Constants DEF Pages, None
<1>17. /\ \A u \in A : u \in y.ended <=> u = last
       /\ \A u \in A : u # v => y.pte[u] \in Pages
       /\ y.pte[v] = None => guard = 1
       /\ y.pte[v] \in Pages \/ (y.pte[v] = None /\ v < last)
       /\ y.pte[last] # None
  <2>1. \A u \in A : u \in y.ended <=> u = last
    BY <1>6, <1>7, <1>13
  <2>2. \A u \in A : u \in first..last \/ u = v
    <3>1. \A u \in H : u = v
      OBVIOUS
    <3> QED
      BY <1>7, <3>1
  <2>3. \A u \in first..last : y.pte[u] \in Pages
    BY <1>12, <1>13
  <2>4. CASE guard = 1
    <3>1. v \notin first..last /\ v < last /\ v \in Virtual
      BY <1>3, <1>6, <1>7, <2>4 DEF first, last
    <3>2. y.pte[v] = None
      BY <1>6, <1>7, <1>12, <1>13, <3>1
    <3> QED
      BY <1>7, <1>16, <2>1, <2>2, <2>3, <2>4, <3>1, <3>2
  <2>5. CASE guard = 0
    <3>1. v \in first..last
      BY <1>6, <1>7, <2>5 DEF first
    <3> QED
      BY <1>7, <1>16, <2>1, <2>2, <2>3, <3>1
  <2> QED
    BY <2>4, <2>5
<1>18. UsedArea(y, "System", Vma(v, k, "Allocated"))
  <2>1. LET a == Vma(v, k, "Allocated")
        IN  a.type = "Allocated" /\ a.base = v /\ VmaEnd(a) = last /\ Covered(a) = A
    BY <1>5, <1>7 DEF Vma, Covered, VmaEnd
  <2> QED
    BY <1>6, <1>17, <2>1 DEF UsedArea
<1>19. PICK old \in vm.vma["System"] : old.type = "Free" /\ v..v + k - 1 \subseteq Covered(old)
  BY <1>6
<1>20. Ready(vm, y, "System", old, v, k, "Allocated", H)
  <2>1. H \subseteq {v} /\ (y.pte[v] = None => H = {v})
    BY <1>17
  <2>2. ~y.starved => PagesOK(y, {}, Guards(vm) \cup H)
    BY <1>11, <1>15 DEF G
  <2>3. \A u \in v..v + k - 1 : u \in y.ended => y.pte[u] # None
    BY <1>7, <1>17
  <2>4. SameBeyond(vm, y, v..v + k - 1)
    BY <1>7, <1>14
  <2> HIDE DEF H
  <2> QED
    BY <1>3, <1>5, <1>6, <1>13, <1>14, <1>18, <1>19, <2>1, <2>2, <2>3, <2>4 DEF Ready
<1>21. CoreOK(w) /\ InstanceOK(w) /\ w.starved = y.starved /\ w.pde = y.pde
  <2> HIDE DEF H
  <2>1. LET z == ConstructVMA(y, "System", v, k, "Allocated")
        IN  CoreOK(z) /\ (InstanceOK(vm) => InstanceOK(z)) /\ z.starved = y.starved /\ z.pde = y.pde
    BY <1>20, ReadyMade
  <2> QED
    BY <1>3, <2>1 DEF w
<1>22. Explained(vm, w)
  <2>1. m.pde = g.pde /\ (m.starved => g.starved \/ g.available < Cardinality(first..last))
    BY <1>11 DEF Committed
  <2>2. w.pde = t.pde
    BY <1>10, <1>13, <1>21, <2>1 DEF SameMaps
  <2>3. Cardinality(first..last) = n
    <3>1. last - first + 1 = n
      BY <1>3, <1>5, <1>6 DEF first
    <3> QED
      BY <1>7, <3>1, RunCount
  <2>4. n <= vm.available /\ vm.available \in Nat
    BY <1>1, <1>3 DEF IsMappable, CoreOK, VMs
  <2>5. t = vm => ~w.starved
    BY <1>3, <1>10, <1>13, <1>21, <2>1, <2>3, <2>4
  <2> QED
    BY <1>5, <1>6, <1>8, <2>2, <2>5, TablesExplain
<1> QED
  BY <1>4, <1>21, <1>22 DEF VMInv

(* An area of the user region that is in use. *)
LEMMA UserAreaIs ==
    ASSUME NEW m, CoreOK(m), ~m.starved, NEW a \in m.vma["User"], a.type # "Free"
    PROVE  /\ "User" \in Regions /\ m \in VMs /\ FreeOK(m) /\ AreasOK(m) /\ UsedAreasOK(m)
           /\ PagesOK(m, {}, Guards(m)) /\ \A u \in m.ended : m.pte[u] # None
           /\ a \in Areas /\ a.type = "Reserved" /\ TiledSet(m.vma["User"], Region("User"))
           /\ Covered(a) \subseteq Virtual /\ Covered(a) \cap Guards(m) = {}
           /\ \A u \in Covered(a) : u <= UserLast /\ m.pte[u] \in Pages \cup {None}
<1>1. "User" \in Regions
  BY DEF Regions
<1>2. /\ m \in VMs /\ FreeOK(m) /\ AreasOK(m) /\ UsedAreasOK(m) /\ \A u \in m.ended : m.pte[u] # None
      /\ a \in Areas /\ Covered(a) \subseteq Virtual /\ Covered(a) \subseteq Region("User")
      /\ a.type \in {"Reserved", "Allocated"} /\ UsedArea(m, "User", a)
      /\ TiledSet(m.vma["User"], Region("User"))
  BY <1>1, UsedAreaIs
<1>3. a.type = "Reserved"
  BY <1>2 DEF UsedArea
<1>4. Covered(a) \cap Guards(m) = {}
  BY <1>1, <1>2, GuardsAway
<1>5. ASSUME NEW u \in Covered(a) PROVE u <= UserLast /\ m.pte[u] \in Pages \cup {None}
  <2>1. u \in UserFirst..UserLast /\ u \in Region("User") /\ u \in Virtual
    BY <1>2, RegionIs
  <2>2. m.pte[u] # Device
    BY <2>1 DEF CoreOK, SoundOK
  <2>3. m.pte[u] \in 0..Device \cup {None}
    BY <1>2, <2>1 DEF VMs
  <2>4. m.pte[u] \in 0..HighestPage \cup {None}
    BY <2>2, <2>3, Constants DEF Device
  <2> QED
    BY <2>1, <2>4, Constants DEF Pages
<1>6. PagesOK(m, {}, Guards(m))
  BY DEF CoreOK, SoundOK
<1> QED
  BY <1>1, <1>2, <1>3, <1>4, <1>5, <1>6

(* A change inside one user area is outside of all areas that must keep their ptes. *)
LEMMA UserOnly ==
    ASSUME NEW m, CoreOK(m), ~m.starved, NEW a \in m.vma["User"], a.type # "Free", NEW A \in SUBSET Covered(a)
    PROVE  \A r \in Regions : \A b \in m.vma[r] : Covered(b) \cap A = {} \/ (r = "User" /\ b.type # "Free")
<1> SUFFICES ASSUME NEW r \in Regions, NEW b \in m.vma[r], ~(r = "User" /\ b.type # "Free")
             PROVE  Covered(b) \cap A = {}
  OBVIOUS
<1>1. m \in VMs /\ AreasOK(m) /\ "User" \in Regions
  BY UserAreaIs
<1>2. Covered(a) \subseteq Region("User") /\ m.vma["User"] \in SUBSET Areas /\ TiledSet(m.vma["User"], Region("User"))
  BY <1>1, AreaInRegion
<1>3. Covered(b) \subseteq Region(r)
  BY <1>1, AreaInRegion
<1>4. CASE r # "User"
  BY <1>1, <1>2, <1>3, <1>4, RegionIs
<1>5. CASE r = "User" /\ b # a
  BY <1>2, <1>5, OneArea
<1>6. CASE r = "User" /\ b = a
  BY <1>6
<1> QED
  BY <1>4, <1>5, <1>6

(* The commit of a range inside an area. *)
LEMMA CommitIs ==
    ASSUME NEW m, VMInv(m), ~m.starved, NEW a \in m.vma["User"], a.type # "Free",
           NEW v \in Nat, NEW n \in Nat \ {0}, v..v + n - 1 \subseteq Covered(a)
    PROVE  /\ VMInv(Commit(m, v, n))
           /\ m.available >= Cardinality(ZeroPtes(m, v, n)) => Explained(m, Commit(m, v, n))
<1> DEFINE t == AllocatePT(m, v, n)
           last == v + n - 1
           w == CommitVirtualPages(t, v, last)
           A == v..last
           G == Guards(m)
           Z == ZeroIn(t, v, last)
<1>1. CoreOK(m) /\ InstanceOK(m) /\ Commit(m, v, n) = w
  BY DEF VMInv, Commit
<1>2. /\ m \in VMs /\ A \subseteq Virtual /\ \A u \in A : u \in Virtual \ G /\ u <= UserLast
      /\ \A u \in m.ended : m.pte[u] # None
  BY <1>1, UserAreaIs
<1>3. /\ AfterTables(m, t, Pde(v)..Pde(v + n - 1), {}, G)
      /\ t \in VMs /\ FreeOK(t) /\ t.pte = m.pte /\ t.ended = m.ended /\ SameAreas(m, t)
      /\ \A u \in A : t.pde[Pde(u)] # None
      /\ ~t.starved => PagesOK(t, {}, G)
  BY <1>1, <1>2, TablesReady
<1>4. last \in Nat /\ v <= last /\ Z = ZeroPtes(m, v, n) /\ Z \subseteq A /\ \A u \in Z : u \in Virtual /\ m.pte[u] = None
  BY <1>2, <1>3 DEF ZeroIn, ZeroPtes
<1> HIDE DEF t, last, G
<1>5. Committed(t, w, ZeroIn(t, v, last), G)
  <2>1. \A u \in v..last : u \in Virtual \ G /\ u <= UserLast /\ t.pde[Pde(u)] # None
    BY <1>2, <1>3
  <2> QED
    BY <1>3, <1>4, <2>1, CommitVirtualPagesIs
<1> HIDE DEF w, Z
<1>6. /\ w \in VMs /\ FreeOK(w) /\ SameAreas(m, w) /\ w.ended = m.ended
      /\ \A u \in Virtual \ Z : w.pte[u] = m.pte[u]
      /\ \A u \in Z : w.pte[u] \in Pages
      /\ ~w.starved => PagesOK(w, {}, G)
  BY <1>3, <1>5 DEF Committed, SameAreas, Z
<1>7. Keeping(m, w, Z)
  <2>1. \A r \in Regions : \A b \in m.vma[r] : Covered(b) \cap Z = {} \/ (r = "User" /\ b.type # "Free")
    <3>1. Z \in SUBSET Covered(a)
      BY <1>4 DEF last
    <3> QED
      BY <1>1, <3>1, UserOnly
  <2>2. \A u \in Z : w.pte[u] # Device /\ w.pte[u] # None
    <3>1. \A p \in Pages : p # Device /\ p # None
      BY Constants DEF Pages, Device, None
    <3> QED
      BY <1>6, <3>1
  <2>3. SameBeyond(m, w, Z)
    BY <1>6 DEF SameBeyond
  <2> QED
    BY <1>1, <1>6, <2>1, <2>2, <2>3 DEF Keeping, G
<1>8. CoreOK(w) /\ InstanceOK(w)
  BY <1>1, <1>7, AreasKept
<1>9. ASSUME m.available >= Cardinality(ZeroPtes(m, v, n)) PROVE Explained(m, w)
  <2>1. w.pde = t.pde /\ (w.starved => t.starved \/ t.available < Cardinality(Z))
    BY <1>5 DEF Committed, Z
  <2>2. m.available \in Int /\ Cardinality(Z) \in Nat
    <3>1. m.available \in Int
      BY <1>2 DEF VMs
    <3>2. IsFiniteSet(A)
      BY <1>4, RunCount
    <3> QED
      BY <1>4, <3>1, <3>2, FS_Subset, FS_CardinalityType
  <2>3. t = m => ~w.starved
    BY <1>4, <1>9, <2>1, <2>2
  <2>4. v..v + n - 1 \subseteq Virtual
    BY <1>2 DEF last
  <2> QED
    BY <1>3, <2>1, <2>3, <2>4, TablesExplain
<1> QED
  BY <1>1, <1>8, <1>9 DEF VMInv

(* A range of the user region whose start lies in an area in use lies in that area. *)
LEMMA InRange ==
    ASSUME CoreOK(vm), ~vm.starved, NEW v \in UserFirst..UserLast, NEW n \in Nat \ {0}, InUserRange(v, n)
    PROVE  /\ v \in Nat
           /\ \E a \in vm.vma["User"] : a.type # "Free" /\ v..v + n - 1 \subseteq Covered(a)
<1>1. vm \in VMs /\ AreasOK(vm) /\ "User" \in Regions /\ v \in Nat
  BY Constants DEF CoreOK, Regions
<1>2. vm.vma["User"] \in SUBSET Areas /\ TiledSet(vm.vma["User"], Region("User")) /\ v \in Region("User")
  BY <1>1, AreaInRegion, RegionIs
<1>3. PICK a \in vm.vma["User"] : v \in Covered(a)
  BY <1>2 DEF TiledSet
<1>4. GetVMA(vm, "User", v) = a
  BY <1>2, <1>3, GetVMAIs
<1>5. a.type # "Free" /\ v + n - 1 <= VmaEnd(a)
  BY <1>4 DEF InUserRange
<1>6. v..v + n - 1 \subseteq Covered(a)
  <2>1. /\ a.base \in Nat /\ VmaEnd(a) \in Nat /\ a.base <= v
        /\ \A u : u \in Covered(a) <=> u \in Nat /\ a.base <= u /\ u <= VmaEnd(a)
    BY <1>2, <1>3, AreaIs
  <2> SUFFICES ASSUME NEW u \in v..v + n - 1 PROVE u \in Covered(a)
    OBVIOUS
  <2> QED
    BY <1>1, <1>5, <2>1
<1> QED
  BY <1>1, <1>5, <1>6

(* CommitVirtualMemory. *)
LEMMA CommitVirtualStep ==
    ASSUME VMInv(vm), CommitVirtualMemory
    PROVE  VMInv(vm') /\ Explained(vm, vm')
<1>1. PICK v \in UserFirst .. UserLast, n \in Sizes :
        /\ InUserRange(v, n)
        /\ IsMappable(Cardinality(ZeroPtes(vm, v, n)))
        /\ vm' = Commit(vm, v, n)
  BY DEF CommitVirtualMemory
<1>2. ~vm.starved /\ CoreOK(vm) /\ n \in Nat \ {0}
  BY <1>1, VMAssumption DEF VMInv, IsMappable, Running
<1>3. v \in Nat /\ \E a \in vm.vma["User"] : a.type # "Free" /\ v..v + n - 1 \subseteq Covered(a)
  BY <1>1, <1>2, InRange
<1>4. VMInv(Commit(vm, v, n)) /\ Explained(vm, Commit(vm, v, n))
  BY <1>1, <1>2, <1>3, CommitIs DEF IsMappable
<1> QED
  BY <1>1, <1>4

(* Only the number of reserved pages changes. *)
OnlyReserved(m, w, k) ==
    /\ SameFree(m, w) /\ SameFrames(m, w) /\ SameMaps(m, w) /\ w.vma = m.vma /\ w.instance = m.instance
    /\ w.starved = m.starved /\ w.reserved = k

(* So it is when they are written. *)
LEMMA ReservedIs ==
    ASSUME NEW m \in VMs, NEW k \in Int
    PROVE  [m EXCEPT !.reserved = k] \in VMs /\ OnlyReserved(m, [m EXCEPT !.reserved = k], k)
BY DEF VMs, OnlyReserved, SameFree, SameFrames, SameMaps

(* A reservation makes an area, and no page changes. *)
LEMMA ReserveIs ==
    ASSUME VMInv(vm), ~vm.starved, NEW n \in Nat \ {0}, NEW v \in Places(vm, "User", n)
    PROVE  LET m == Reserve(vm, v, n)
           IN  /\ VMInv(m) /\ ~m.starved /\ v \in Nat /\ m.available = vm.available /\ m.pde = vm.pde
               /\ Vma(v, n, "Reserved") \in InUse(m.vma["User"])
               /\ \A u \in v..v + n - 1 : u \in Virtual /\ m.pte[u] = None /\ u \notin m.ended
<1> DEFINE x == ConstructVMA(vm, "User", v, n, "Reserved")
           m == Reserve(vm, v, n)
           A == v..v + n - 1
           R == Region("User")
<1>1. /\ CoreOK(vm) /\ InstanceOK(vm) /\ vm \in VMs /\ FreeOK(vm) /\ AreasOK(vm) /\ PagesOK(vm, {}, Guards(vm))
      /\ "User" \in Regions
  BY DEF VMInv, CoreOK, SoundOK, Regions
<1>2. /\ v \in Nat /\ A \subseteq Virtual
      /\ \E old \in vm.vma["User"] : old.type = "Free" /\ A \subseteq Covered(old)
      /\ \A u \in A : vm.pte[u] = None /\ u \notin vm.ended
  BY <1>1, PlaceIs
<1>3. PICK old \in vm.vma["User"] : old.type = "Free" /\ A \subseteq Covered(old)
  BY <1>2
<1>4. /\ x \in VMs /\ SameFree(vm, x) /\ SameFrames(vm, x) /\ SameMaps(vm, x)
      /\ x.instance = vm.instance /\ x.reserved = vm.reserved /\ x.starved = vm.starved
      /\ VmaMade(vm, x, "User", old, v, n, "Reserved")
  <2>1. /\ vm \in VMs /\ "User" \in Regions /\ R \subseteq Virtual /\ TiledSet(vm.vma["User"], R) /\ old \in vm.vma["User"]
        /\ old.type = "Free" /\ v \in Nat /\ n \in Nat \ {0} /\ v..v + n - 1 \subseteq Covered(old)
        /\ "Reserved" \in {"Reserved", "Allocated"}
    BY <1>1, <1>2, <1>3, AreaInRegion, RegionIs
  <2> HIDE DEF R
  <2>2. LET z == ConstructVMA(vm, "User", v, n, "Reserved")
        IN  /\ z \in VMs /\ SameFree(vm, z) /\ SameFrames(vm, z) /\ SameMaps(vm, z)
            /\ z.instance = vm.instance /\ z.reserved = vm.reserved /\ z.starved = vm.starved
            /\ VmaMade(vm, z, "User", old, v, n, "Reserved")
    BY ONLY <2>1, ConstructVMAIs
  <2> QED
    BY <2>2
<1>5. m = [x EXCEPT !.reserved = @ + n]
  BY DEF Reserve
<1> HIDE DEF x, m
<1>6. /\ m \in VMs /\ m.free = vm.free /\ m.available = vm.available /\ SameFrames(vm, m) /\ SameMaps(vm, m)
      /\ m.instance = vm.instance /\ m.reserved = vm.reserved + n /\ ~m.starved
      /\ VmaMade(vm, m, "User", old, v, n, "Reserved")
  <2> DEFINE k == x.reserved + n
  <2>1. x \in VMs /\ k \in Int
    BY <1>4 DEF VMs
  <2>2. m = [x EXCEPT !.reserved = k]
    BY <1>5
  <2> HIDE DEF k
  <2>3. m \in VMs /\ OnlyReserved(x, m, k)
    BY <2>1, <2>2, ReservedIs
  <2> QED
    BY <1>4, <2>3 DEF OnlyReserved, SameFree, SameFrames, SameMaps, VmaMade, k
<1>7. FreeOK(m) /\ SameBeyond(vm, m, A) /\ PagesOK(m, {}, Guards(vm))
  <2>1. /\ {} \in SUBSET Pages /\ {} \cap FreePages(m.free) = {} /\ m.pde = vm.pde /\ m.pte = vm.pte
        /\ FreePages(m.free) \cup {} = FreePages(vm.free) \cup {}
    BY <1>6 DEF SameMaps
  <2>2. PagesOK(m, {}, Guards(vm))
    BY <1>1, <1>6, <2>1, PagesMove
  <2> QED
    BY <1>1, <1>6, <2>2 DEF FreeOK, SameBeyond, SameMaps
<1>8. Making(vm, m, "User", old, v, n, "Reserved", {})
  <2>1. MadeIn(vm, m, "User", old, v, n, "Reserved")
    BY <1>1, <1>2, <1>3, <1>6, <1>7 DEF MadeIn
  <2>2. UsedArea(m, "User", Vma(v, n, "Reserved"))
    BY DEF UsedArea, Vma
  <2>3. \A u \in A : u \notin m.ended /\ m.pte[u] # Device
    <3>1. None # Device
      BY Constants DEF None, Device
    <3> QED
      BY <1>2, <1>6, <3>1 DEF SameMaps
  <2>4. PagesOK(m, {}, Guards(vm) \cup {})
    BY <1>7
  <2> QED
    BY <1>1, <1>6, <1>7, <2>1, <2>2, <2>3, <2>4 DEF Making
<1>9. /\ CoreOK(m) /\ InUse(vm.vma["Contiguous"]) \subseteq InUse(m.vma["Contiguous"])
      /\ InUse(m.vma["User"]) = InUse(vm.vma["User"]) \cup {Vma(v, n, "Reserved")}
  BY <1>8, AreaMade
<1>10. InstanceOK(m)
  <2> DEFINE a == Vma(0, 0, "Free")
  <2>1. a.type = "Free" /\ InUse(vm.vma["Contiguous"]) \ {a} \subseteq InUse(m.vma["Contiguous"])
    BY <1>9 DEF Vma
  <2> HIDE DEF a
  <2> QED
    BY <1>1, <1>6, <2>1, InstanceStays
<1> QED
  BY <1>2, <1>6, <1>9, <1>10 DEF VMInv, SameMaps, m

(* Undone frees a part of an area of the user region, and no page changes. *)
LEMMA UndoneIs ==
    ASSUME NEW m, CoreOK(m), ~m.starved, NEW a \in m.vma["User"], a.type # "Free",
           NEW v \in Nat, NEW n \in Nat \ {0}, v..v + n - 1 \subseteq Covered(a)
    PROVE  LET w == Undone(m, v, n)
           IN  /\ w \in VMs /\ SameFree(m, w) /\ SameFrames(m, w) /\ SameMaps(m, w)
               /\ w.instance = m.instance /\ w.reserved = m.reserved - n /\ w.starved = m.starved
               /\ VmaFreed(m, w, "User", a, v, n)
<1> DEFINE x == DestructVMA(m, "User", v, n)
           w == Undone(m, v, n)
           R == Region("User")
           k == x.reserved - n
<1>1. m \in VMs /\ AreasOK(m) /\ "User" \in Regions /\ TiledSet(m.vma["User"], R) /\ R \subseteq Virtual
  BY UserAreaIs, RegionIs
<1> HIDE DEF R
<1>2. /\ x \in VMs /\ SameFree(m, x) /\ SameFrames(m, x) /\ SameMaps(m, x)
      /\ x.instance = m.instance /\ x.reserved = m.reserved /\ x.starved = m.starved
      /\ VmaFreed(m, x, "User", a, v, n)
  <2>1. /\ m \in VMs /\ "User" \in Regions /\ R \subseteq Virtual /\ TiledSet(m.vma["User"], R) /\ a \in m.vma["User"]
        /\ a.type # "Free" /\ v \in Nat /\ n \in Nat \ {0} /\ v..v + n - 1 \subseteq Covered(a)
    BY <1>1
  <2>2. LET z == DestructVMA(m, "User", v, n)
        IN  /\ z \in VMs /\ SameFree(m, z) /\ SameFrames(m, z) /\ SameMaps(m, z)
            /\ z.instance = m.instance /\ z.reserved = m.reserved /\ z.starved = m.starved
            /\ VmaFreed(m, z, "User", a, v, n)
    BY ONLY <2>1, DestructVMAIs
  <2> QED
    BY <2>2
<1>3. w = [x EXCEPT !.reserved = k]
  BY DEF Undone
<1>4. x \in VMs /\ k \in Int
  BY <1>2 DEF VMs
<1> HIDE DEF x, w, k
<1>5. w \in VMs /\ OnlyReserved(x, w, k)
  BY <1>3, <1>4, ReservedIs
<1>6. /\ SameFree(m, w) /\ SameFrames(m, w) /\ SameMaps(m, w)
      /\ w.instance = m.instance /\ w.reserved = m.reserved - n /\ w.starved = m.starved
      /\ VmaFreed(m, w, "User", a, v, n)
  BY <1>2, <1>5 DEF OnlyReserved, SameFree, SameFrames, SameMaps, VmaFreed, k
<1> QED
  BY <1>5, <1>6 DEF w

(* What is left of an area of the user region is reserved. *)
LEMMA RestReserved ==
    ASSUME NEW w, NEW a, a.type = "Reserved", NEW v, NEW n, NEW b \in Rest(a, v, n)
    PROVE  UsedArea(w, "User", b)
<1>1. b.type = "Reserved"
  BY DEF Rest, Sized, Vma
<1> QED
  BY <1>1 DEF UsedArea

(* A part of an area of the user region has become free, its ptes are zero. *)
UserFreed(m, w, a, v, n) ==
    /\ w \in VMs /\ FreeOK(w) /\ PagesOK(w, {}, Guards(m)) /\ SameBeyond(m, w, v..v + n - 1)
    /\ \A u \in v..v + n - 1 : w.pte[u] = None /\ u \notin w.ended
    /\ VmaFreed(m, w, "User", a, v, n)
    /\ w.reserved = m.reserved - n /\ w.instance = m.instance

(* The invariant after that. *)
LEMMA UserFreedOK ==
    ASSUME NEW m, VMInv(m), ~m.starved, NEW a \in m.vma["User"], a.type # "Free",
           NEW v \in Nat, NEW n \in Nat \ {0}, v..v + n - 1 \subseteq Covered(a),
           NEW w, UserFreed(m, w, a, v, n)
    PROVE  VMInv(w)
<1> DEFINE A == v..v + n - 1
           H == Guards(m) \ A
<1>1. CoreOK(m) /\ InstanceOK(m)
  BY DEF VMInv
<1>2. /\ "User" \in Regions /\ m \in VMs /\ AreasOK(m) /\ UsedAreasOK(m) /\ a.type = "Reserved"
      /\ w \in VMs /\ FreeOK(w)
  BY <1>1, UserAreaIs DEF UserFreed
<1>3. PagesOK(w, {}, H)
  <2>1. PagesOK(w, {}, Guards(m)) /\ H \in SUBSET Guards(m)
    BY DEF UserFreed
  <2> HIDE DEF H
  <2> QED
    BY <1>2, <2>1, FewerGuards, VirtualIs
<1>4. FreedIn(m, w, "User", a, v, n)
  <2>1. \A b \in Rest(a, v, n) : UsedArea(w, "User", b)
    BY <1>2, RestReserved
  <2> QED
    BY <1>2, <2>1 DEF FreedIn, UserFreed
<1>5. Freeing(m, w, "User", a, v, n)
  BY <1>1, <1>2, <1>3, <1>4 DEF Freeing, UserFreed
<1>6. CoreOK(w) /\ AreasAre(m, w, "User", (InUse(m.vma["User"]) \ {a}) \cup Rest(a, v, n))
  BY <1>5, AreaFreed
<1>7. InstanceOK(w)
  <2>1. w.vma["Contiguous"] = m.vma["Contiguous"]
    BY <1>6 DEF AreasAre, Regions
  <2> QED
    BY <1>1, <2>1 DEF InstanceOK, UserFreed
<1> QED
  BY <1>6, <1>7 DEF VMInv

(* ReserveVirtualMemory. *)
LEMMA ReserveStep ==
    ASSUME VMInv(vm), ReserveVirtualMemory
    PROVE  VMInv(vm') /\ Explained(vm, vm')
<1>1. ~vm.starved
  BY DEF ReserveVirtualMemory, Running
<1>2. PICK n \in Sizes : \E v \in Places(vm, "User", n) :
          LET m == Reserve(vm, v, n)
          IN  \/ vm' = m
              \/ IsMappable(n) /\ vm' = IF CanAllocatePT(m, v, n) THEN Commit(m, v, n) ELSE Undone(m, v, n)
  BY DEF ReserveVirtualMemory
<1>3. PICK v \in Places(vm, "User", n) :
          LET m == Reserve(vm, v, n)
          IN  \/ vm' = m
              \/ IsMappable(n) /\ vm' = IF CanAllocatePT(m, v, n) THEN Commit(m, v, n) ELSE Undone(m, v, n)
  BY <1>2
<1> DEFINE m == Reserve(vm, v, n)
           z == Vma(v, n, "Reserved")
<1>4. n \in Nat \ {0}
  BY VMAssumption
<1>5. vm' = m \/ (vm' = Commit(m, v, n) /\ n <= vm.available) \/ vm' = Undone(m, v, n)
  BY <1>3 DEF IsMappable
<1>6. /\ VMInv(m) /\ ~m.starved /\ v \in Nat /\ m.available = vm.available /\ m.pde = vm.pde
      /\ z \in InUse(m.vma["User"])
      /\ \A u \in v..v + n - 1 : u \in Virtual /\ m.pte[u] = None /\ u \notin m.ended
  BY <1>1, <1>4, ReserveIs
<1> HIDE DEF m
<1>7. z \in m.vma["User"] /\ z.type # "Free" /\ v..v + n - 1 \subseteq Covered(z)
  <2>1. z \in m.vma["User"] /\ z.type # "Free"
    BY <1>6 DEF InUse
  <2>2. z.base = v /\ z.size = n
    BY DEF Vma
  <2> QED
    BY <2>1, <2>2 DEF Covered, VmaEnd
<1> HIDE DEF z
<1>8. VMInv(Commit(m, v, n)) /\ (n <= vm.available => Explained(vm, Commit(m, v, n)))
  <2>1. Cardinality(ZeroPtes(m, v, n)) = n
    <3>1. ZeroPtes(m, v, n) = v..v + n - 1
      BY <1>6 DEF ZeroPtes
    <3>2. Cardinality(v..v + n - 1) = n
      <4> DEFINE e == v + n - 1
      <4>1. v \in Int /\ e \in Int /\ v <= e /\ e - v + 1 = n
        BY <1>4, <1>6
      <4> HIDE DEF e
      <4>2. Cardinality(v..e) = n
        BY <4>1, RunCount
      <4> QED
        BY <4>2 DEF e
    <3> QED
      BY <3>1, <3>2
  <2>2. VMInv(Commit(m, v, n)) /\ (m.available >= n => Explained(m, Commit(m, v, n)))
    BY <1>4, <1>6, <1>7, <2>1, CommitIs
  <2>3. n <= vm.available => m.available >= n
    <3>1. vm \in VMs
      BY DEF VMInv, CoreOK
    <3>2. vm.available \in Int
      BY <3>1 DEF VMs
    <3> QED
      BY <1>4, <1>6, <3>2
  <2> QED
    BY <1>6, <2>2, <2>3 DEF Explained
<1>9. VMInv(Undone(m, v, n)) /\ ~Undone(m, v, n).starved
  <2> DEFINE w == Undone(m, v, n)
  <2>1. CoreOK(m) /\ m \in VMs /\ FreeOK(m) /\ PagesOK(m, {}, Guards(m))
    BY <1>6, <1>7, UserAreaIs DEF VMInv
  <2>2. /\ w \in VMs /\ SameFree(m, w) /\ SameFrames(m, w) /\ SameMaps(m, w)
        /\ w.instance = m.instance /\ w.reserved = m.reserved - n /\ w.starved = m.starved
        /\ VmaFreed(m, w, "User", z, v, n)
    BY <1>4, <1>6, <1>7, <2>1, UndoneIs
  <2> HIDE DEF w
  <2>3. FreeOK(w) /\ PagesOK(w, {}, Guards(m))
    <3>1. FreeOK(w)
      BY <2>1, <2>2 DEF FreeOK, SameFree
    <3>2. /\ {} \in SUBSET Pages /\ {} \cap FreePages(w.free) = {} /\ w.pde = m.pde /\ w.pte = m.pte
          /\ FreePages(w.free) \cup {} = FreePages(m.free) \cup {}
      BY <2>2 DEF SameFree, SameMaps
    <3> QED
      BY <2>1, <2>2, <3>1, <3>2, PagesMove
  <2>4. UserFreed(m, w, z, v, n)
    BY <1>6, <2>2, <2>3 DEF UserFreed, SameMaps, SameBeyond
  <2>5. VMInv(w)
    BY <1>4, <1>6, <1>7, <2>4, UserFreedOK
  <2> QED
    BY <1>6, <2>2, <2>5 DEF w
<1> QED
  BY <1>5, <1>6, <1>8, <1>9 DEF Explained

(* XbFreeVirtualMemory frees the pages of a range, zeroes its ptes and then frees the page *)
(* tables this leaves empty.                                                            *)
Decommitted(x, v, n) ==
    DeallocatePT(ZeroPte(DecommitPages(x, v, v + n - 1), v, v + n - 1), v, n)

(* What that leaves of a range whose page tables are there. *)
LEMMA DecommittedIs ==
    ASSUME NEW x \in VMs, FreeOK(x), NEW G, PagesOK(x, {}, G), NEW v \in Nat, NEW n \in Nat \ {0},
           \A u \in v..v + n - 1 : /\ u \in Virtual \ G /\ x.pte[u] \in Pages \cup {None}
                                   /\ x.pde[Pde(u)] # None,
           \A u \in x.ended : x.pte[u] # None
    PROVE  LET w == Decommitted(x, v, n)
           IN  /\ w \in VMs /\ FreeOK(w) /\ PagesOK(w, {}, G) /\ SameAreas(x, w) /\ w.starved = x.starved
               /\ SameBeyond(x, w, v..v + n - 1)
               /\ \A u \in v..v + n - 1 : w.pte[u] = None /\ u \notin w.ended
<1> DEFINE last == v + n - 1
           y == DecommitPages(x, v, last)
           z == ZeroPte(y, v, last)
           w == DeallocatePT(z, v, n)
<1>1. last \in Nat /\ v <= last /\ v..last \subseteq Virtual /\ v..last \cap G = {}
  OBVIOUS
<1>2. Decommitted(x, v, n) = w
  BY DEF Decommitted
<1>3. \A u \in v..last : u \in Virtual /\ x.pte[u] \in Pages \cup {None} /\ x.pde[Pde(u)] # None
  OBVIOUS
<1>4. last = v + n - 1
  OBVIOUS
<1> HIDE DEF last
<1>5. FreedFrames(x, y, MappedIn(x, v, last))
  BY <1>1, <1>3, DecommitPagesIs
<1> HIDE DEF y
<1>6. Unmapped(x, z, v..last, G)
  BY <1>1, <1>5, UnmapIs
<1> HIDE DEF z
<1>7. /\ z \in VMs /\ FreeOK(z) /\ PagesOK(z, {}, G) /\ z.pde = x.pde /\ SameAreas(x, z) /\ z.starved = x.starved
      /\ \A u \in Virtual : z.pte[u] = IF u \in v..last THEN None ELSE x.pte[u]
      /\ z.ended = x.ended \ {u \in v..last : x.pte[u] # None}
  BY <1>6 DEF Unmapped
<1>8. w \in VMs /\ FreeOK(w) /\ PagesOK(w, {}, G) /\ SameOutside(z, w)
  <2>1. v..v + n - 1 \subseteq Virtual /\ \A u \in v..v + n - 1 : z.pde[Pde(u)] # None
    BY <1>7
  <2> QED
    BY <1>7, <2>1, DeallocatePTIs
<1> HIDE DEF w
<1>9. SameAreas(x, w) /\ w.starved = x.starved
  BY <1>7, <1>8 DEF SameOutside, SameAreas
<1>10. SameBeyond(x, w, v..last)
  BY <1>7, <1>8 DEF SameOutside, SameBeyond
<1>11. \A u \in v..last : w.pte[u] = None /\ u \notin w.ended
  BY <1>1, <1>7, <1>8 DEF SameOutside
<1> QED
  BY <1>2, <1>4, <1>8, <1>9, <1>10, <1>11

(* XbFreeVirtualMemory, where the page tables of the range are there. *)
LEMMA XbFreeStep ==
    ASSUME VMInv(vm), XbFreeVirtualMemory, ~broken'
    PROVE  VMInv(vm') /\ Explained(vm, vm')
<1>1. ~vm.starved
  BY DEF XbFreeVirtualMemory, Running
<1>2. PICK v \in UserFirst .. UserLast, n \in Sizes, release \in BOOLEAN :
          LET last == v + n - 1
              m == IF release THEN Undone(vm, v, n) ELSE vm
          IN  /\ InUserRange(v, n)
              /\ vm' = DeallocatePT(ZeroPte(DecommitPages(m, v, last), v, last), v, n)
              /\ broken' = (MissingTables(vm, v, n) # {})
  BY DEF XbFreeVirtualMemory
<1> DEFINE A == v..v + n - 1
           x == IF release THEN Undone(vm, v, n) ELSE vm
           w == Decommitted(x, v, n)
           G == Guards(vm)
<1>3. n \in Nat \ {0} /\ InUserRange(v, n) /\ MissingTables(vm, v, n) = {} /\ vm' = w
  BY <1>2, VMAssumption DEF Decommitted
<1>4. CoreOK(vm) /\ InstanceOK(vm)
  BY <1>1 DEF VMInv
<1>5. v \in Nat /\ \E a \in vm.vma["User"] : a.type # "Free" /\ A \subseteq Covered(a)
  BY <1>1, <1>3, <1>4, InRange
<1>6. PICK a \in vm.vma["User"] : a.type # "Free" /\ A \subseteq Covered(a)
  BY <1>5
<1>7. /\ vm \in VMs /\ FreeOK(vm) /\ PagesOK(vm, {}, G) /\ \A u \in vm.ended : vm.pte[u] # None
      /\ \A u \in A : u \in Virtual \ G /\ vm.pte[u] \in Pages \cup {None}
  BY <1>1, <1>4, <1>6, UserAreaIs
<1>7a. \A u \in A : vm.pde[Pde(u)] # None
  <2>1. \A u \in A : Pde(u) \in Pde(v)..Pde(v + n - 1)
    BY <1>3, <1>5, <1>7, PdeRange
  <2> QED
    BY <1>3, <2>1 DEF MissingTables
<1>8. /\ x \in VMs /\ FreeOK(x) /\ PagesOK(x, {}, G) /\ SameMaps(vm, x) /\ x.starved = vm.starved
      /\ IF release THEN /\ VmaFreed(vm, x, "User", a, v, n) /\ x.reserved = vm.reserved - n
                         /\ x.instance = vm.instance
                    ELSE SameAreas(vm, x)
  <2>1. CASE release
    <3> DEFINE m == Undone(vm, v, n)
    <3>1. x = m
      BY <2>1
    <3>2. /\ m \in VMs /\ SameFree(vm, m) /\ SameFrames(vm, m) /\ SameMaps(vm, m)
          /\ m.instance = vm.instance /\ m.reserved = vm.reserved - n /\ m.starved = vm.starved
          /\ VmaFreed(vm, m, "User", a, v, n)
      BY <1>1, <1>3, <1>4, <1>5, <1>6, UndoneIs
    <3> HIDE DEF m, x, A
    <3>3. FreeOK(m)
      BY <1>7, <3>2 DEF FreeOK, SameFree
    <3>4. /\ {} \in SUBSET Pages /\ {} \cap FreePages(m.free) = {} /\ m.pde = vm.pde /\ m.pte = vm.pte
          /\ FreePages(m.free) \cup {} = FreePages(vm.free) \cup {}
      BY <3>2 DEF SameFree, SameMaps
    <3>5. PagesOK(m, {}, G)
      BY <1>7, <3>2, <3>4, PagesMove
    <3> QED
      BY <2>1, <3>1, <3>2, <3>3, <3>5
  <2>2. CASE ~release
    <3>1. x = vm
      BY <2>2
    <3> HIDE DEF x
    <3> QED
      BY <1>7, <2>2, <3>1 DEF SameMaps, SameAreas
  <2> QED
    BY <2>1, <2>2
<1> HIDE DEF x, G
<1>9. /\ w \in VMs /\ FreeOK(w) /\ PagesOK(w, {}, G) /\ SameAreas(x, w) /\ w.starved = x.starved
      /\ SameBeyond(x, w, A) /\ \A u \in A : w.pte[u] = None /\ u \notin w.ended
  <2>1. /\ x \in VMs /\ FreeOK(x) /\ PagesOK(x, {}, G) /\ v \in Nat /\ n \in Nat \ {0}
        /\ \A u \in v..v + n - 1 : /\ u \in Virtual \ G /\ x.pte[u] \in Pages \cup {None}
                                   /\ x.pde[Pde(u)] # None
        /\ \A u \in x.ended : x.pte[u] # None
    BY <1>3, <1>5, <1>7, <1>7a, <1>8 DEF SameMaps
  <2> QED
    BY <2>1, DecommittedIs
<1> HIDE DEF w
<1>10. SameBeyond(vm, w, A)
  BY <1>8, <1>9 DEF SameBeyond, SameMaps
<1>11. CASE release
  <2>1. UserFreed(vm, w, a, v, n)
    <3>1. VmaFreed(vm, w, "User", a, v, n) /\ w.reserved = vm.reserved - n /\ w.instance = vm.instance
      BY <1>8, <1>9, <1>11 DEF SameAreas, VmaFreed
    <3> QED
      BY <1>9, <1>10, <3>1 DEF UserFreed, G
  <2>2. VMInv(w)
    BY <1>1, <1>3, <1>5, <1>6, <2>1, UserFreedOK
  <2> QED
    BY <1>1, <1>3, <1>8, <1>9, <2>2 DEF Explained
<1>12. CASE ~release
  <2>1. SameAreas(vm, w)
    BY <1>8, <1>9, <1>12 DEF SameAreas
  <2>2. \A r \in Regions : \A b \in vm.vma[r] : Covered(b) \cap A = {} \/ (r = "User" /\ b.type # "Free")
    <3>1. A \in SUBSET Covered(a)
      BY <1>6
    <3> HIDE DEF A
    <3> QED
      BY <1>1, <1>4, <1>6, <3>1, UserOnly
  <2>3. \A u \in A : w.pte[u] # Device /\ u \notin w.ended
    <3>1. None # Device
      BY Constants DEF None, Device
    <3> QED
      BY <1>9, <3>1
  <2> HIDE DEF A
  <2>4. Keeping(vm, w, A)
    BY <1>1, <1>4, <1>9, <1>10, <2>1, <2>2, <2>3 DEF Keeping, G
  <2>5. CoreOK(w) /\ InstanceOK(w)
    BY <1>1, <1>4, <2>4, AreasKept
  <2> QED
    BY <1>1, <1>3, <1>8, <1>9, <2>5 DEF VMInv, Explained
<1> QED
  BY <1>11, <1>12

(* Before anything is allocated: the free list is one block. *)
LEMMA EmptyFree ==
    LET list == <<Block(0, HighestPage + 1)>>
    IN  /\ list \in Seq(Blocks) /\ Coalesced(list) /\ FreePages(list) = Pages
<1> DEFINE b == Block(0, HighestPage + 1)
           list == <<b>>
<1>1. b \in Blocks /\ b.start = 0 /\ b.size = HighestPage + 1 /\ BlockEnd(b) = HighestPage
  BY Constants DEF Block, Blocks, BlockEnd
<1> HIDE DEF b
<1>2. list \in Seq(Blocks) /\ DOMAIN list = {1} /\ list[1] = b
  BY <1>1
<1>3. FreePages(list) = Pages
  BY <1>1, <1>2 DEF FreePages, Pages
<1>4. Coalesced(list)
  BY <1>1, <1>2, Constants DEF Coalesced
<1> QED
  BY <1>2, <1>3, <1>4 DEF b

(* The region as one free area. *)
Whole(r) == Vma(Min(Region(r)), Cardinality(Region(r)), "Free")

(* It tiles the region. *)
LEMMA WholeRegion ==
    ASSUME NEW r \in Regions
    PROVE  /\ Whole(r) \in Areas /\ Covered(Whole(r)) = Region(r) /\ Whole(r).type = "Free"
           /\ TiledSet({Whole(r)}, Region(r))
           /\ r = "System" => (VmaEnd(Whole(r)) + 1) % Granularity = 0
<1> DEFINE R == Region(r)
           a == Vma(Min(R), Cardinality(R), "Free")
<1>1. PICK x \in Nat, y \in Nat : x <= y /\ R = x..y /\ (r = "System" => (y + 1) % Granularity = 0)
  <2>1. ContiguousLast \in Nat /\ ContiguousFirst <= ContiguousLast
    BY Constants DEF ContiguousLast
  <2>2. (SystemLast + 1) % Granularity = 0
    BY VMAssumption
  <2>3. r = "User" \/ r = "System" \/ r = "Contiguous"
    BY DEF Regions
  <2>4. CASE r = "User"
    BY <2>4, Constants, RegionIs
  <2>5. CASE r = "System"
    BY <2>2, <2>5, Constants, RegionIs
  <2>6. CASE r = "Contiguous"
    BY <2>1, <2>6, Constants, RegionIs
  <2> QED
    BY <2>3, <2>4, <2>5, <2>6
<1> HIDE DEF R
<1>2. Min(R) = x
  BY <1>1 DEF Min
<1>3. Cardinality(R) = y - x + 1
  BY <1>1, RunCount
<1>4. a.base = x /\ a.size = y - x + 1 /\ a.type = "Free"
  BY <1>2, <1>3 DEF Vma
<1>5. a = [base |-> x, size |-> y - x + 1, type |-> "Free"]
  BY <1>2, <1>3 DEF Vma
<1> HIDE DEF a
<1>6. VmaEnd(a) = y
  BY <1>1, <1>4 DEF VmaEnd
<1>7. Covered(a) = R
  BY <1>1, <1>4, <1>6 DEF Covered
<1>8. a \in Areas
  <2>1. x \in Virtual
    BY <1>1, RegionIs DEF R
  <2>2. y - x + 1 \in Nat \ {0}
    BY <1>1
  <2> QED
    BY <1>5, <2>1, <2>2 DEF Areas
<1>9. TiledSet({a}, R)
  BY <1>7 DEF TiledSet
<1> QED
  BY <1>1, <1>4, <1>6, <1>7, <1>8, <1>9 DEF a, R, Whole

(* Before anything is allocated the invariant holds, but for the instance memory. *)
LEMMA EmptyIs ==
    /\ CoreOK(Empty) /\ ~Empty.starved /\ Empty.instance = HighestPage - MaxContiguousPfn
    /\ FreePages(Empty.free) = Pages
    /\ \A d \in Pdes : Empty.pde[d] = None
<1> DEFINE m == Empty
           list == <<Block(0, HighestPage + 1)>>
           vma == [r \in Regions |-> {Whole(r)}]
<1>1. /\ m.free = list /\ m.available = HighestPage + 1
      /\ m.type = [p \in Pages |-> "Unknown"] /\ m.used = [p \in Pages |-> 0]
      /\ m.usage = [t \in Types |-> 0] /\ m.pde = [d \in Pdes |-> None] /\ m.pte = [v \in Virtual |-> None]
      /\ m.ended = {} /\ m.vma = vma /\ m.instance = HighestPage - MaxContiguousPfn
      /\ m.reserved = 0 /\ m.starved = FALSE
  BY DEF Empty, Whole
<1>2. list \in Seq(Blocks) /\ Coalesced(list) /\ FreePages(list) = Pages
  BY EmptyFree
<1>3. /\ vma \in [Regions -> SUBSET Areas]
      /\ \A r \in Regions : vma[r] = {Whole(r)} /\ TiledSet(vma[r], Region(r))
  BY WholeRegion
<1> HIDE DEF list, vma
<1>4. Cardinality(Pages) = HighestPage + 1
  BY RunCount, Constants DEF Pages
<1>5. m \in VMs
  <2>1. /\ HighestPage + 1 \in Int /\ 0 \in 0..PtesUsedWidth - 1 /\ 0 \in Int
        /\ HighestPage - MaxContiguousPfn \in 0..HighestPage - MaxContiguousPfn
    BY Constants
  <2>2. m = [free |-> list, available |-> HighestPage + 1, type |-> [p \in Pages |-> "Unknown"],
             used |-> [p \in Pages |-> 0], usage |-> [t \in Types |-> 0], pde |-> [d \in Pdes |-> None],
             pte |-> [v \in Virtual |-> None], ended |-> {}, vma |-> vma,
             instance |-> HighestPage - MaxContiguousPfn, reserved |-> 0, starved |-> FALSE]
    BY DEF Empty, list, vma, Whole
  <2>3. "Unknown" \in Types
    BY DEF Types
  <2> QED
    BY <1>2, <1>3, <2>1, <2>2, <2>3 DEF VMs
<1>6. FreeOK(m)
  BY <1>1, <1>2, <1>4 DEF FreeOK
<1>7. AreasOK(m)
  <2> SUFFICES ASSUME NEW r \in Regions
               PROVE  TiledSet(m.vma[r], Region(r)) /\ \A a \in m.vma[r] : a.type = "Free" => FreeArea(m, r, a)
    BY DEF AreasOK
  <2>1. TiledSet(m.vma[r], Region(r))
    BY <1>1, <1>3
  <2>2. ASSUME NEW a \in m.vma[r] PROVE FreeArea(m, r, a)
    <3>0. a = Whole(r)
      BY <1>1, <1>3
    <3>1. Covered(a) = Region(r) /\ (r = "System" => (VmaEnd(a) + 1) % Granularity = 0)
      BY <3>0, WholeRegion
    <3>2. Covered(a) \subseteq Virtual
      BY <3>1, RegionIs
    <3> QED
      BY <1>1, <3>1, <3>2 DEF FreeArea
  <2> QED
    BY <2>1, <2>2
<1>8. \A r \in Regions : InUse(m.vma[r]) = {}
  <2> SUFFICES ASSUME NEW r \in Regions, NEW a \in m.vma[r] PROVE a.type = "Free"
    BY DEF InUse
  <2>1. a = Whole(r)
    BY <1>1, <1>3
  <2> QED
    BY <2>1, WholeRegion
<1>9. m.reserved = Cardinality(UsedCover(m.vma["User"]))
  <2>1. UsedCover(m.vma["User"]) = {}
    BY <1>8 DEF UsedCover, Regions
  <2> QED
    BY <1>1, <2>1, FS_EmptySet
<1>10. Guards(m) = {}
  <2>1. \A a \in m.vma["System"] : ~Guarded(m, a)
    BY <1>8 DEF Guarded, InUse, Regions
  <2> QED
    BY <2>1 DEF Guards
<1>11. PagesOK(m, {}, {})
  <2>0. None \notin Pages
    BY Constants DEF None, Pages
  <2>1. Owners(m, {})
    BY <1>1, <1>2, <2>0 DEF Owners
  <2>2. UsageOK(m)
    <3>1. \A t \in Types \ {"Unknown"} : OfType(m, t) = {}
      BY <1>1 DEF OfType
    <3> QED
      BY <1>1, <3>1, FS_EmptySet DEF UsageOK
  <2>3. CountsOK(m, {})
    BY <1>1 DEF CountsOK, Pdes
  <2> QED
    BY <2>1, <2>2, <2>3 DEF PagesOK
<1>12. SoundOK(m)
  <2>1. \A v \in Region("User") : m.pte[v] # Device
    <3>1. None # Device
      BY Constants DEF None, Device
    <3> QED
      BY <1>1, <3>1, RegionIs DEF Regions
  <2> QED
    BY <1>1, <1>8, <1>10, <1>11, <2>1 DEF SoundOK, UsedAreasOK
<1> QED
  BY <1>1, <1>2, <1>5, <1>6, <1>7, <1>9, <1>12 DEF CoreOK

(* Requests without an alignment, or for any page, are always alignable. *)
LEMMA AlwaysAlignable ==
    ASSUME NEW m \in VMs, FreeOK(m), NEW n \in Nat \ {0}, NEW align \in {0, 1}, NEW lo \in Nat, NEW hi \in Nat
    PROVE  Alignable(m.free, n, align, lo, hi)
BY BlocksBelow, SmallAlignments

(* They find pages wherever there are enough in a row. *)
LEMMA FoundIf ==
    ASSUME NEW m \in VMs, FreeOK(m), NEW n \in Nat \ {0}, NEW align \in {0, 1}, NEW lo \in Nat, NEW hi \in Nat,
           NEW p \in Nat, p..p + n - 1 \subseteq FreePages(m.free), lo <= p, p + n - 1 <= hi
    PROVE  RemoveFree(m.free, n, align, lo, hi).found
<1>1. Rounded(n, align) = n
  <2>1. CASE align = 0
    BY <2>1 DEF Rounded
  <2>2. CASE align = 1
    <3>1. RoundUp(n, 1) \in Nat /\ n <= RoundUp(n, 1) /\ RoundUp(n, 1) < n + 1
      BY RoundUpIs
    <3> QED
      BY <2>2, <3>1 DEF Rounded
  <2> QED
    BY <2>1, <2>2
<1>2. Aligned(p, align)
  BY DEF Aligned
<1>3. Room(m.free, p, Rounded(n, align), align, lo, hi)
  BY <1>1, <1>2 DEF Room
<1>4. /\ m.free \in Seq(Blocks) /\ Coalesced(m.free)
      /\ \A j \in 1..Len(m.free) : BlockEnd(m.free[j]) + 1 < Word
  BY BlocksBelow
<1>5. align \in Nat
  OBVIOUS
<1> QED
  BY <1>3, <1>4, <1>5, RemoveFreeFails

(* A page table finds a page when one is free among the contiguous pages. *)
LEMMA TableFindsPage ==
    ASSUME NEW m \in VMs, FreeOK(m), ~m.starved, NEW d \in Pdes, NEW p \in FreePages(m.free), p <= MaxContiguousPfn
    PROVE  ~CommitTable(m, d).starved
<1> DEFINE r == RemoveFree(m.free, 1, 0, 0, MaxContiguousPfn)
           x == Taken(m, r, 1)
<1>1. p \in Nat /\ MaxContiguousPfn \in Nat
  <2>1. p \in Pages
    BY DEF FreeOK
  <2> QED
    BY <2>1, Constants DEF Pages
<1>2. r.found
  <2>1. p..p + 1 - 1 \subseteq FreePages(m.free) /\ 0 <= p /\ p + 1 - 1 <= MaxContiguousPfn
    BY <1>1
  <2>2. 1 \in Nat \ {0} /\ 0 \in {0, 1} /\ 0 \in Nat
    OBVIOUS
  <2> QED
    BY <1>1, <2>1, <2>2, FoundIf
<1>3. TakePage(m, MaxContiguousPfn) = [vm |-> x, pfn |-> r.pfn]
  BY <1>2 DEF TakePage
<1>4. x = [m EXCEPT !.free = r.list, !.available = m.available - 1]
  BY DEF Taken
<1> DEFINE y == [x EXCEPT !.pde[d] = r.pfn]
           w == WritePfn(y, r.pfn, r.pfn, "PageTable")
<1>5. CommitTable(m, d) = IF m.pde[d] # None THEN m ELSE w
  BY <1>3 DEF CommitTable
<1> HIDE DEF r
<1>6. x.starved = m.starved
  BY <1>4 DEF VMs
<1> HIDE DEF x
<1>7. y.starved = x.starved
  OBVIOUS
<1> HIDE DEF y
<1>8. w.starved = y.starved
  BY DEF WritePfn
<1> HIDE DEF w
<1> QED
  BY <1>5, <1>6, <1>7, <1>8

(* One page needs one page table. *)
LEMMA OneTable ==
    ASSUME NEW m, NEW v \in Nat
    PROVE  AllocatePT(m, v, 1) = CommitTable(m, Pde(v))
<1> DEFINE n == 1
           e == Pde(v + n - 1)
<1>1. v + n - 1 = v /\ e = Pde(v) /\ Pde(v) \in Nat
  BY PdeIs
<1> HIDE DEF n
<1>2. PICK g : /\ AllocatePT(m, v, n) = g[e]
               /\ g[Pde(v) - 1] = m
               /\ \A i \in Pde(v)..e : g[i] = CommitTable(g[i - 1], i)
  <2>1. Pde(v) \in Int /\ Pde(v + n - 1) \in Int /\ Pde(v) - 1 <= Pde(v + n - 1)
    BY <1>1
  <2> QED
    BY <2>1, AllocatePTLoop
<1>3. e \in Pde(v)..e
  BY <1>1
<1>4. g[e] = CommitTable(g[e - 1], e)
  BY <1>2, <1>3
<1> QED
  BY <1>1, <1>2, <1>4 DEF n

(* The first page, for D3D, and the page table it needs. *)
LEMMA FirstPage ==
    LET w == ContiguousPages(Empty, 1, 1, 0, 0)
    IN  /\ CoreOK(w) /\ ~w.starved /\ w.instance = HighestPage - MaxContiguousPfn
        /\ InstanceFirst..HighestPage \subseteq FreePages(w.free)
        /\ w.available >= HighestPage - 1
        /\ w.pde[Pde(ContiguousFirst)] # None
<1> DEFINE m == Empty
           r == RemoveFree(m.free, 1, 1, 0, 0)
           x == Taken(m, r, 1)
           v == ContiguousFirst
           d == Pde(v)
           t == AllocatePT(x, v, 1)
           w == ContiguousPages(m, 1, 1, 0, 0)
<1>0. /\ HighestPage \in Nat /\ MaxContiguousPfn \in Nat /\ MaxContiguousPfn >= 1 /\ HighestPage >= 2 /\ v \in Nat
      /\ d \in Nat /\ d \in Pdes
  <2>1. HighestPage \in Nat /\ MaxContiguousPfn \in Nat /\ MaxContiguousPfn < HighestPage /\ v \in Nat
    BY Constants
  <2>2. ContiguousLast \in Nat /\ v <= ContiguousLast /\ v \in Virtual /\ v..v + (HighestPage + 1) - 1 \subseteq Virtual
        /\ ContiguousLast = v + (HighestPage + 1) - 1
    BY <2>1, VirtualIs DEF ContiguousLast
  <2>3. HighestPage + 1 \in Nat \ {0}
    BY <2>1
  <2>4. Pde(v) \in Nat /\ Pde(ContiguousLast) \in Nat /\ Pde(v) <= Pde(ContiguousLast)
    BY <2>1, <2>2, <2>3, PdeRange
  <2>5. Pde(ContiguousLast) - Pde(v) < MaxContiguousPfn
    BY VMAssumption
  <2> QED
    BY <2>1, <2>2, <2>4, <2>5 DEF Pdes
<1>1. /\ CoreOK(m) /\ ~m.starved /\ m.instance = HighestPage - MaxContiguousPfn
      /\ FreePages(m.free) = Pages /\ m.pde[d] = None
      /\ m \in VMs /\ FreeOK(m)
  BY <1>0, EmptyIs DEF CoreOK
<1> HIDE DEF m, d
<1>2. Cardinality(Pages) = HighestPage + 1 /\ m.available = HighestPage + 1
  <2>1. Cardinality(Pages) = HighestPage + 1
    BY <1>0, RunCount DEF Pages
  <2> QED
    BY <1>1, <2>1 DEF FreeOK
<1>3. r.found
  <2>1. 0..0 + 1 - 1 \subseteq FreePages(m.free) /\ 0 <= 0 /\ 0 + 1 - 1 <= 0
    BY <1>0, <1>1 DEF Pages
  <2>2. 1 \in Nat \ {0} /\ 1 \in {0, 1} /\ 0 \in Nat
    OBVIOUS
  <2> QED
    BY <1>1, <2>1, <2>2, FoundIf
<1>4. /\ x \in VMs /\ FreeOK(x) /\ r.pfn = 0 /\ FreePages(x.free) = Pages \ {0}
      /\ x.available = HighestPage /\ SameMaps(m, x) /\ SameAreas(m, x) /\ x.starved = m.starved
  <2> DEFINE n == 1
             lo == 0
  <2>1. n \in Nat \ {0} /\ n \in Nat /\ n \in {0, 1} /\ lo \in Nat
        /\ RemoveFree(m.free, n, n, lo, lo).found
    BY <1>3
  <2>2. x = Taken(m, RemoveFree(m.free, n, n, lo, lo), n) /\ r = RemoveFree(m.free, n, n, lo, lo)
    OBVIOUS
  <2>3. n = 1 /\ lo = 0
    OBVIOUS
  <2> HIDE DEF n, lo, r, x
  <2>4. LET q == RemoveFree(m.free, n, n, lo, lo)
            z == Taken(m, q, n)
            P == q.pfn..q.pfn + n - 1
        IN  /\ z \in VMs /\ FreeOK(z)
            /\ q.pfn \in Pages /\ q.pfn + n - 1 \in Pages /\ P \subseteq Pages
            /\ lo <= q.pfn /\ q.pfn + n - 1 <= lo
            /\ P \subseteq FreePages(m.free) /\ FreePages(z.free) = FreePages(m.free) \ P
            /\ z.available = m.available - n
            /\ SameFrames(m, z) /\ SameMaps(m, z) /\ SameAreas(m, z) /\ z.starved = m.starved
    BY ONLY <1>1, <2>1, AlwaysAlignable, TakeFree
  <2>5. /\ x \in VMs /\ FreeOK(x) /\ r.pfn \in Pages /\ 0 <= r.pfn /\ r.pfn + 1 - 1 <= 0
        /\ FreePages(x.free) = FreePages(m.free) \ (r.pfn..r.pfn + 1 - 1)
        /\ x.available = m.available - 1 /\ SameMaps(m, x) /\ SameAreas(m, x) /\ x.starved = m.starved
    BY <2>2, <2>3, <2>4
  <2>6. r.pfn = 0 /\ r.pfn..r.pfn + 1 - 1 = {0}
    BY <2>5, Constants DEF Pages
  <2> QED
    BY <1>0, <1>1, <1>2, <2>5, <2>6
<1> HIDE DEF r, x
<1>5. CanAllocatePT(x, v, 1)
  <2>1. v + 1 - 1 = v /\ d..d = {d}
    BY <1>0
  <2>2. MissingTables(x, v, 1) \subseteq {d}
    BY <2>1 DEF MissingTables, d
  <2>3. MissingTables(x, v, 1) = {} \/ MissingTables(x, v, 1) = {d}
    BY <2>2
  <2>4. Cardinality(MissingTables(x, v, 1)) \in {0, 1}
    BY <2>3, FS_EmptySet, FS_Singleton
  <2> QED
    BY <1>0, <1>4, <2>4 DEF CanAllocatePT
<1>6. CoreOK(w) /\ w.instance = m.instance /\ RunTaken(m, w, r, 1)
  <2> DEFINE n == 1
             lo == 0
             q == RemoveFree(m.free, n, n, lo, lo)
             z == ContiguousPages(m, n, n, lo, lo)
  <2>1. CoreOK(m) /\ ~m.starved /\ n \in Nat \ {0} /\ n \in Nat /\ lo \in Nat /\ n \in {0, 1}
        /\ m \in VMs /\ FreeOK(m)
    BY <1>1
  <2>2. q = r /\ z = w /\ n = 1
    BY DEF r
  <2>3. v + r.pfn = v
    BY <1>0, <1>4
  <2>4. q.found /\ CanAllocatePT(Taken(m, q, n), ContiguousFirst + q.pfn, n)
    BY <1>3, <1>5, <2>3 DEF r, x
  <2> HIDE DEF n, lo, q, z, w
  <2>5. CoreOK(z) /\ z.instance = m.instance /\ RunTaken(m, z, q, n)
    <3>1. LET k == ContiguousPages(m, n, n, lo, lo)
              s == RemoveFree(m.free, n, n, lo, lo)
          IN  /\ CoreOK(k) /\ k.instance = m.instance /\ KeepsAreas(m, k)
              /\ s.found /\ CanAllocatePT(Taken(m, s, n), ContiguousFirst + s.pfn, n) => RunTaken(m, k, s, n)
      BY ONLY <2>1, AlwaysAlignable, ContiguousPagesIs
    <3> QED
      BY <2>4, <3>1 DEF q, z
  <2> QED
    BY <2>2, <2>5
<1> HIDE DEF w
<1>7. /\ AfterTables(x, t, {d}, 0..0, Guards(m))
      /\ w.free = t.free /\ w.available = t.available /\ w.pde = t.pde /\ w.starved = t.starved
  <2>1. v + r.pfn = v /\ v + 1 - 1 = v /\ d..d = {d} /\ r.pfn..r.pfn + 1 - 1 = 0..0
    BY <1>0, <1>4
  <2> QED
    BY <1>6, <2>1 DEF RunTaken, x, d
<1>8. ~t.starved
  <2>1. t = CommitTable(x, d)
    BY <1>0, OneTable DEF d
  <2>2. 1 \in FreePages(x.free) /\ 1 <= MaxContiguousPfn
    BY <1>0, <1>4 DEF Pages
  <2> QED
    BY <1>0, <1>1, <1>4, <2>1, <2>2, TableFindsPage
<1> HIDE DEF t
<1>9. InstanceFirst..HighestPage \subseteq FreePages(w.free)
  <2> SUFFICES ASSUME NEW p \in InstanceFirst..HighestPage PROVE p \in FreePages(w.free)
    OBVIOUS
  <2>1. p \in Pages \ {0} /\ p \notin 0..MaxContiguousPfn
    BY <1>0 DEF Pages, InstanceFirst
  <2> QED
    BY <1>4, <1>7, <2>1 DEF AfterTables
<1>10. w.available >= HighestPage - 1
  <2>1. Cardinality({d}) = 1
    BY FS_Singleton
  <2> QED
    BY <1>4, <1>7, <2>1 DEF AfterTables
<1>11. w.pde[d] # None
  BY <1>7 DEF AfterTables
<1> QED
  BY <1>1, <1>6, <1>7, <1>8, <1>9, <1>10, <1>11 DEF w, m, d

(* The page tables of the instance memory: at most those of the contiguous region that are  *)
(* above the one of its first page.                                                      *)
LEMMA TablesAbove ==
    ASSUME NEW m, m.pde[Pde(ContiguousFirst)] # None, NEW v, v = ContiguousFirst + InstanceFirst,
           NEW n, n = HighestPage - MaxContiguousPfn
    PROVE  Cardinality(MissingTables(m, v, n)) \in 0..MaxContiguousPfn - 1
<1> DEFINE a == Pde(ContiguousFirst)
           b == Pde(ContiguousLast)
<1>1. HighestPage \in Nat /\ MaxContiguousPfn \in Nat /\ MaxContiguousPfn < HighestPage /\ ContiguousFirst \in Nat
  BY Constants
<1>2. ContiguousLast \in Nat /\ v \in Nat /\ ContiguousFirst <= v /\ v + n - 1 = ContiguousLast
  BY <1>1 DEF ContiguousLast, InstanceFirst
<1>3. /\ ContiguousFirst..ContiguousFirst + (HighestPage + 1) - 1 \subseteq Virtual /\ HighestPage + 1 \in Nat \ {0}
      /\ ContiguousLast = ContiguousFirst + (HighestPage + 1) - 1 /\ v \in ContiguousFirst..ContiguousLast
  BY <1>1, <1>2, VirtualIs DEF ContiguousLast, InstanceFirst
<1>4. /\ a \in Nat /\ b \in Nat /\ Pde(v) \in a..b
  BY <1>1, <1>3, PdeRange
<1>5. b - a < MaxContiguousPfn
  BY VMAssumption
<1>6. MissingTables(m, v, n) \subseteq a + 1..b
  <2> SUFFICES ASSUME NEW d \in Pde(v)..b, m.pde[d] = None PROVE d \in a + 1..b
    BY <1>2 DEF MissingTables
  <2>1. d # a
    OBVIOUS
  <2> HIDE DEF a, b
  <2> QED
    BY <1>4, <2>1
<1> HIDE DEF a, b
<1>7. IsFiniteSet(a + 1..b) /\ Cardinality(a + 1..b) <= MaxContiguousPfn - 1
  <2>1. CASE a + 1 <= b
    <3>1. a + 1 \in Int /\ b \in Int
      BY <1>4
    <3>2. IsFiniteSet(a + 1..b) /\ Cardinality(a + 1..b) = b - (a + 1) + 1
      BY <2>1, <3>1, RunCount
    <3> QED
      BY <1>1, <1>4, <1>5, <3>2
  <2>2. CASE ~(a + 1 <= b)
    <3>1. a + 1..b = {} /\ a = b
      BY <1>4, <2>2
    <3>2. 1 <= MaxContiguousPfn
      BY <1>1, <1>4, <1>5, <3>1
    <3>3. IsFiniteSet(a + 1..b) /\ Cardinality(a + 1..b) = 0
      BY <3>1, FS_EmptySet
    <3> QED
      BY <1>1, <3>2, <3>3
  <2> QED
    BY <2>1, <2>2
<1>8. /\ IsFiniteSet(MissingTables(m, v, n))
      /\ Cardinality(MissingTables(m, v, n)) <= Cardinality(a + 1..b)
  BY <1>6, <1>7, FS_Subset
<1>9. Cardinality(MissingTables(m, v, n)) \in Nat /\ Cardinality(a + 1..b) \in Nat
  BY <1>7, <1>8, FS_CardinalityType
<1> QED
  BY <1>1, <1>7, <1>8, <1>9

(* The initial state, after InitializeSystemAllocations. *)
LEMMA InitOK ==
    ASSUME Init
    PROVE  VMInv(vm)
<1> DEFINE m == ContiguousPages(Empty, 1, 1, 0, 0)
           n == HighestPage - MaxContiguousPfn
           lo == InstanceFirst
           hi == HighestPage
           one == 1
           r == RemoveFree(m.free, n, one, lo, hi)
           x == Taken(m, r, n)
           v == ContiguousFirst + r.pfn
           w == ContiguousPages(m, n, one, lo, hi)
<1>1. vm = w
  BY DEF Init
<1>2. /\ CoreOK(m) /\ ~m.starved /\ m.instance = n
      /\ lo..hi \subseteq FreePages(m.free)
      /\ m.available >= hi - 1
      /\ m.pde[Pde(ContiguousFirst)] # None
  BY FirstPage
<1> HIDE DEF m
<1>3. /\ hi \in Nat /\ n \in Nat \ {0} /\ lo \in Nat /\ lo + n - 1 = hi /\ n = HighestPage - MaxContiguousPfn
      /\ MaxContiguousPfn \in Nat /\ hi = HighestPage /\ MaxContiguousPfn < hi /\ one \in {0, 1} /\ one \in Nat
  BY Constants DEF InstanceFirst
<1>4. m \in VMs /\ FreeOK(m) /\ m.available \in Int
  BY <1>2 DEF CoreOK, VMs
<1> HIDE DEF n, hi, one
<1>5. Alignable(m.free, n, one, lo, hi)
  BY <1>3, <1>4, AlwaysAlignable
<1>6. r.found
  <2>1. lo..lo + n - 1 \subseteq FreePages(m.free) /\ lo <= lo /\ lo + n - 1 <= hi
    BY <1>2, <1>3
  <2> HIDE DEF lo
  <2> QED
    BY <1>3, <1>4, <2>1, FoundIf
<1>7. /\ r.pfn = lo /\ x.available = m.available - n /\ SameMaps(m, x)
  <2>1. LET q == RemoveFree(m.free, n, one, lo, hi)
            z == Taken(m, q, n)
            P == q.pfn..q.pfn + n - 1
        IN  /\ z \in VMs /\ FreeOK(z)
            /\ q.pfn \in Pages /\ q.pfn + n - 1 \in Pages /\ P \subseteq Pages
            /\ lo <= q.pfn /\ q.pfn + n - 1 <= hi
            /\ P \subseteq FreePages(m.free) /\ FreePages(z.free) = FreePages(m.free) \ P
            /\ z.available = m.available - n
            /\ SameFrames(m, z) /\ SameMaps(m, z) /\ SameAreas(m, z) /\ z.starved = m.starved
    <3>1. /\ m \in VMs /\ FreeOK(m) /\ n \in Nat \ {0} /\ one \in Nat /\ lo \in Nat /\ hi \in Nat
          /\ Alignable(m.free, n, one, lo, hi) /\ RemoveFree(m.free, n, one, lo, hi).found
      BY <1>3, <1>4, <1>5, <1>6
    <3> HIDE DEF lo, r, x
    <3> QED
      BY ONLY <3>1, TakeFree
  <2>2. /\ r.pfn \in Pages /\ lo <= r.pfn /\ r.pfn + n - 1 <= hi /\ x.available = m.available - n /\ SameMaps(m, x)
    BY <2>1
  <2> HIDE DEF r, x, lo
  <2>3. r.pfn \in Nat
    BY <2>2, Constants DEF Pages
  <2> QED
    BY <1>3, <2>2, <2>3
<1>8. CanAllocatePT(x, v, n)
  <2> HIDE DEF r
  <2>1. v = ContiguousFirst + InstanceFirst /\ x.pde[Pde(ContiguousFirst)] # None
    BY <1>2, <1>7 DEF SameMaps
  <2>2. Cardinality(MissingTables(x, v, n)) \in 0..MaxContiguousPfn - 1
    BY <1>3, <2>1, TablesAbove
  <2>3. m.available - n >= MaxContiguousPfn - 1
    BY <1>2, <1>3, <1>4
  <2> HIDE DEF x, v
  <2> QED
    BY <1>3, <1>4, <1>7, <2>2, <2>3 DEF CanAllocatePT
<1>9. CoreOK(w) /\ w.instance = m.instance /\ RunTaken(m, w, r, n)
  <2>1. /\ CoreOK(m) /\ ~m.starved /\ n \in Nat \ {0} /\ one \in Nat /\ lo \in Nat /\ hi \in Nat
        /\ Alignable(m.free, n, one, lo, hi)
    BY <1>2, <1>3, <1>5
  <2>2. LET k == ContiguousPages(m, n, one, lo, hi)
            s == RemoveFree(m.free, n, one, lo, hi)
        IN  /\ CoreOK(k) /\ k.instance = m.instance /\ KeepsAreas(m, k)
            /\ s.found /\ CanAllocatePT(Taken(m, s, n), ContiguousFirst + s.pfn, n) => RunTaken(m, k, s, n)
    <3> HIDE DEF lo
    <3> QED
      BY ONLY <2>1, ContiguousPagesIs
  <2> QED
    BY <1>6, <1>8, <2>2
<1> HIDE DEF w, r
<1>10. Vma(ContiguousFirst + InstanceFirst, n, "Allocated") \in w.vma["Contiguous"]
  BY <1>7, <1>9 DEF RunTaken, InUse
<1>11. InstanceOK(w)
  <2>1. ContiguousFirst + HighestPage + 1 - w.instance = ContiguousFirst + InstanceFirst /\ w.instance = n
    BY <1>2, <1>3, <1>9, Constants DEF InstanceFirst
  <2> QED
    BY <1>10, <2>1 DEF InstanceOK, InstanceIn
<1> QED
  BY <1>1, <1>9, <1>11 DEF VMInv

(* The free list, the counters and every entry of the tables are in range. *)
LEMMA InvTypes == VMInv(vm) => TypeOK
<1> SUFFICES ASSUME VMInv(vm) PROVE TypeOK
  OBVIOUS
<1>1. CoreOK(vm) /\ vm \in VMs /\ FreeOK(vm) /\ AreasOK(vm)
  BY DEF VMInv, CoreOK
<1>2. vm.free \in Seq([start : Pages, size : 1 .. HighestPage + 1])
  <2> DEFINE list == vm.free
  <2>1. /\ list \in Seq(Blocks)
        /\ \A j \in 1..Len(list) : list[j].start \in Pages /\ BlockEnd(list[j]) \in Pages /\ list[j].size > 0
    BY <1>1, BlocksBelow DEF Coalesced
  <2> HIDE DEF list
  <2>2. ASSUME NEW j \in 1..Len(list) PROVE list[j] \in [start : Pages, size : 1 .. HighestPage + 1]
    <3>1. list[j] \in Blocks
      BY <2>1
    <3>2. list[j].start \in 0..HighestPage /\ list[j].start + list[j].size - 1 \in 0..HighestPage /\ list[j].size > 0
      BY <2>1 DEF Pages, BlockEnd
    <3>3. list[j].size \in 1..HighestPage + 1
      BY <3>1, <3>2, Constants DEF Blocks
    <3> QED
      BY <3>1, <3>2, <3>3 DEF Blocks, Pages
  <2>3. list \in Seq([start : Pages, size : 1 .. HighestPage + 1])
    <3> DEFINE T == [start : Pages, size : 1 .. HighestPage + 1]
    <3>1. \A j \in 1..Len(list) : list[j] \in T
      BY <2>2
    <3> HIDE DEF T
    <3>2. list \in [1..Len(list) -> T] /\ Len(list) \in Nat
      BY <2>1, <3>1
    <3>3. list \in Seq(T)
      BY <3>2
    <3> QED
      BY <3>3 DEF T
  <2> QED
    BY <2>3 DEF list
<1>3. vm.available \in 0 .. HighestPage + 1
  <2>1. FreePages(vm.free) \subseteq Pages /\ vm.available = Cardinality(FreePages(vm.free))
    BY <1>1 DEF FreeOK
  <2>2. IsFiniteSet(Pages) /\ Cardinality(Pages) = HighestPage + 1
    BY RunCount, Constants DEF Pages
  <2>3. IsFiniteSet(FreePages(vm.free)) /\ Cardinality(FreePages(vm.free)) <= Cardinality(Pages)
    BY <2>1, <2>2, FS_Subset
  <2>4. Cardinality(FreePages(vm.free)) \in Nat
    BY <2>3, FS_CardinalityType
  <2> QED
    BY <2>1, <2>2, <2>3, <2>4, Constants
<1>4. vm.reserved \in Nat
  <2>1. vm.reserved = Cardinality(UsedCover(vm.vma["User"])) /\ "User" \in Regions
    BY <1>1 DEF CoreOK, Regions
  <2>2. UsedCover(vm.vma["User"]) \subseteq Virtual
    BY <1>1, <2>1, AreaInRegion DEF UsedCover, InUse
  <2>3. IsFiniteSet(UsedCover(vm.vma["User"]))
    BY <2>2, VirtualIs, FS_Subset
  <2> QED
    BY <2>1, <2>3, FS_CardinalityType
<1> QED
  BY <1>1, <1>2, <1>3, <1>4 DEF VMs, TypeOK

(* A page that is in use has one mapper. *)
LEMMA OneMapper ==
    ASSUME VMInv(vm), ~vm.starved, NEW p \in Pages
    PROVE  /\ p \in FreePages(vm.free) <=> Mappers(p) = {}
           /\ p \notin FreePages(vm.free) => \E x : Mappers(p) = {x}
           /\ p \notin FreePages(vm.free) => (vm.type[p] = "PageTable" <=> \E d \in Pdes : vm.pde[d] = p)
           /\ vm.type[p] = "Unknown" <=> p \in FreePages(vm.free)
<1>1. vm \in VMs /\ Owners(vm, {})
  BY DEF VMInv, CoreOK, SoundOK, PagesOK
<1>2. p # None
  BY Constants DEF Pages, None
<1> DEFINE V == {v \in Virtual : vm.pte[v] = p}
           D == {d \in Pdes : vm.pde[d] = p}
<1>3. Mappers(p) = ({"pte"} \X V) \cup ({"pde"} \X D)
  BY DEF Mappers
<1>4. \A v \in V : v \in Virtual /\ vm.pte[v] = p /\ vm.type[p] = TypeAt(v)
  BY <1>1 DEF Owners
<1>5. \A d \in D : d \in Pdes /\ vm.pde[d] = p /\ vm.type[p] = "PageTable"
  BY <1>1, <1>2 DEF Owners
<1>6. \A v : TypeAt(v) \notin {"Unknown", "PageTable"}
  BY DEF TypeAt
<1>7. \A v, w \in V : v = w
  BY <1>1 DEF Owners
<1>8. \A d, e \in D : d = e
  BY <1>1, <1>2 DEF Owners
<1>9. vm.type[p] = "Unknown" <=> p \in FreePages(vm.free)
  BY <1>1 DEF Owners
<1>10. vm.type[p] = "PageTable" => D # {}
  BY <1>1 DEF Owners
<1>11. vm.type[p] \notin {"Unknown", "PageTable"} => V # {}
  BY <1>1 DEF Owners
<1>12. CASE vm.type[p] = "Unknown"
  <2>1. V = {} /\ D = {}
    BY <1>4, <1>5, <1>6, <1>12
  <2> QED
    BY <1>3, <1>9, <1>12, <2>1
<1>13. CASE vm.type[p] = "PageTable"
  <2>1. V = {}
    BY <1>4, <1>6, <1>13
  <2>2. PICK d \in D : D = {d}
    BY <1>8, <1>10, <1>13
  <2> HIDE DEF V, D
  <2>3. Mappers(p) = {<<"pde", d>>}
    BY <1>3, <2>1, <2>2
  <2>4. d \in Pdes /\ vm.pde[d] = p
    BY <1>5, <2>2
  <2> QED
    BY <1>9, <1>13, <2>3, <2>4
<1>14. CASE vm.type[p] \notin {"Unknown", "PageTable"}
  <2>1. D = {}
    BY <1>5, <1>14
  <2>2. PICK v \in V : V = {v}
    BY <1>7, <1>11, <1>14
  <2>3. ~\E d \in Pdes : vm.pde[d] = p
    BY <2>1
  <2> HIDE DEF V, D
  <2>4. Mappers(p) = {<<"pte", v>>}
    BY <1>3, <2>1, <2>2
  <2> QED
    BY <1>9, <1>14, <2>3, <2>4
<1> QED
  BY <1>12, <1>13, <1>14

(* The free list and the page frames. *)
LEMMA InvFreeList == VMInv(vm) => FreeListExact
<1> SUFFICES ASSUME VMInv(vm), ~vm.starved PROVE FreeListExact
  BY DEF FreeListExact, Running
<1>1. FreeOK(vm)
  BY DEF VMInv, CoreOK
<1>2. \A p \in Pages : p \in FreePages(vm.free) <=> Mappers(p) = {}
  BY OneMapper
<1> QED
  BY <1>1, <1>2 DEF FreeListExact, FreeOK

(* The owners of the pages in use, and the statistics by usage. *)
LEMMA InvPages == VMInv(vm) => PagesOwnedOnce
<1> SUFFICES ASSUME VMInv(vm), ~vm.starved, NEW p \in Pages \ FreePages(vm.free)
             PROVE  /\ Cardinality(Mappers(p)) = 1
                    /\ vm.type[p] = "PageTable" <=> \E d \in Pdes : vm.pde[d] = p
                    /\ vm.usage[vm.type[p]] = Cardinality({q \in Pages : vm.type[q] = vm.type[p]})
  BY DEF PagesOwnedOnce, Running
<1>1. vm \in VMs /\ UsageOK(vm)
  BY DEF VMInv, CoreOK, SoundOK, PagesOK
<1>2. /\ \E x : Mappers(p) = {x}
      /\ vm.type[p] = "PageTable" <=> \E d \in Pdes : vm.pde[d] = p
      /\ vm.type[p] # "Unknown"
  BY OneMapper
<1>3. Cardinality(Mappers(p)) = 1
  BY <1>2, FS_Singleton
<1>4. vm.type[p] \in Types
  BY <1>1 DEF VMs
<1>5. vm.usage[vm.type[p]] = Cardinality(OfType(vm, vm.type[p]))
  BY <1>1, <1>2, <1>4 DEF UsageOK
<1> QED
  BY <1>2, <1>3, <1>5 DEF OfType

(* A table counts at least the ptes in use, which CountsOK says of it and of its guard pages. *)
LEMMA InvTables == VMInv(vm) => TablesOutlivePtes
<1> SUFFICES ASSUME VMInv(vm), ~vm.starved, NEW d \in Pdes
             PROVE  /\ vm.pde[d] = None => UsedPtes(vm, d) = 0
                    /\ vm.pde[d] # None => vm.used[vm.pde[d]] >= UsedPtes(vm, d)
  BY DEF TablesOutlivePtes, Running
<1> DEFINE G == Guards(vm)
           U == {v \in Virtual : Pde(v) = d /\ vm.pte[v] # None}
           C == CountedPtes(vm, G, d)
<1>1. vm \in VMs /\ CountsOK(vm, G)
  BY DEF VMInv, CoreOK, SoundOK, PagesOK
<1>2. U \subseteq C /\ C \subseteq Virtual /\ UsedPtes(vm, d) = Cardinality(U)
  BY DEF CountedPtes, UsedPtes
<1>3. IsFiniteSet(C) /\ Cardinality(U) <= Cardinality(C) /\ IsFiniteSet(U)
  BY <1>2, VirtualIs, FS_Subset
<1>4. CASE vm.pde[d] = None
  <2>1. U = {}
    BY <1>1, <1>4 DEF CountsOK
  <2> QED
    BY <1>2, <1>4, <2>1, FS_EmptySet
<1>5. CASE vm.pde[d] # None
  <2>1. Cardinality(C) <= vm.used[vm.pde[d]]
    BY <1>1, <1>5 DEF CountsOK
  <2>2. vm.used[vm.pde[d]] \in Int
    <3>1. vm.pde[d] \in Pages
      BY <1>1, <1>5 DEF VMs
    <3> QED
      BY <1>1, <3>1 DEF VMs
  <2>3. Cardinality(U) \in Nat /\ Cardinality(C) \in Nat
    BY <1>3, FS_CardinalityType
  <2> HIDE DEF U, C
  <2> QED
    BY <1>2, <1>3, <1>5, <2>1, <2>2, <2>3
<1> QED
  BY <1>4, <1>5

(* The areas. *)
LEMMA InvAreas == VMInv(vm) => AreasSound
<1> SUFFICES ASSUME VMInv(vm), NEW r \in Regions
             PROVE  /\ Region(r) = UNION {Covered(a) : a \in vm.vma[r]}
                    /\ \A a, b \in vm.vma[r] : a # b =>
                           /\ VmaEnd(a) < b.base \/ VmaEnd(b) < a.base
                           /\ VmaEnd(a) + 1 = b.base => "Free" \notin {a.type} \cap {b.type}
                    /\ \A a \in vm.vma[r] : a.type = "Free" =>
                           /\ \A v \in Covered(a) : vm.pte[v] = None
                           /\ r = "System" => (VmaEnd(a) + 1) % Granularity = 0
  BY DEF AreasSound
<1>1. TiledSet(vm.vma[r], Region(r)) /\ \A a \in vm.vma[r] : a.type = "Free" => FreeArea(vm, r, a)
  BY DEF VMInv, CoreOK, AreasOK
<1> QED
  BY <1>1 DEF TiledSet, FreeArea

(* The reserved pages are those of the areas in use of the user region. *)
LEMMA InvReserved == VMInv(vm) => ReservedExact
BY DEF VMInv, CoreOK, ReservedExact, UsedCover, InUse

(* QuerySize finds the one end there is. *)
LEMMA QueryOne ==
    ASSUME NEW v \in Nat, NEW e \in Nat, v <= e, v..e \subseteq Virtual,
           \A u \in v..e : u \in vm.ended <=> u = e
    PROVE  QuerySize(v) = e - v + 1
<1> DEFINE k == e - v + 1
           Is(n) == v + n - 1 \in vm.ended /\ \A i \in 0..n - 2 : v + i \notin vm.ended
<1>1. k \in Nat \ {0} /\ v + k - 1 = e
  OBVIOUS
<1>2. k <= Cardinality(Virtual) /\ Cardinality(Virtual) \in Nat
  <2>1. IsFiniteSet(v..e) /\ Cardinality(v..e) = k
    BY RunCount
  <2>2. IsFiniteSet(Virtual)
    BY VirtualIs
  <2>3. Cardinality(v..e) <= Cardinality(Virtual)
    BY <2>2, FS_Subset
  <2> QED
    BY <2>1, <2>2, <2>3, FS_CardinalityType
<1> HIDE DEF k
<1>3. k \in 1..Cardinality(Virtual)
  BY <1>1, <1>2
<1>4. Is(k)
  <2>1. v + k - 1 \in vm.ended
    BY <1>1
  <2>2. ASSUME NEW i \in 0..k - 2 PROVE v + i \notin vm.ended
    <3>1. v + i \in v..e /\ v + i # e
      BY <1>1
    <3> QED
      BY <3>1
  <2> QED
    BY <2>1, <2>2
<1>5. ASSUME NEW n \in 1..Cardinality(Virtual), Is(n) PROVE n = k
  <2>1. n \in Nat \ {0}
    BY <1>2
  <2>2. ASSUME n < k PROVE FALSE
    <3>1. v + n - 1 \in v..e /\ v + n - 1 # e
      BY <1>1, <2>1, <2>2
    <3> QED
      BY <1>5, <3>1
  <2>3. ASSUME k < n PROVE FALSE
    <3>1. k - 1 \in 0..n - 2 /\ v + (k - 1) = e
      BY <1>1, <2>1, <2>3
    <3>2. e \in vm.ended
      OBVIOUS
    <3> QED
      BY <1>5, <3>1, <3>2
  <2> QED
    BY <1>1, <2>1, <2>2, <2>3
<1>6. QuerySize(v) = CHOOSE n \in 1..Cardinality(Virtual) : Is(n)
  BY DEF QuerySize
<1> HIDE DEF Is
<1>7. QuerySize(v) = k
  BY <1>3, <1>4, <1>5, <1>6
<1> QED
  BY <1>7 DEF k

(* The size of every allocation. *)
LEMMA InvSizes == VMInv(vm) => QuerySizeRight
<1> SUFFICES ASSUME VMInv(vm), ~vm.starved, NEW a \in vm.vma["System"] \cup vm.vma["Contiguous"],
                    a.type = "Allocated"
             PROVE  IF Guarded(vm, a) THEN QuerySize(a.base + 1) = a.size - 1 ELSE QuerySize(a.base) = a.size
  BY DEF QuerySizeRight, Running
<1>1. PICK r \in {"System", "Contiguous"} : a \in vm.vma[r]
  OBVIOUS
<1>2. CoreOK(vm) /\ r \in Regions /\ r # "User" /\ a.type # "Free"
  BY DEF VMInv, Regions
<1>3. /\ Covered(a) \subseteq Virtual /\ UsedArea(vm, r, a)
      /\ a.base \in Nat /\ a.size \in Nat \ {0} /\ VmaEnd(a) \in Nat /\ a.base <= VmaEnd(a)
      /\ VmaEnd(a) = a.base + a.size - 1 /\ Covered(a) = a.base..VmaEnd(a)
  BY <1>1, <1>2, UsedAreaIs
<1> DEFINE e == VmaEnd(a)
<1>4. \A u \in a.base..e : u \in vm.ended <=> u = e
  BY <1>2, <1>3 DEF UsedArea
<1> HIDE DEF e
<1>5. e = a.base + a.size - 1 /\ a.base..e \subseteq Virtual /\ e \in Nat /\ a.base <= e
  BY <1>3 DEF e
<1>6. CASE Guarded(vm, a)
  <2>1. a.base < e
    <3>1. vm.pte[a.base] = None
      BY <1>6 DEF Guarded
    <3>2. None \notin Pages
      BY Constants DEF None, Pages
    <3>3. CASE r = "System"
      BY <1>3, <3>1, <3>2, <3>3 DEF UsedArea, e
    <3>4. CASE r = "Contiguous"
      <4>1. a.base \in Covered(a)
        BY <1>3
      <4> QED
        BY <1>3, <3>1, <3>2, <3>4, <4>1 DEF UsedArea
    <3> QED
      BY <3>3, <3>4
  <2>2. /\ a.base + 1 \in Nat /\ a.base + 1 <= e /\ a.base + 1..e \subseteq Virtual
        /\ \A u \in a.base + 1..e : u \in vm.ended <=> u = e
    <3>1. a.base + 1..e \subseteq a.base..e
      BY <1>3, <1>5
    <3> QED
      BY <1>3, <1>4, <1>5, <2>1, <3>1
  <2>3. QuerySize(a.base + 1) = e - (a.base + 1) + 1
    BY <1>5, <2>2, QueryOne
  <2> QED
    BY <1>3, <1>5, <1>6, <2>3
<1>7. CASE ~Guarded(vm, a)
  <2>1. QuerySize(a.base) = e - a.base + 1
    BY <1>3, <1>4, <1>5, QueryOne
  <2> QED
    BY <1>3, <1>5, <1>7, <2>1
<1> QED
  BY <1>6, <1>7

(* Every request. *)
LEMMA InvRequests == VMInv(vm) => RemoveFreeExact
<1> SUFFICES ASSUME VMInv(vm) PROVE RemoveFreeExact
  OBVIOUS
<1>1. vm \in VMs /\ FreeOK(vm)
  BY DEF VMInv, CoreOK
<1>2. vm.free \in Seq(Blocks)
  BY <1>1 DEF VMs
<1> QED
  BY <1>1, <1>2, RequestsExact DEF FreeOK

(* The manager is as VMInv says until a call breaks it. *)
VMSound == broken \/ VMInv(vm)

(* Every step that does not break the manager keeps the invariant, where no page table      *)
(* counts more guard pages than PtesUsed has room for, and leaves a caller without a page *)
(* only after making a page table.                                                      *)
LEMMA VMStep ==
    ASSUME ~ManyStacks, VMSound, Next, ~broken'
    PROVE  VMInv(vm') /\ Explained(vm, vm')
<1>0. VMInv(vm)
  BY DEF VMSound, Next, AllocateContiguousMemory, DeallocateContiguousMemory, ClaimGpuMemory,
         AllocateSystemMemory, DeallocateSystemMemory, MapDeviceMemory, UnmapDeviceMemory,
         ReserveVirtualMemory, CommitVirtualMemory, XbFreeVirtualMemory, IsMappable, Running
<1>1. CASE AllocateContiguousMemory
  BY <1>0, <1>1, AllocateContiguousStep
<1>2. CASE DeallocateContiguousMemory
  BY <1>0, <1>2, DeallocateContiguousStep
<1>3. CASE ClaimGpuMemory
  BY <1>0, <1>3, ClaimGpuStep
<1>4. CASE AllocateSystemMemory
  BY <1>0, <1>4, AllocateSystemStep
<1>5. CASE DeallocateSystemMemory
  BY <1>0, <1>5, DeallocateSystemStep
<1>6. CASE MapDeviceMemory
  BY <1>0, <1>6, MapDeviceStep
<1>7. CASE UnmapDeviceMemory
  BY <1>0, <1>7, UnmapDeviceStep
<1>8. CASE ReserveVirtualMemory
  BY <1>0, <1>8, ReserveStep
<1>9. CASE CommitVirtualMemory
  BY <1>0, <1>9, CommitVirtualStep
<1>10. CASE XbFreeVirtualMemory
  BY <1>0, <1>10, XbFreeStep
<1> QED
  BY <1>1, <1>2, <1>3, <1>4, <1>5, <1>6, <1>7, <1>8, <1>9, <1>10 DEF Next

(* The inductive invariant of the memory manager: it holds until a call is carried out on    *)
(* pages that do not exist or belong to another, as long as no page table counts more     *)
(* guard pages than PtesUsed has room for.                                              *)
THEOREM VMInductive == ASSUME ~ManyStacks PROVE Spec => []VMSound
<1>1. Init => VMSound
  BY InitOK DEF Init, VMSound
<1>2. VMSound /\ [Next]_vars => VMSound'
  <2>1. CASE Next
    BY <2>1, VMStep DEF VMSound
  <2>2. CASE UNCHANGED vars
    BY <2>2 DEF vars, VMSound
  <2> QED
    BY <2>1, <2>2
<1> QED
  BY <1>1, <1>2, PTL DEF Spec

(* Until a call breaks the manager, its counters and tables stay in range, through any       *)
(* sequence of calls and failures.                                                      *)
THEOREM VMTypesOK == ASSUME ~ManyStacks PROVE Spec => []TypeOK
<1>1. VMSound => TypeOK
  BY InvTypes DEF VMSound, TypeOK
<1> QED
  BY <1>1, VMInductive, PTL

(* Until then the free list holds exactly the pages that nobody has, in order and coalesced. *)
THEOREM VMFreeListExact == ASSUME ~ManyStacks PROVE Spec => []FreeListExact
<1>1. VMSound => FreeListExact
  BY InvFreeList DEF VMSound, FreeListExact, Running
<1> QED
  BY <1>1, VMInductive, PTL

(* Until then every page in use has one owner: no two ptes, page tables or areas name the   *)
(* same page.                                                                           *)
THEOREM VMPagesOwnedOnce == ASSUME ~ManyStacks PROVE Spec => []PagesOwnedOnce
<1>1. VMSound => PagesOwnedOnce
  BY InvPages DEF VMSound, PagesOwnedOnce, Running
<1> QED
  BY <1>1, VMInductive, PTL

(* Until then, and as long as the guard pages a page table has counted are fewer than        *)
(* MaxLeaks when one more is made, 1023 in the code, no page table is freed while a pte of *)
(* it is in use.                                                                        *)
THEOREM VMTablesOutlivePtes == ASSUME ~ManyStacks PROVE Spec => []TablesOutlivePtes
<1>1. VMSound => TablesOutlivePtes
  BY InvTables DEF VMSound, TablesOutlivePtes, Running
<1> QED
  BY <1>1, VMInductive, PTL

(* Until then the areas of a region tile it, and what an area says of its ptes holds. *)
THEOREM VMAreasSound == ASSUME ~ManyStacks PROVE Spec => []AreasSound
<1>1. VMSound => AreasSound
  BY InvAreas DEF VMSound, AreasSound
<1> QED
  BY <1>1, VMInductive, PTL

(* Until then a query finds the size that was allocated. *)
THEOREM VMQuerySizeRight == ASSUME ~ManyStacks PROVE Spec => []QuerySizeRight
<1>1. VMSound => QuerySizeRight
  BY InvSizes DEF VMSound, QuerySizeRight, Running
<1> QED
  BY <1>1, VMInductive, PTL

(* Until then the reserved bytes are those of the reserved areas. *)
THEOREM VMReservedExact == ASSUME ~ManyStacks PROVE Spec => []ReservedExact
<1>1. VMSound => ReservedExact
  BY InvReserved DEF VMSound, ReservedExact
<1> QED
  BY <1>1, VMInductive, PTL

(* Until then any request of the free list gets pages it may have if it is alignable, pages   *)
(* past the end of memory if it is not, and none only when there is no room.              *)
THEOREM VMRemoveFreeExact == ASSUME ~ManyStacks PROVE Spec => []RemoveFreeExact
<1>1. VMSound => RemoveFreeExact
  BY InvRequests DEF VMSound, RemoveFreeExact
<1> QED
  BY <1>1, VMInductive, PTL

(* A caller that does not look at RemoveFree's result is left without a page only by page    *)
(* tables made in the same call.                                                        *)
THEOREM VMCallersHavePages == ASSUME ~ManyStacks PROVE Spec => CallersHavePages
<1>1. VMSound /\ [Next]_vars =>
        [vm'.starved /\ ~broken' => \E d \in Pdes : vm.pde[d] = None /\ vm'.pde[d] # None]_vars
  BY VMStep DEF Explained
<1> QED
  BY <1>1, VMInductive, PTL DEF Spec, CallersHavePages
=============================================================================
