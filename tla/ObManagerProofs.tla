-------------------------- MODULE ObManagerProofs --------------------------
(***************************************************************************)
(* Theorems about ObManager: the inductive invariant behind its safety     *)
(* properties, and that it implements ObLifetime.                          *)
(***************************************************************************)
EXTENDS ObManager, ListLemmas

(* Position i of list s: a piece of a call that uses an object without a reference of its   *)
(* own is followed by the one that drops the caller's.                                      *)
ShapeAt(s, i) ==
    /\ s[i].op \in {"insert", "temporary", "reference"} =>
          i + 1 \in DOMAIN s /\ s[i + 1] = Item("deref", s[i].arg)
    /\ s[i].op = "register" =>
          i = 1 /\ Len(s) = 3 /\ s[2] = Item("deref", Dev) /\ s[3] = Item("handle", s[i].arg)
    /\ s[i].op = "parse" => Len(s) = 1 /\ s[i].arg = Dev
    /\ s[i].op = "open" => Len(s) = 1
    /\ s[i].op \in {"insert", "register", "open", "free", "unregister"} => s[i].arg \in Slots

ShapeOK == \A t \in Threads : \A i \in DOMAIN work[t] : ShapeAt(work[t], i)

(* An object that is being created has one reference, that of the call that creates it. *)
IsNew(item) == item.op \in {"insert", "register", "open"}

(* Where the reference of the item at i is: here, or in an item to come. *)
HolderOf(s, i) == IF s[i].op = "insert" THEN i + 1 ELSE IF s[i].op = "open" THEN i ELSE 3

NewOK ==
    \A t \in Threads : \A i \in DOMAIN work[t] :
        IsNew(work[t][i]) => /\ hdr[work[t][i].arg].PointerCount = 1
                             /\ ~hdr[work[t][i].arg].Registered

(* Items of these kinds with the same argument are the same item. *)
Once(ops) ==
    \A t, u \in Threads : \A i \in DOMAIN work[t], j \in DOMAIN work[u] :
        /\ work[t][i].op \in ops
        /\ work[u][j].op \in ops
        /\ work[t][i].arg = work[u][j].arg
        => t = u /\ i = j

(* A handle that is about to be closed is open, and is closed once. *)
Closes == {"close", "closeref"}

CloseOK ==
    /\ \A t \in Threads : \A i \in DOMAIN work[t] :
          work[t][i].op \in Closes => table[work[t][i].arg] # Null
    /\ Once(Closes)

(* An object that is about to be freed has no references left, and is freed once. *)
FreeOK ==
    /\ \A t \in Threads : \A i \in DOMAIN work[t] :
          work[t][i].op = "free" =>
              /\ hdr[work[t][i].arg].PointerCount = 0
              /\ hdr[work[t][i].arg].LinkTarget = Null
              /\ hdr[work[t][i].arg].Type # "free"
    /\ Once({"free"})

(* Headers: free memory is blank, a link has a target as long as it is referenced, and an   *)
(* object in a directory has a name and the flag that makes it detach.                      *)
HeaderOK(header) ==
    /\ header.Type = "free" => header = Unused
    /\ header.LinkTarget # Null => header.Type = "SymbolicLink"
    /\ header.Type = "SymbolicLink" /\ header.PointerCount > 0 => header.LinkTarget # Null
    /\ header.Directory # Null => "ATTACHED" \in header.Flags

HeadersOK == \A o \in Objects : HeaderOK(hdr[o])

(* A host handle belongs to the object at its address, or is about to be removed. *)
NativeOK ==
    \A o \in native : hdr[o].Registered \/ \E u \in Threads : Item("unregister", o) \in Range(work[u])

IInv ==
    /\ TypeOK
    /\ ShapeOK
    /\ NewOK
    /\ CloseOK
    /\ FreeOK
    /\ HeadersOK
    /\ NativeOK
    /\ RefCountExact
    /\ HandleTableSound
    /\ NamesSound
    /\ DriveMapFresh

-----------------------------------------------------------------------------
(* Work lists *)

Drop(s) == IF s = <<>> THEN <<>> ELSE Tail(s)

(* Thread t replaces the first item of its list by others, or begins a call. *)
Replaced(t, items) ==
    /\ items \in Seq(Items)
    /\ work' = [work EXCEPT ![t] = items \o Drop(work[t])]

(* A step inside a call. *)
LEMMA ThenReplaces ==
    ASSUME NEW t \in Threads, NEW items \in Seq(Items), TypeOK,
           work[t] # <<>>, Then(t, items)
    PROVE  Replaced(t, items)
BY DEF Then, Replaced, Drop, TypeOK

(* The first step of a call. *)
LEMMA CallReplaces ==
    ASSUME NEW t \in Threads, NEW items \in Seq(Items), TypeOK, NEW name, Call(t, name, items)
    PROVE  Replaced(t, items) /\ work[t] = <<>>
<1>1. items \o <<>> = items
  BY ConcatEmptySeq
<1> QED
  BY <1>1 DEF Call, Idle, Replaced, Drop, TypeOK

(* Where the items of the new lists come from. *)
LEMMA Positions ==
    ASSUME NEW t \in Threads, NEW items, TypeOK, Replaced(t, items)
    PROVE  /\ work' \in [Threads -> Seq(Items)]
           /\ \A u \in Threads : u # t => work'[u] = work[u]
           /\ Len(work'[t]) = Len(items) + Len(Drop(work[t]))
           /\ Drop(work[t]) \in Seq(Items)
           /\ \A i \in DOMAIN work'[t] :
                 \/ i \in 1..Len(items) /\ work'[t][i] = items[i]
                 \/ /\ i > Len(items)
                    /\ i - Len(items) + 1 \in 2..Len(work[t])
                    /\ i - Len(items) + 1 \in DOMAIN work[t]
                    /\ work'[t][i] = work[t][i - Len(items) + 1]
           /\ \A i \in 1..Len(items) : i \in DOMAIN work'[t] /\ work'[t][i] = items[i]
           /\ \A i \in 2..Len(work[t]) :
                 /\ Len(items) + i - 1 \in DOMAIN work'[t]
                 /\ work'[t][Len(items) + i - 1] = work[t][i]
<1> DEFINE s == work[t]
           r == Drop(s)
           w == items \o r
<1>1. s \in Seq(Items) /\ items \in Seq(Items) /\ work \in [Threads -> Seq(Items)]
  BY DEF TypeOK, Replaced
<1>2. /\ r \in Seq(Items)
      /\ Len(r) \in Nat
      /\ s = <<>> => Len(r) = 0 /\ Len(s) = 0
      /\ s # <<>> => Len(r) = Len(s) - 1 /\ \A i \in 1..Len(r) : r[i] = s[i + 1]
  BY <1>1, HeadTailProperties, EmptySeq DEF Drop
<1> HIDE DEF r
<1>3. /\ w \in Seq(Items)
      /\ Len(items) \in Nat
      /\ Len(w) = Len(items) + Len(r)
      /\ \A i \in 1..Len(items) + Len(r) :
            w[i] = IF i <= Len(items) THEN items[i] ELSE r[i - Len(items)]
  BY <1>1, <1>2, ConcatProperties
<1>4. work'[t] = w /\ \A u \in Threads : u # t => work'[u] = work[u]
  BY <1>1 DEF Replaced, r
<1> HIDE DEF w
<1>5. work' \in [Threads -> Seq(Items)]
  <2>1. work' = [work EXCEPT ![t] = w]
    BY DEF Replaced, w, r
  <2> QED
    BY <1>1, <1>3, <2>1
<1>6. DOMAIN w = 1..Len(items) + Len(r) /\ DOMAIN s = 1..Len(s) /\ Len(s) \in Nat
  BY <1>1, <1>3
<1>7. ASSUME NEW i \in DOMAIN w
      PROVE  \/ i \in 1..Len(items) /\ w[i] = items[i]
             \/ /\ i > Len(items)
                /\ i - Len(items) + 1 \in 2..Len(s)
                /\ i - Len(items) + 1 \in DOMAIN s
                /\ w[i] = s[i - Len(items) + 1]
  <2>1. CASE i <= Len(items)
    BY <1>3, <1>6, <2>1
  <2>2. CASE i > Len(items)
    <3>1. i - Len(items) \in 1..Len(r) /\ w[i] = r[i - Len(items)]
      BY <1>2, <1>3, <1>6, <2>2
    <3>2. s # <<>>
      BY <1>2, <3>1
    <3> QED
      BY <1>2, <1>3, <1>6, <2>2, <3>1, <3>2, SMTT(30)
  <2> QED
    BY <1>3, <1>6, <2>1, <2>2
<1>8. \A i \in 1..Len(items) : i \in DOMAIN w /\ w[i] = items[i]
  BY <1>2, <1>3, <1>6
<1>9. ASSUME NEW i \in 2..Len(s)
      PROVE  Len(items) + i - 1 \in DOMAIN w /\ w[Len(items) + i - 1] = s[i]
  <2>1. s # <<>> /\ i - 1 \in 1..Len(r)
    BY <1>2, <1>6
  <2>2. w[Len(items) + i - 1] = r[i - 1] /\ r[i - 1] = s[i]
    BY <1>2, <1>3, <1>6, <2>1, SMTT(30)
  <2> QED
    BY <1>2, <1>3, <1>6, <2>1, <2>2
<1> QED
  BY <1>2, <1>3, <1>4, <1>5, <1>7, <1>8, <1>9 DEF r

-----------------------------------------------------------------------------
(* References *)

HoldSet(x) == {it \in Items : Holds(it, x)}

HandlesOf(x) == {h \in Handles : table[h] = x}

EntriesOf(x) == {c \in Objects : hdr[c].Directory = x}

LinksTo(x) == {c \in Objects : hdr[c].LinkTarget = x}

(* The parts of Refs. *)
FromHandles(x) == Cardinality(HandlesOf(x))

FromName(x) == Count(hdr[x].Directory # Null)

FromEntries(x) == Cardinality(EntriesOf(x))

FromLinks(x) == Cardinality(LinksTo(x))

FromSystem(x) == Count(x \in {Dos, Dev})

FromCalls(x) == Cardinality(WorkRefs(x))

FromThreads(x) == Cardinality(HeldRefs(x))

(* There are finitely many objects and handles. *)
LEMMA Finite == IsFiniteSet(Objects) /\ IsFiniteSet(Handles) /\ IsFiniteSet(Threads)
<1>1. IsFiniteSet(Slots \cup {Dos}) /\ Objects = (Slots \cup {Dos}) \cup {Dev}
  BY ObAssumption, FS_AddElement DEF Objects
<1>2. IsFiniteSet(Objects)
  BY <1>1, FS_AddElement
<1>3. HandlesPerTable * MaxTables - 1 \in Int
  BY ObAssumption
<1>4. IsFiniteSet(Handles)
  BY <1>3, FS_Interval DEF Handles
<1> QED
  BY <1>2, <1>4, ObAssumption

(* The sets whose sizes are counted, as tagged positions. *)
LEMMA WorkRefsTagged ==
    ASSUME work \in [Threads -> Seq(Items)], NEW x
    PROVE  WorkRefs(x) = Tagged(Threads, [u \in Threads |-> Occurs(work[u], HoldSet(x))])
<1>1. \A u \in Threads :
        {i \in DOMAIN work[u] : Holds(work[u][i], x)} = Occurs(work[u], HoldSet(x))
  BY DEF Occurs, HoldSet
<1> QED
  BY <1>1 DEF WorkRefs, Tagged

(* The same for pointers held. *)
LEMMA HeldRefsTagged ==
    ASSUME held \in [Threads -> Seq(Objects)], NEW x
    PROVE  HeldRefs(x) = Tagged(Threads, [u \in Threads |-> Occurs(held[u], {x})])
<1> DEFINE F == [u \in Threads |-> Occurs(held[u], {x})]
           A(u) == {i \in DOMAIN held[u] : held[u][i] = x}
<1>1. \A u \in Threads : A(u) = F[u]
  BY DEF Occurs
<1>2. HeldRefs(x) = UNION {{u} \X A(u) : u \in Threads}
  BY DEF HeldRefs
<1> HIDE DEF A, F
<1>3. UNION {{u} \X A(u) : u \in Threads} = UNION {{u} \X F[u] : u \in Threads}
  BY <1>1
<1> QED
  BY <1>2, <1>3 DEF Tagged, F

(* The same in the next state. *)
LEMMA WorkRefsTaggedNext ==
    ASSUME work' \in [Threads -> Seq(Items)], NEW x
    PROVE  WorkRefs(x)' = Tagged(Threads, [u \in Threads |-> Occurs(work'[u], HoldSet(x))])
<1>1. \A u \in Threads :
        {i \in DOMAIN work'[u] : Holds(work'[u][i], x)} = Occurs(work'[u], HoldSet(x))
  BY DEF Occurs, HoldSet
<1> QED
  BY <1>1 DEF WorkRefs, Tagged

(* The same in the next state. *)
LEMMA HeldRefsTaggedNext ==
    ASSUME held' \in [Threads -> Seq(Objects)], NEW x
    PROVE  HeldRefs(x)' = Tagged(Threads, [u \in Threads |-> Occurs(held'[u], {x})])
<1> DEFINE F == [u \in Threads |-> Occurs(held'[u], {x})]
           A(u) == {i \in DOMAIN held'[u] : held'[u][i] = x}
<1>1. \A u \in Threads : A(u) = F[u]
  BY DEF Occurs
<1>2. HeldRefs(x)' = UNION {{u} \X A(u) : u \in Threads}
  BY DEF HeldRefs
<1> HIDE DEF A, F
<1>3. UNION {{u} \X A(u) : u \in Threads} = UNION {{u} \X F[u] : u \in Threads}
  BY <1>1
<1> QED
  BY <1>2, <1>3 DEF Tagged, F

(* The first item of t's list holds a reference to x. *)
HeadHolds(t, x) == work[t] # <<>> /\ Holds(Head(work[t]), x)

(* How the references of running calls change when t replaces its first item. *)
LEMMA WorkCount ==
    ASSUME NEW t \in Threads, NEW items, TypeOK, Replaced(t, items), NEW x
    PROVE  /\ FromCalls(x) \in Nat
           /\ FromCalls(x)' \in Nat
           /\ FromCalls(x)' + One(HeadHolds(t, x))
                = FromCalls(x) + Cardinality(Occurs(items, HoldSet(x)))
<1> USE DEF FromCalls
<1> DEFINE S == HoldSet(x)
           F == [u \in Threads |-> Occurs(work[u], S)]
           G == [u \in Threads |-> Occurs(work'[u], S)]
           s == work[t]
<1>1. work \in [Threads -> Seq(Items)] /\ work' \in [Threads -> Seq(Items)]
      /\ \A u \in Threads : u # t => work'[u] = work[u]
  BY Positions DEF TypeOK
<1>2. items \in Seq(Items) /\ Drop(s) \in Seq(Items) /\ work'[t] = items \o Drop(s)
  BY <1>1, Positions DEF Replaced, TypeOK
<1>3. \A u \in Threads : IsFiniteSet(F[u]) /\ IsFiniteSet(G[u])
  BY <1>1, OccursFinite
<1>4. \A u \in Threads \ {t} : G[u] = F[u]
  BY <1>1
<1>5. WorkRefs(x) = Tagged(Threads, F) /\ WorkRefs(x)' = Tagged(Threads, G)
  BY <1>1, WorkRefsTagged, WorkRefsTaggedNext
<1>6. F[t] = Occurs(s, S) /\ G[t] = Occurs(items \o Drop(s), S)
  BY <1>2
<1> HIDE DEF F, G
<1>7. /\ Cardinality(Tagged(Threads, G)) + Cardinality(F[t])
           = Cardinality(Tagged(Threads, F)) + Cardinality(G[t])
      /\ Cardinality(Tagged(Threads, F)) \in Nat
      /\ Cardinality(Tagged(Threads, G)) \in Nat
  <2>1. Cardinality(Tagged(Threads, F)) \in Nat /\ Cardinality(Tagged(Threads, G)) \in Nat
    BY <1>3, Finite, TaggedFinite
  <2> QED
    BY <1>3, <1>4, <2>1, Finite, TaggedChange
<1>8. Cardinality(G[t]) = Cardinality(Occurs(items, S)) + Cardinality(Occurs(Drop(s), S))
  BY <1>2, <1>6, OccursConcat
<1>9. Cardinality(F[t]) = One(HeadHolds(t, x)) + Cardinality(Occurs(Drop(s), S))
  <2>1. s \in Seq(Items)
    BY <1>1
  <2>2. CASE s = <<>>
    <3>1. Cardinality(Occurs(<<>>, S)) = 0
      BY OccursOne
    <3> QED
      BY <1>6, <2>2, <3>1 DEF Drop, HeadHolds, One
  <2>3. CASE s # <<>>
    <3>1. Cardinality(Occurs(s, S)) = One(Head(s) \in S) + Cardinality(Occurs(Tail(s), S))
      BY <2>1, <2>3, OccursTail
    <3>2. Head(s) \in Items
      BY <2>1, <2>3, HeadTailProperties
    <3>3. Head(s) \in S <=> HeadHolds(t, x)
      BY <2>3, <3>2 DEF HeadHolds, HoldSet
    <3> QED
      BY <1>6, <2>3, <3>1, <3>3 DEF Drop, One
  <2> QED
    BY <2>2, <2>3
<1>10. Cardinality(Occurs(items, S)) \in Nat /\ Cardinality(Occurs(Drop(s), S)) \in Nat
  BY <1>2, OccursFinite
<1>11. One(HeadHolds(t, x)) \in Nat
  BY DEF One
<1> QED
  BY <1>5, <1>7, <1>8, <1>9, <1>10, <1>11

Keeps(t, o) == held' = [held EXCEPT ![t] = Append(@, o)]

(* A pointer is kept for later. *)
LEMMA HeldAppend ==
    ASSUME NEW t \in Threads, NEW o \in Objects, TypeOK, Keeps(t, o), NEW x \in Objects
    PROVE  /\ held' \in [Threads -> Seq(Objects)]
           /\ FromThreads(x) \in Nat
           /\ FromThreads(x)' = FromThreads(x) + One(o = x)
<1> USE DEF FromThreads
<1> DEFINE F == [u \in Threads |-> Occurs(held[u], {x})]
           G == [u \in Threads |-> Occurs(held'[u], {x})]
           s == held[t]
<1>1. held \in [Threads -> Seq(Objects)] /\ held' \in [Threads -> Seq(Objects)]
      /\ \A u \in Threads : u # t => held'[u] = held[u]
  BY DEF TypeOK, Keeps
<1>2. held'[t] = s \o <<o>> /\ s \in Seq(Objects) /\ <<o>> \in Seq(Objects)
  BY <1>1, AppendIsConcat DEF Keeps
<1>3. \A u \in Threads : IsFiniteSet(F[u]) /\ IsFiniteSet(G[u])
  BY <1>1, OccursFinite
<1>4. \A u \in Threads \ {t} : G[u] = F[u]
  BY <1>1
<1>5. HeldRefs(x) = Tagged(Threads, F) /\ HeldRefs(x)' = Tagged(Threads, G)
  BY <1>1, HeldRefsTagged, HeldRefsTaggedNext
<1>6. F[t] = Occurs(s, {x}) /\ G[t] = Occurs(s \o <<o>>, {x})
  BY <1>2
<1> HIDE DEF F, G
<1>7. Cardinality(Tagged(Threads, F)) \in Nat /\ Cardinality(Tagged(Threads, G)) \in Nat
  BY <1>3, Finite, TaggedFinite
<1>8. Cardinality(Tagged(Threads, G)) + Cardinality(F[t])
        = Cardinality(Tagged(Threads, F)) + Cardinality(G[t])
  BY <1>3, <1>4, Finite, TaggedChange
<1>9. Cardinality(G[t]) = Cardinality(F[t]) + Cardinality(Occurs(<<o>>, {x}))
  <2> DEFINE e == <<o>>
  <2>1. e \in Seq(Objects) /\ G[t] = Occurs(s \o e, {x})
    BY <1>2, <1>6
  <2> HIDE DEF e
  <2>2. Cardinality(Occurs(s \o e, {x})) = Cardinality(Occurs(s, {x})) + Cardinality(Occurs(e, {x}))
    BY <1>2, <2>1, OccursConcat
  <2> QED
    BY <1>6, <2>1, <2>2 DEF e
<1>10. Cardinality(Occurs(<<o>>, {x})) = One(o \in {x})
  BY OccursOne
<1>11. Cardinality(F[t]) \in Nat
  BY <1>2, <1>6, OccursFinite
<1> QED
  BY <1>1, <1>5, <1>7, <1>8, <1>9, <1>10, <1>11 DEF One

Releases(t) == held' = [held EXCEPT ![t] = Tail(@)]

(* A pointer that was kept is dropped. *)
LEMMA HeldTail ==
    ASSUME NEW t \in Threads, TypeOK, held[t] # <<>>, Releases(t), NEW x \in Objects
    PROVE  /\ held' \in [Threads -> Seq(Objects)]
           /\ Head(held[t]) \in Objects
           /\ FromThreads(x)' \in Nat
           /\ FromThreads(x) = FromThreads(x)' + One(Head(held[t]) = x)
<1> USE DEF FromThreads
<1> DEFINE F == [u \in Threads |-> Occurs(held[u], {x})]
           G == [u \in Threads |-> Occurs(held'[u], {x})]
           s == held[t]
<1>1. held \in [Threads -> Seq(Objects)] /\ s \in Seq(Objects)
  BY DEF TypeOK
<1>2. Tail(s) \in Seq(Objects) /\ Head(s) \in Objects
  BY <1>1, HeadTailProperties
<1>3. /\ held' \in [Threads -> Seq(Objects)]
      /\ held'[t] = Tail(s)
      /\ \A u \in Threads : u # t => held'[u] = held[u]
  BY <1>1, <1>2 DEF Releases
<1>4. \A u \in Threads : IsFiniteSet(F[u]) /\ IsFiniteSet(G[u])
  BY <1>1, <1>3, OccursFinite
<1>5. \A u \in Threads \ {t} : G[u] = F[u]
  BY <1>3
<1>6. HeldRefs(x) = Tagged(Threads, F) /\ HeldRefs(x)' = Tagged(Threads, G)
  BY <1>1, <1>3, HeldRefsTagged, HeldRefsTaggedNext
<1>7. F[t] = Occurs(s, {x}) /\ G[t] = Occurs(Tail(s), {x})
  BY <1>3
<1> HIDE DEF F, G
<1>8. Cardinality(Tagged(Threads, F)) \in Nat /\ Cardinality(Tagged(Threads, G)) \in Nat
  BY <1>4, Finite, TaggedFinite
<1>9. Cardinality(Tagged(Threads, G)) + Cardinality(F[t])
        = Cardinality(Tagged(Threads, F)) + Cardinality(G[t])
  BY <1>4, <1>5, Finite, TaggedChange
<1>10. Cardinality(F[t]) = One(Head(s) \in {x}) + Cardinality(G[t])
  BY <1>1, <1>7, OccursTail
<1>11. Cardinality(G[t]) \in Nat
  BY <1>2, <1>7, OccursFinite
<1> QED
  BY <1>2, <1>3, <1>6, <1>8, <1>9, <1>10, <1>11, SMTT(30) DEF One

SetsEntry(k, v) == table' = [table EXCEPT ![k] = v]

(* One entry of the handle table changes. *)
LEMMA TableCount ==
    ASSUME TypeOK, NEW k \in Handles, NEW v \in Objects \cup {Null}, SetsEntry(k, v),
           NEW x \in Objects
    PROVE  /\ FromHandles(x) \in Nat /\ FromHandles(x)' \in Nat
           /\ table[k] # x /\ v # x => FromHandles(x)' = FromHandles(x)
           /\ table[k] # x /\ v = x => FromHandles(x)' = FromHandles(x) + 1
           /\ table[k] = x /\ v # x => FromHandles(x)' + 1 = FromHandles(x)
<1> USE DEF FromHandles
<1> DEFINE f == table
           g == table'
<1>1. g[k] = v /\ f[k] = table[k] /\ ChangesAt(Handles, f, g, k)
  BY DEF TypeOK, ChangesAt, SetsEntry
<1>2. HandlesOf(x) = Takes(Handles, f, x) /\ HandlesOf(x)' = Takes(Handles, g, x)
  BY DEF HandlesOf, Takes
<1> HIDE DEF f, g
<1>3. IsFiniteSet(Handles)
  BY Finite
<1>4. Cardinality(Takes(Handles, g, x)) + One(f[k] = x)
        = Cardinality(Takes(Handles, f, x)) + One(g[k] = x)
  BY <1>1, <1>3, ValueChange
<1>5. Cardinality(Takes(Handles, f, x)) \in Nat /\ Cardinality(Takes(Handles, g, x)) \in Nat
  BY <1>3, TakesFinite
<1>6. /\ table[k] = x => One(f[k] = x) = 1
      /\ table[k] # x => One(f[k] = x) = 0
      /\ v = x => One(g[k] = x) = 1
      /\ v # x => One(g[k] = x) = 0
  BY <1>1 DEF One
<1> QED
  BY <1>2, <1>4, <1>5, <1>6

(* At most one object changes its directory. *)
LEMMA EntriesCount ==
    ASSUME TypeOK, NEW k \in Objects, NEW x,
           \A c \in Objects \ {k} : hdr'[c].Directory = hdr[c].Directory
    PROVE  /\ FromEntries(x) \in Nat /\ FromEntries(x)' \in Nat
           /\ FromEntries(x)' + One(hdr[k].Directory = x)
                = FromEntries(x) + One(hdr'[k].Directory = x)
<1> USE DEF FromEntries
<1> DEFINE f == [c \in Objects |-> hdr[c].Directory]
           g == [c \in Objects |-> hdr'[c].Directory]
<1>1. /\ f[k] = hdr[k].Directory /\ g[k] = hdr'[k].Directory
      /\ \A c \in Objects \ {k} : g[c] = f[c]
  OBVIOUS
<1>2. EntriesOf(x) = Takes(Objects, f, x) /\ EntriesOf(x)' = Takes(Objects, g, x)
  BY DEF EntriesOf, Takes
<1> HIDE DEF f, g
<1>3. IsFiniteSet(Objects)
  BY Finite
<1>4. Cardinality(Takes(Objects, g, x)) + One(f[k] = x)
        = Cardinality(Takes(Objects, f, x)) + One(g[k] = x)
  <2>1. ChangesAt(Objects, f, g, k)
    BY <1>1 DEF ChangesAt
  <2> QED
    BY <1>3, <2>1, ValueChange
<1>5. Cardinality(Takes(Objects, f, x)) \in Nat /\ Cardinality(Takes(Objects, g, x)) \in Nat
  BY <1>3, TakesFinite
<1> QED
  BY <1>1, <1>2, <1>4, <1>5

(* At most one link changes its target. *)
LEMMA LinksCount ==
    ASSUME TypeOK, NEW k \in Objects, NEW x,
           \A c \in Objects \ {k} : hdr'[c].LinkTarget = hdr[c].LinkTarget
    PROVE  /\ FromLinks(x) \in Nat /\ FromLinks(x)' \in Nat
           /\ FromLinks(x)' + One(hdr[k].LinkTarget = x)
                = FromLinks(x) + One(hdr'[k].LinkTarget = x)
<1> USE DEF FromLinks
<1> DEFINE f == [c \in Objects |-> hdr[c].LinkTarget]
           g == [c \in Objects |-> hdr'[c].LinkTarget]
<1>1. /\ f[k] = hdr[k].LinkTarget /\ g[k] = hdr'[k].LinkTarget
      /\ \A c \in Objects \ {k} : g[c] = f[c]
  OBVIOUS
<1>2. LinksTo(x) = Takes(Objects, f, x) /\ LinksTo(x)' = Takes(Objects, g, x)
  BY DEF LinksTo, Takes
<1> HIDE DEF f, g
<1>3. IsFiniteSet(Objects)
  BY Finite
<1>4. Cardinality(Takes(Objects, g, x)) + One(f[k] = x)
        = Cardinality(Takes(Objects, f, x)) + One(g[k] = x)
  <2>1. ChangesAt(Objects, f, g, k)
    BY <1>1 DEF ChangesAt
  <2> QED
    BY <1>3, <2>1, ValueChange
<1>5. Cardinality(Takes(Objects, f, x)) \in Nat /\ Cardinality(Takes(Objects, g, x)) \in Nat
  BY <1>3, TakesFinite
<1> QED
  BY <1>1, <1>2, <1>4, <1>5

(* The parts of a count of references. *)
LEMMA Parts ==
    ASSUME TypeOK, NEW x
    PROVE  /\ FromHandles(x) \in Nat /\ IsFiniteSet(HandlesOf(x))
           /\ FromEntries(x) \in Nat /\ IsFiniteSet(EntriesOf(x))
           /\ FromLinks(x) \in Nat /\ IsFiniteSet(LinksTo(x))
           /\ FromCalls(x) \in Nat /\ IsFiniteSet(WorkRefs(x))
           /\ FromThreads(x) \in Nat /\ IsFiniteSet(HeldRefs(x))
           /\ Refs(x) = FromHandles(x) + FromName(x)
                        + FromEntries(x) + FromLinks(x)
                        + FromSystem(x)
                        + FromCalls(x) + FromThreads(x)
           /\ FromName(x) \in Nat /\ FromSystem(x) \in Nat
           /\ Refs(x) \in Nat
<1> USE DEF FromHandles, FromName, FromEntries, FromLinks, FromSystem, FromCalls, FromThreads
<1>1. HandlesOf(x) \subseteq Handles /\ EntriesOf(x) \subseteq Objects /\ LinksTo(x) \subseteq Objects
  BY DEF HandlesOf, EntriesOf, LinksTo
<1>2. IsFiniteSet(HandlesOf(x)) /\ IsFiniteSet(EntriesOf(x)) /\ IsFiniteSet(LinksTo(x))
  BY <1>1, Finite, FS_Subset
<1>3. IsFiniteSet(WorkRefs(x))
  <2> DEFINE F == [u \in Threads |-> Occurs(work[u], HoldSet(x))]
  <2>1. \A u \in Threads : IsFiniteSet(F[u])
    BY OccursFinite DEF TypeOK
  <2>2. WorkRefs(x) = Tagged(Threads, F)
    BY WorkRefsTagged DEF TypeOK
  <2> HIDE DEF F
  <2> QED
    BY <2>1, <2>2, Finite, TaggedFinite
<1>4. IsFiniteSet(HeldRefs(x))
  <2> DEFINE F == [u \in Threads |-> Occurs(held[u], {x})]
  <2>1. \A u \in Threads : IsFiniteSet(F[u])
    BY OccursFinite DEF TypeOK
  <2>2. HeldRefs(x) = Tagged(Threads, F)
    BY HeldRefsTagged DEF TypeOK
  <2> HIDE DEF F
  <2> QED
    BY <2>1, <2>2, Finite, TaggedFinite
<1>5. /\ FromHandles(x) \in Nat
      /\ FromEntries(x) \in Nat
      /\ FromLinks(x) \in Nat
      /\ FromCalls(x) \in Nat
      /\ FromThreads(x) \in Nat
  BY <1>2, <1>3, <1>4, FS_CardinalityType
<1>6. Refs(x) = FromHandles(x) + FromName(x)
                + FromEntries(x) + FromLinks(x)
                + FromSystem(x)
                + FromCalls(x) + FromThreads(x)
  BY DEF Refs, HandlesOf, EntriesOf, LinksTo
<1>7. FromName(x) \in Nat /\ FromSystem(x) \in Nat
  BY DEF Count
<1>8. Refs(x) \in Nat
  BY <1>5, <1>6, <1>7
<1> QED
  BY <1>2, <1>3, <1>4, <1>5, <1>6, <1>7, <1>8

(* What refers to an object is counted. *)
LEMMA Evidence ==
    ASSUME TypeOK, NEW x \in Objects
    PROVE  /\ (\E h \in Handles : table[h] = x) => FromHandles(x) >= 1
           /\ (\E c \in Objects : hdr[c].Directory = x) => FromEntries(x) >= 1
           /\ (\E c \in Objects : hdr[c].LinkTarget = x) => FromLinks(x) >= 1
           /\ (\E t \in Threads : \E i \in DOMAIN work[t] : Holds(work[t][i], x))
                 => FromCalls(x) >= 1
           /\ (\E t \in Threads : \E i \in DOMAIN held[t] : held[t][i] = x)
                 => FromThreads(x) >= 1
<1> USE DEF FromHandles, FromEntries, FromLinks, FromCalls, FromThreads
<1>1. \A S : IsFiniteSet(S) /\ Cardinality(S) \in Nat /\ S # {} => Cardinality(S) >= 1
  BY FS_EmptySet
<1>2. (\E h \in Handles : table[h] = x) => HandlesOf(x) # {}
  BY DEF HandlesOf
<1>3. (\E c \in Objects : hdr[c].Directory = x) => EntriesOf(x) # {}
  BY DEF EntriesOf
<1>4. (\E c \in Objects : hdr[c].LinkTarget = x) => LinksTo(x) # {}
  BY DEF LinksTo
<1>5. ASSUME NEW t \in Threads, NEW i \in DOMAIN work[t], Holds(work[t][i], x)
      PROVE  WorkRefs(x) # {}
  <2>1. <<t, i>> \in {t} \X {j \in DOMAIN work[t] : Holds(work[t][j], x)}
    BY <1>5
  <2> QED
    BY <2>1 DEF WorkRefs
<1>6. ASSUME NEW t \in Threads, NEW i \in DOMAIN held[t], held[t][i] = x
      PROVE  HeldRefs(x) # {}
  <2>1. <<t, i>> \in {t} \X {j \in DOMAIN held[t] : held[t][j] = x}
    BY <1>6
  <2> QED
    BY <2>1 DEF HeldRefs
<1> QED
  BY <1>1, <1>2, <1>3, <1>4, <1>5, <1>6, Parts

(* Two references of running calls are counted twice. *)
LEMMA EvidenceTwo ==
    ASSUME TypeOK, NEW x \in Objects,
           NEW t \in Threads, NEW i \in DOMAIN work[t], Holds(work[t][i], x),
           NEW u \in Threads, NEW j \in DOMAIN work[u], Holds(work[u][j], x),
           ~(t = u /\ i = j)
    PROVE  FromCalls(x) >= 2
<1> USE DEF FromCalls
<1> DEFINE a == <<t, i>>
           b == <<u, j>>
<1>1. a \in {t} \X {k \in DOMAIN work[t] : Holds(work[t][k], x)}
      /\ b \in {u} \X {k \in DOMAIN work[u] : Holds(work[u][k], x)}
  OBVIOUS
<1>2. a \in WorkRefs(x) /\ b \in WorkRefs(x) /\ a # b
  BY <1>1 DEF WorkRefs
<1> HIDE DEF a, b
<1>3. IsFiniteSet(WorkRefs(x)) /\ FromCalls(x) \in Nat
  BY Parts
<1>4. /\ IsFiniteSet(WorkRefs(x) \ {a})
      /\ Cardinality(WorkRefs(x) \ {a}) = FromCalls(x) - 1
  BY <1>2, <1>3, FS_RemoveElement
<1>5. b \in WorkRefs(x) \ {a}
  BY <1>2
<1>6. Cardinality(WorkRefs(x) \ {a}) # 0
  BY <1>4, <1>5, FS_EmptySet
<1>7. Cardinality(WorkRefs(x) \ {a}) \in Nat
  BY <1>4, FS_CardinalityType
<1> QED
  BY <1>3, <1>4, <1>6, <1>7

-----------------------------------------------------------------------------
(* Objects in use *)

NewObject(x) == \E t \in Threads : \E i \in DOMAIN work[t] : IsNew(work[t][i]) /\ work[t][i].arg = x

(* An object that has a user and is not being created. *)
InUse(x) == x \in Objects /\ Refs(x) > 0 /\ ~NewObject(x)

(* Items have the arguments their kinds need. *)
LEMMA ItemArgs ==
    ASSUME NEW it \in Items
    PROVE  /\ it.op \in {"deref", "free", "unregister", "register", "reference", "handle",
                         "duplicate", "temporary", "parse", "open", "insert", "link"} => it.arg \in Objects
           /\ it.op \in Closes => it.arg \in Handles
           /\ it.op \in {"insert", "link"} => it.path \in Paths /\ it.attrs \in Attributes
<1>1. CASE it \in [op : {"deref", "free", "unregister", "register", "reference", "handle",
                         "duplicate", "temporary", "parse", "open"}, arg : Objects]
  BY <1>1 DEF Closes
<1>2. CASE it \in [op : {"close", "closeref"}, arg : Handles]
  BY <1>2 DEF Closes
<1>3. CASE it \in [op : {"insert", "link"}, arg : Objects, path : Paths, attrs : Attributes]
  BY <1>3 DEF Closes
<1> QED
  BY <1>1, <1>2, <1>3 DEF Items

(* An object that is being created has no user but the call that creates it. *)
LEMMA Alone ==
    ASSUME IInv, NEW t \in Threads, NEW i \in DOMAIN work[t], IsNew(work[t][i]),
           NEW x, x = work[t][i].arg
    PROVE  /\ x \in Slots /\ x \in Objects
           /\ leaked[x] = 0
           /\ hdr[x].Directory = Null
           /\ \A h \in Handles : table[h] # x
           /\ \A c \in Objects : hdr[c].Directory # x /\ hdr[c].LinkTarget # x
           /\ \A u \in Threads : \A j \in DOMAIN held[u] : held[u][j] # x
           /\ \A u \in Threads : \A j \in DOMAIN work[u] :
                 Holds(work[u][j], x) =>
                    u = t /\ j = HolderOf(work[t], i)
<1>1. ShapeAt(work[t], i) /\ hdr[x].PointerCount = 1
  BY DEF IInv, ShapeOK, NewOK
<1>2. x \in Slots /\ x \in Objects
  BY <1>1 DEF ShapeAt, IsNew, Objects
<1>3. work[t] \in Seq(Items) /\ TypeOK /\ leaked[x] \in Nat
  BY <1>2 DEF IInv, TypeOK
<1> DEFINE k == HolderOf(work[t], i)
<1>4. k \in DOMAIN work[t] /\ Holds(work[t][k], x)
  <2>1. CASE work[t][i].op = "insert"
    BY <1>1, <2>1 DEF ShapeAt, Item, Holds, HolderOf
  <2>2. CASE work[t][i].op = "register"
    BY <1>1, <1>3, <2>2 DEF ShapeAt, Item, Holds, HolderOf
  <2>3. CASE work[t][i].op = "open"
    BY <2>3 DEF Holds, HolderOf
  <2> QED
    BY <2>1, <2>2, <2>3 DEF IsNew
<1> HIDE DEF k
<1>5. FromCalls(x) >= 1
  BY <1>2, <1>3, <1>4, Evidence
<1>6. 1 = Refs(x) + leaked[x]
  BY <1>1, <1>2 DEF IInv, RefCountExact
<1>7. /\ FromCalls(x) \in Nat
      /\ FromHandles(x) \in Nat
      /\ FromEntries(x) \in Nat
      /\ FromLinks(x) \in Nat
      /\ FromThreads(x) \in Nat
      /\ FromName(x) \in Nat
      /\ FromSystem(x) \in Nat
      /\ Refs(x) = FromHandles(x) + FromName(x)
                   + FromEntries(x) + FromLinks(x)
                   + FromSystem(x)
                   + FromCalls(x) + FromThreads(x)
  BY <1>3, Parts
<1>8. /\ FromCalls(x) = 1
      /\ leaked[x] = 0
      /\ FromName(x) = 0
      /\ ~(FromHandles(x) >= 1)
      /\ ~(FromEntries(x) >= 1)
      /\ ~(FromLinks(x) >= 1)
      /\ ~(FromThreads(x) >= 1)
  <2> DEFINE a == FromCalls(x)
             b == leaked[x]
             c == FromName(x)
             d == FromHandles(x)
             e == FromEntries(x)
             f == FromLinks(x)
             g == FromThreads(x)
             h == FromSystem(x)
             r == Refs(x)
  <2>1. a \in Nat /\ b \in Nat /\ c \in Nat /\ d \in Nat /\ e \in Nat /\ f \in Nat /\ g \in Nat /\ h \in Nat
    BY <1>3, <1>7
  <2>2. a >= 1 /\ 1 = r + b /\ r = d + c + e + f + h + a + g
    BY <1>5, <1>6, <1>7
  <2> HIDE DEF a, b, c, d, e, f, g, h, r
  <2>3. a = 1 /\ b = 0 /\ c = 0 /\ ~(d >= 1) /\ ~(e >= 1) /\ ~(f >= 1) /\ ~(g >= 1)
    BY <2>1, <2>2
  <2> QED
    BY <2>3 DEF a, b, c, d, e, f, g
<1>9. hdr[x].Directory = Null
  BY <1>8 DEF FromName, Count
<1>10. /\ \A h \in Handles : table[h] # x
       /\ \A c \in Objects : hdr[c].Directory # x /\ hdr[c].LinkTarget # x
       /\ \A u \in Threads : \A j \in DOMAIN held[u] : held[u][j] # x
  BY <1>2, <1>3, <1>8, Evidence
<1>11. ASSUME NEW u \in Threads, NEW j \in DOMAIN work[u], Holds(work[u][j], x)
       PROVE  u = t /\ j = k
  <2>1. SUFFICES ASSUME ~(t = u /\ k = j) PROVE FALSE
    OBVIOUS
  <2>2. FromCalls(x) >= 2
    BY <1>2, <1>3, <1>4, <1>11, <2>1, EvidenceTwo
  <2> QED
    BY <1>8, <2>2
<1> QED
  BY <1>2, <1>8, <1>9, <1>10, <1>11 DEF k

(* What a handle, a directory entry or a link leads to is in use, and so are the entry     *)
(* itself and the two permanent objects.                                                  *)
LEMMA NamedInUse ==
    ASSUME IInv, NEW x \in Objects,
           \/ \E h \in Handles : table[h] = x
           \/ \E c \in Objects : hdr[c].Directory = x \/ hdr[c].LinkTarget = x
           \/ hdr[x].Directory # Null
           \/ x \in {Dos, Dev}
           \/ \E u \in Threads : \E j \in DOMAIN held[u] : held[u][j] = x
    PROVE  InUse(x)
<1>1. TypeOK
  BY DEF IInv
<1>2. ~NewObject(x)
  <2> SUFFICES ASSUME NEW t \in Threads, NEW i \in DOMAIN work[t], IsNew(work[t][i]),
                      x = work[t][i].arg
               PROVE  FALSE
    BY DEF NewObject
  <2>1. /\ x \in Slots
        /\ hdr[x].Directory = Null
        /\ \A h \in Handles : table[h] # x
        /\ \A c \in Objects : hdr[c].Directory # x /\ hdr[c].LinkTarget # x
        /\ \A u \in Threads : \A j \in DOMAIN held[u] : held[u][j] # x
    BY Alone
  <2> QED
    BY <2>1, ObAssumption
<1>3. /\ FromCalls(x) \in Nat
      /\ FromHandles(x) \in Nat
      /\ FromEntries(x) \in Nat
      /\ FromLinks(x) \in Nat
      /\ FromThreads(x) \in Nat
      /\ FromName(x) \in Nat
      /\ FromSystem(x) \in Nat
      /\ Refs(x) = FromHandles(x) + FromName(x)
                   + FromEntries(x) + FromLinks(x)
                   + FromSystem(x)
                   + FromCalls(x) + FromThreads(x)
  BY <1>1, Parts
<1>4. \/ FromHandles(x) >= 1
      \/ FromEntries(x) >= 1
      \/ FromLinks(x) >= 1
      \/ FromThreads(x) >= 1
      \/ FromName(x) >= 1
      \/ FromSystem(x) >= 1
  <2>1. hdr[x].Directory # Null => FromName(x) >= 1
    BY DEF FromName, Count
  <2>2. x \in {Dos, Dev} => FromSystem(x) >= 1
    BY DEF FromSystem, Count
  <2> QED
    BY <1>1, <2>1, <2>2, Evidence
<1>5. Refs(x) > 0
  BY <1>3, <1>4
<1> QED
  BY <1>2, <1>5 DEF InUse

(* So is what the first item of a list is about. *)
LEMMA HeadInUse ==
    ASSUME IInv, NEW t \in Threads, work[t] # <<>>,
           Head(work[t]).op \in {"deref", "handle", "duplicate", "link", "parse",
                                 "temporary", "reference"}
    PROVE  InUse(Head(work[t]).arg)
<1> DEFINE it == Head(work[t])
           x == it.arg
<1>1. TypeOK /\ work[t] \in Seq(Items)
  BY DEF IInv, TypeOK
<1>2. it \in Items /\ 1 \in DOMAIN work[t] /\ work[t][1] = it
  BY <1>1, EmptySeq
<1>3. x \in Objects
  BY <1>2, ItemArgs
<1>4. PICK k \in {1, 2} : k \in DOMAIN work[t] /\ Holds(work[t][k], x)
                          /\ (k = 2 => it.op \in {"temporary", "reference"})
  <2>1. CASE it.op \in {"temporary", "reference"}
    <3>1. ShapeAt(work[t], 1)
      BY <1>2 DEF IInv, ShapeOK
    <3>2. 2 \in DOMAIN work[t] /\ Holds(work[t][2], x)
      BY <1>2, <2>1, <3>1 DEF ShapeAt, Holds, Item
    <3> QED
      BY <2>1, <3>2
  <2>2. CASE it.op \notin {"temporary", "reference"}
    <3>1. Holds(work[t][1], x)
      BY <1>2, <2>2 DEF Holds
    <3> QED
      BY <1>2, <3>1
  <2> QED
    BY <2>1, <2>2
<1> HIDE DEF it
<1>5. ~NewObject(x)
  <2> SUFFICES ASSUME NEW u \in Threads, NEW i \in DOMAIN work[u], IsNew(work[u][i]),
                      x = work[u][i].arg
               PROVE  FALSE
    BY DEF NewObject
  <2>1. t = u /\ k = HolderOf(work[u], i)
    BY <1>4, Alone
  <2>2. i \in Nat /\ i >= 1
    BY <1>1, <2>1
  <2>3. work[u][i].op # "open"
    <3> SUFFICES ASSUME work[u][i].op = "open" PROVE FALSE
      OBVIOUS
    <3>1. Len(work[t]) = 1 /\ k = i
      BY <2>1 DEF IInv, ShapeOK, ShapeAt, HolderOf
    <3> QED
      BY <1>1, <1>2, <2>1, <3>1 DEF it
  <2>4. k = 2 /\ i = 1 /\ work[u][i].op = "insert"
    BY <2>1, <2>2, <2>3 DEF HolderOf
  <2> QED
    BY <1>2, <1>4, <2>1, <2>4
<1>6. FromCalls(x) >= 1
  BY <1>1, <1>3, <1>4, Evidence
<1>7. Refs(x) > 0
  <2>1. /\ FromCalls(x) \in Nat
        /\ FromHandles(x) \in Nat
        /\ FromEntries(x) \in Nat
        /\ FromLinks(x) \in Nat
        /\ FromThreads(x) \in Nat
        /\ FromName(x) \in Nat
        /\ FromSystem(x) \in Nat
        /\ Refs(x) = FromHandles(x) + FromName(x)
                     + FromEntries(x) + FromLinks(x)
                     + FromSystem(x)
                     + FromCalls(x) + FromThreads(x)
    BY <1>1, Parts
  <2> QED
    BY <1>6, <2>1
<1> QED
  BY <1>3, <1>5, <1>7 DEF InUse, it

(* An object in use has a positive count and is not free memory. *)
LEMMA InUseCounted ==
    ASSUME IInv, NEW x, InUse(x)
    PROVE  x \in Objects /\ hdr[x].PointerCount > 0 /\ hdr[x].Type # "free"
<1>1. x \in Objects /\ Refs(x) > 0 /\ Refs(x) \in Nat /\ leaked[x] \in Nat
  BY Parts DEF InUse, IInv, TypeOK
<1>2. hdr[x].PointerCount = Refs(x) + leaked[x]
  BY <1>1 DEF IInv, RefCountExact
<1>3. hdr[x].PointerCount > 0
  BY <1>1, <1>2
<1>4. Unused.PointerCount = 0
  BY DEF Unused
<1> QED
  BY <1>1, <1>3, <1>4 DEF IInv, HeadersOK, HeaderOK

-----------------------------------------------------------------------------
(* Steps: t replaces the first item of its list by others. *)

(* The items that a step of t leaves alone. *)
Stays(t, u, i) == i \in DOMAIN work[u] /\ ~(u = t /\ i = 1)

(* An item that stays is about to make x known, or to free it. *)
Pending(t, x) ==
    \E u \in Threads : \E i \in DOMAIN work[u] :
        Stays(t, u, i) /\ work[u][i].op \in {"insert", "register", "open", "free"} /\ work[u][i].arg = x

(* The place that the item at position j of u's new list had before. *)
Before(t, items, u, j) == IF u = t THEN j - Len(items) + 1 ELSE j

(* The items of the new lists are the new ones and those that stay. *)
LEMMA Origins ==
    ASSUME NEW t \in Threads, NEW items, TypeOK, Replaced(t, items),
           NEW u \in Threads, NEW j \in DOMAIN work'[u]
    PROVE  \/ u = t /\ j \in 1..Len(items) /\ work'[u][j] = items[j]
           \/ /\ Stays(t, u, Before(t, items, u, j))
              /\ Before(t, items, u, j) \in DOMAIN work[u]
              /\ work'[u][j] = work[u][Before(t, items, u, j)]
<1>1. CASE u = t
  <2>1. \/ j \in 1..Len(items) /\ work'[t][j] = items[j]
        \/ /\ j > Len(items)
           /\ j - Len(items) + 1 \in 2..Len(work[t])
           /\ j - Len(items) + 1 \in DOMAIN work[t]
           /\ work'[t][j] = work[t][j - Len(items) + 1]
    BY <1>1, Positions
  <2> QED
    BY <1>1, <2>1 DEF Stays, Before
<1>2. CASE u # t
  <2>1. work'[u] = work[u]
    BY <1>2, Positions
  <2> QED
    BY <1>2, <2>1 DEF Stays, Before
<1> QED
  BY <1>1, <1>2

(* What stays is still there, and what was at two places is. *)
LEMMA BeforeInjective ==
    ASSUME NEW t \in Threads, NEW items, TypeOK, Replaced(t, items), NEW u \in Threads,
           NEW i \in DOMAIN work'[u], NEW j \in DOMAIN work'[u],
           Before(t, items, u, i) = Before(t, items, u, j)
    PROVE  i = j
<1>1. items \in Seq(Items) /\ Len(items) \in Nat
  BY DEF Replaced
<1>2. work'[u] \in Seq(Items)
  BY Positions
<1>3. i \in Nat /\ j \in Nat
  BY <1>2
<1> QED
  BY <1>1, <1>3 DEF Before

(* Items that stay have a place in the new lists. *)
LEMMA StaysThere ==
    ASSUME NEW t \in Threads, NEW items, TypeOK, Replaced(t, items),
           NEW u \in Threads, NEW i \in DOMAIN work[u], Stays(t, u, i)
    PROVE  \E j \in DOMAIN work'[u] : work'[u][j] = work[u][i]
<1>1. CASE u = t
  <2>1. work[t] \in Seq(Items)
    BY DEF TypeOK
  <2>2. i \in 2..Len(work[t])
    BY <1>1, <2>1 DEF Stays
  <2>3. /\ Len(items) + i - 1 \in DOMAIN work'[t]
        /\ work'[t][Len(items) + i - 1] = work[t][i]
    BY <2>2, Positions
  <2> QED
    BY <1>1, <2>3
<1>2. CASE u # t
  BY <1>2, Positions
<1> QED
  BY <1>1, <1>2

(* The new items are in the list of t. *)
LEMMA NewThere ==
    ASSUME NEW t \in Threads, NEW items, TypeOK, Replaced(t, items), NEW i \in 1..Len(items)
    PROVE  i \in DOMAIN work'[t] /\ work'[t][i] = items[i]
BY Positions

(* The shape of lists: it is enough to look at the new items. *)
LEMMA ShapeKept ==
    ASSUME IInv, NEW t \in Threads, NEW items, Replaced(t, items),
           \A i \in 1..Len(items) : ShapeAt(work'[t], i)
    PROVE  ShapeOK'
<1>1. TypeOK /\ ShapeOK
  BY DEF IInv
<1>2. SUFFICES ASSUME NEW u \in Threads, NEW j \in DOMAIN work'[u] PROVE ShapeAt(work'[u], j)
  BY DEF ShapeOK
<1>3. CASE u # t
  <2>1. work'[u] = work[u]
    BY <1>1, <1>3, Positions
  <2> QED
    BY <1>1, <2>1 DEF ShapeOK
<1>4. CASE u = t
  <2> DEFINE s == work[t]
             w == work'[t]
             i == j - Len(items) + 1
  <2>1. s \in Seq(Items) /\ w \in Seq(Items) /\ Len(items) \in Nat
    <3>1. s \in Seq(Items) /\ items \in Seq(Items)
      BY <1>1 DEF TypeOK, Replaced
    <3>2. w \in Seq(Items)
      BY <1>1, Positions
    <3> QED
      BY <3>1, <3>2
  <2>2. CASE j \in 1..Len(items)
    BY <1>4, <2>2
  <2>3. CASE ~(j \in 1..Len(items))
    <3>1. i \in 2..Len(s) /\ i \in DOMAIN s /\ w[j] = s[i]
      BY <1>1, <1>2, <1>4, <2>3, Positions
    <3>2. ShapeAt(s, i)
      BY <1>1, <3>1 DEF ShapeOK
    <3>3. \A k \in 2..Len(s) : Len(items) + k - 1 \in DOMAIN w /\ w[Len(items) + k - 1] = s[k]
      BY <1>1, Positions
    <3>4. s[i].op # "register" /\ s[i].op # "parse" /\ s[i].op # "open"
      BY <2>1, <3>1, <3>2 DEF ShapeAt
    <3>5. i + 1 \in DOMAIN s => j + 1 \in DOMAIN w /\ w[j + 1] = s[i + 1]
      <4> SUFFICES ASSUME i + 1 \in DOMAIN s PROVE j + 1 \in DOMAIN w /\ w[j + 1] = s[i + 1]
        OBVIOUS
      <4> DEFINE n == Len(items)
                 m == Len(s)
      <4>1. j \in Nat /\ n \in Nat /\ m \in Nat /\ DOMAIN s = 1..m
        BY <1>2, <1>4, <2>1
      <4>2. i = j - n + 1 /\ i \in 2..m /\ i + 1 \in 1..m
        BY <3>1, <4>1
      <4> HIDE DEF i, n, m
      <4>3. i + 1 \in 2..m /\ n + (i + 1) - 1 = j + 1
        BY <4>1, <4>2
      <4>4. i + 1 \in 2..Len(s) /\ Len(items) + (i + 1) - 1 = j + 1
        BY <4>3 DEF n, m
      <4> HIDE DEF s, w
      <4> QED
        BY <3>3, <4>4
    <3> HIDE DEF s, w, i
    <3>6. ShapeAt(w, j)
      BY <3>1, <3>2, <3>4, <3>5 DEF ShapeAt
    <3> QED
      BY <1>4, <3>6 DEF w
  <2> QED
    BY <2>2, <2>3
<1> QED
  BY <1>3, <1>4

(* Items of kinds that occur once for each argument. *)
LEMMA OnceKept ==
    ASSUME NEW t \in Threads, NEW items, TypeOK, Replaced(t, items), NEW ops, Once(ops),
           \A i, j \in 1..Len(items) :
              items[i].op \in ops /\ items[j].op \in ops /\ items[i].arg = items[j].arg => i = j,
           \A i \in 1..Len(items) : \A u \in Threads : \A j \in DOMAIN work[u] :
              Stays(t, u, j) /\ items[i].op \in ops /\ work[u][j].op \in ops
              => items[i].arg # work[u][j].arg
    PROVE  Once(ops)'
<1> SUFFICES ASSUME NEW u \in Threads, NEW v \in Threads,
                    NEW i \in DOMAIN work'[u], NEW j \in DOMAIN work'[v],
                    work'[u][i].op \in ops, work'[v][j].op \in ops,
                    work'[u][i].arg = work'[v][j].arg
             PROVE  u = v /\ i = j
  BY DEF Once
<1> DEFINE a == Before(t, items, u, i)
           b == Before(t, items, v, j)
<1>1. \/ u = t /\ i \in 1..Len(items) /\ work'[u][i] = items[i]
      \/ Stays(t, u, a) /\ a \in DOMAIN work[u] /\ work'[u][i] = work[u][a]
  BY Origins
<1>2. \/ v = t /\ j \in 1..Len(items) /\ work'[v][j] = items[j]
      \/ Stays(t, v, b) /\ b \in DOMAIN work[v] /\ work'[v][j] = work[v][b]
  BY Origins
<1>3. CASE a \in DOMAIN work[u] /\ work'[u][i] = work[u][a]
           /\ b \in DOMAIN work[v] /\ work'[v][j] = work[v][b]
  <2>1. u = v /\ a = b
    BY <1>3 DEF Once
  <2> QED
    BY <2>1, BeforeInjective
<1> HIDE DEF a, b
<1> QED
  BY <1>1, <1>2, <1>3

(* Objects being created: those that stay so keep their headers. *)
LEMMA NewKept ==
    ASSUME IInv, NEW t \in Threads, NEW items, Replaced(t, items),
           \A c \in Objects : hdr'[c] = hdr[c] \/ ~Pending(t, c),
           \A i \in 1..Len(items) :
              IsNew(items[i]) => /\ hdr'[items[i].arg].PointerCount = 1
                                 /\ ~hdr'[items[i].arg].Registered
    PROVE  NewOK'
<1>1. TypeOK /\ NewOK
  BY DEF IInv
<1>2. SUFFICES ASSUME NEW u \in Threads, NEW j \in DOMAIN work'[u], IsNew(work'[u][j])
               PROVE  /\ hdr'[work'[u][j].arg].PointerCount = 1
                      /\ ~hdr'[work'[u][j].arg].Registered
  BY DEF NewOK
<1> DEFINE i == Before(t, items, u, j)
<1>3. \/ u = t /\ j \in 1..Len(items) /\ work'[u][j] = items[j]
      \/ Stays(t, u, i) /\ i \in DOMAIN work[u] /\ work'[u][j] = work[u][i]
  BY <1>1, Origins
<1> HIDE DEF i
<1>4. CASE u = t /\ j \in 1..Len(items) /\ work'[u][j] = items[j]
  BY <1>2, <1>4
<1>5. CASE Stays(t, u, i) /\ i \in DOMAIN work[u] /\ work'[u][j] = work[u][i]
  <2> DEFINE x == work[u][i].arg
  <2>1. IsNew(work[u][i])
    BY <1>2, <1>5
  <2>2. Pending(t, x)
    BY <1>5, <2>1 DEF Pending, IsNew
  <2>3. x \in Objects
    <3>1. work[u][i] \in Items
      BY <1>1, <1>5 DEF TypeOK
    <3> QED
      BY <2>1, <3>1, ItemArgs DEF IsNew
  <2>4. hdr[x].PointerCount = 1 /\ ~hdr[x].Registered
    BY <1>1, <1>5, <2>1 DEF NewOK
  <2> QED
    BY <1>5, <2>2, <2>3, <2>4
<1> QED
  BY <1>3, <1>4, <1>5

(* The header of an object that is about to be freed. *)
Doomed(header) == header.PointerCount = 0 /\ header.LinkTarget = Null /\ header.Type # "free"

(* Objects being freed: those that stay so keep their headers. *)
LEMMA FreeKept ==
    ASSUME IInv, NEW t \in Threads, NEW items, Replaced(t, items),
           \A c \in Objects : hdr'[c] = hdr[c] \/ ~Pending(t, c),
           \A i \in 1..Len(items) : items[i].op = "free" => Doomed(hdr'[items[i].arg]),
           \A i, j \in 1..Len(items) : items[i].op = "free" /\ items[j].op = "free" => i = j,
           \A i \in 1..Len(items) : items[i].op = "free" => ~Pending(t, items[i].arg)
    PROVE  FreeOK'
<1>1. TypeOK /\ FreeOK
  BY DEF IInv
<1>2. ASSUME NEW u \in Threads, NEW j \in DOMAIN work'[u], work'[u][j].op = "free"
      PROVE  Doomed(hdr'[work'[u][j].arg])
  <2> DEFINE i == Before(t, items, u, j)
  <2>1. \/ u = t /\ j \in 1..Len(items) /\ work'[u][j] = items[j]
        \/ Stays(t, u, i) /\ i \in DOMAIN work[u] /\ work'[u][j] = work[u][i]
    BY <1>1, Origins
  <2> HIDE DEF i
  <2>2. CASE u = t /\ j \in 1..Len(items) /\ work'[u][j] = items[j]
    BY <1>2, <2>2 DEF Doomed
  <2>3. CASE Stays(t, u, i) /\ i \in DOMAIN work[u] /\ work'[u][j] = work[u][i]
    <3> DEFINE x == work[u][i].arg
    <3>1. work[u][i].op = "free"
      BY <1>2, <2>3
    <3>2. Pending(t, x)
      BY <2>3, <3>1 DEF Pending
    <3>3. x \in Objects
      <4>1. work[u][i] \in Items
        BY <1>1, <2>3 DEF TypeOK
      <4> QED
        BY <3>1, <4>1, ItemArgs
    <3>4. hdr[x].PointerCount = 0 /\ hdr[x].LinkTarget = Null /\ hdr[x].Type # "free"
      BY <1>1, <2>3, <3>1 DEF FreeOK
    <3> QED
      BY <2>3, <3>2, <3>3, <3>4 DEF Doomed
  <2> QED
    BY <2>1, <2>2, <2>3
<1>3. Once({"free"})'
  <2> DEFINE ops == {"free"}
  <2>1. Once(ops)
    BY <1>1 DEF FreeOK
  <2>2. \A i, j \in 1..Len(items) :
           items[i].op \in ops /\ items[j].op \in ops /\ items[i].arg = items[j].arg => i = j
    OBVIOUS
  <2>3. \A i \in 1..Len(items) : \A u \in Threads : \A j \in DOMAIN work[u] :
           Stays(t, u, j) /\ items[i].op \in ops /\ work[u][j].op \in ops
           => items[i].arg # work[u][j].arg
    BY DEF Pending
  <2> HIDE DEF ops
  <2>4. Once(ops)'
    BY <1>1, <2>1, <2>2, <2>3, OnceKept
  <2> QED
    BY <2>4 DEF ops
<1> QED
  BY <1>2, <1>3 DEF FreeOK, Doomed

(* No item that stays closes h. *)
ClosedBy(t, h) ==
    \E u \in Threads : \E i \in DOMAIN work[u] :
        Stays(t, u, i) /\ work[u][i].op \in Closes /\ work[u][i].arg = h

(* Handles being closed: those that stay so stay open. *)
LEMMA CloseKept ==
    ASSUME IInv, NEW t \in Threads, NEW items, Replaced(t, items),
           \A h \in Handles : table[h] # Null => table'[h] # Null \/ ~ClosedBy(t, h),
           \A i \in 1..Len(items) : items[i].op \in Closes => table'[items[i].arg] # Null,
           \A i, j \in 1..Len(items) : items[i].op \in Closes /\ items[j].op \in Closes => i = j,
           \A i \in 1..Len(items) : items[i].op \in Closes => ~ClosedBy(t, items[i].arg)
    PROVE  CloseOK'
<1>1. TypeOK /\ CloseOK
  BY DEF IInv
<1>2. ASSUME NEW u \in Threads, NEW j \in DOMAIN work'[u], work'[u][j].op \in Closes
      PROVE  table'[work'[u][j].arg] # Null
  <2> DEFINE i == Before(t, items, u, j)
  <2>1. \/ u = t /\ j \in 1..Len(items) /\ work'[u][j] = items[j]
        \/ Stays(t, u, i) /\ i \in DOMAIN work[u] /\ work'[u][j] = work[u][i]
    BY <1>1, Origins
  <2> HIDE DEF i
  <2>2. CASE u = t /\ j \in 1..Len(items) /\ work'[u][j] = items[j]
    BY <1>2, <2>2
  <2>3. CASE Stays(t, u, i) /\ i \in DOMAIN work[u] /\ work'[u][j] = work[u][i]
    <3> DEFINE h == work[u][i].arg
    <3>1. work[u][i].op \in Closes
      BY <1>2, <2>3
    <3>2. ClosedBy(t, h)
      BY <2>3, <3>1 DEF ClosedBy
    <3>3. h \in Handles
      <4>1. work[u][i] \in Items
        BY <1>1, <2>3 DEF TypeOK
      <4> QED
        BY <3>1, <4>1, ItemArgs
    <3>4. table[h] # Null
      BY <1>1, <2>3, <3>1 DEF CloseOK
    <3> QED
      BY <2>3, <3>2, <3>3, <3>4
  <2> QED
    BY <2>1, <2>2, <2>3
<1>3. Once(Closes)'
  <2> DEFINE ops == Closes
  <2>1. Once(ops)
    BY <1>1 DEF CloseOK
  <2>2. \A i, j \in 1..Len(items) :
           items[i].op \in ops /\ items[j].op \in ops /\ items[i].arg = items[j].arg => i = j
    OBVIOUS
  <2>3. \A i \in 1..Len(items) : \A u \in Threads : \A j \in DOMAIN work[u] :
           Stays(t, u, j) /\ items[i].op \in ops /\ work[u][j].op \in ops
           => items[i].arg # work[u][j].arg
    BY DEF ClosedBy
  <2> HIDE DEF ops
  <2>4. Once(ops)'
    BY <1>1, <2>1, <2>2, <2>3, OnceKept
  <2> QED
    BY <2>4 DEF ops
<1> QED
  BY <1>2, <1>3 DEF CloseOK

(* Host handles. *)
LEMMA NativeKept ==
    ASSUME IInv, NEW t \in Threads, NEW items, Replaced(t, items),
           \A x \in native' :
              \/ hdr'[x].Registered
              \/ \E i \in 1..Len(items) : items[i] = Item("unregister", x)
              \/ /\ x \in native /\ ~hdr[x].Registered
                 /\ work[t] = <<>> \/ Head(work[t]) # Item("unregister", x)
    PROVE  NativeOK'
<1>1. TypeOK /\ NativeOK
  BY DEF IInv
<1>2. SUFFICES ASSUME NEW x \in native', ~hdr'[x].Registered
               PROVE  \E u \in Threads : Item("unregister", x) \in Range(work'[u])
  BY DEF NativeOK
<1>3. CASE \E i \in 1..Len(items) : items[i] = Item("unregister", x)
  <2>1. PICK i \in 1..Len(items) : items[i] = Item("unregister", x)
    BY <1>3
  <2>2. i \in DOMAIN work'[t] /\ work'[t][i] = items[i]
    BY <1>1, NewThere
  <2> QED
    BY <2>1, <2>2 DEF Range
<1>4. CASE /\ x \in native /\ ~hdr[x].Registered
           /\ work[t] = <<>> \/ Head(work[t]) # Item("unregister", x)
  <2>1. PICK u \in Threads : Item("unregister", x) \in Range(work[u])
    BY <1>1, <1>4 DEF NativeOK
  <2>2. PICK i \in DOMAIN work[u] : work[u][i] = Item("unregister", x)
    BY <2>1 DEF Range
  <2>3. Stays(t, u, i)
    <3>1. work[t] \in Seq(Items)
      BY <1>1 DEF TypeOK
    <3>2. ASSUME u = t, i = 1 PROVE FALSE
      <4>1. work[t] # <<>> /\ Head(work[t]) = work[t][1]
        BY <2>2, <3>1, <3>2, EmptySeq
      <4> QED
        BY <1>4, <2>2, <3>2, <4>1
    <3> QED
      BY <3>2 DEF Stays
  <2>4. \E j \in DOMAIN work'[u] : work'[u][j] = work[u][i]
    BY <1>1, <2>3, StaysThere
  <2> QED
    BY <2>2, <2>4 DEF Range
<1> QED
  BY <1>2, <1>3, <1>4

-----------------------------------------------------------------------------
(* Counts *)

PartsOf(x) ==
    /\ FromHandles(x) \in Nat
    /\ FromName(x) \in Nat
    /\ FromEntries(x) \in Nat
    /\ FromLinks(x) \in Nat
    /\ FromSystem(x) \in Nat
    /\ FromCalls(x) \in Nat
    /\ FromThreads(x) \in Nat
    /\ Refs(x) \in Nat
    /\ Refs(x) = FromHandles(x) + FromName(x) + FromEntries(x) + FromLinks(x) + FromSystem(x)
                 + FromCalls(x) + FromThreads(x)

(* A count of references is the sum of its parts. *)
LEMMA PartsNow == TypeOK => \A x \in Objects : PartsOf(x)
BY Parts DEF PartsOf

(* The same in the next state. *)
LEMMA PartsNext == TypeOK' => \A x \in Objects : PartsOf(x)'
<1>1. TypeOK' => (\A x \in Objects : PartsOf(x))'
  BY PartsNow, PTL
<1> QED
  BY <1>1

(* The references to x that a list of items holds. *)
Gains(items, x) == Cardinality(Occurs(items, HoldSet(x)))

(* An empty list. *)
LEMMA GainsNone == ASSUME NEW x PROVE Gains(<<>>, x) = 0
BY OccursOne DEF Gains

(* A list of one item. *)
LEMMA GainsOne ==
    ASSUME NEW x, NEW a \in Items
    PROVE  Gains(<<a>>, x) = One(Holds(a, x))
<1>1. Cardinality(Occurs(<<a>>, HoldSet(x))) = One(a \in HoldSet(x))
  BY OccursOne
<1>2. a \in HoldSet(x) <=> Holds(a, x)
  BY DEF HoldSet
<1> QED
  BY <1>1, <1>2 DEF Gains, One

(* A list of two. *)
LEMMA GainsTwo ==
    ASSUME NEW x, NEW a \in Items, NEW b \in Items
    PROVE  Gains(<<a, b>>, x) = One(Holds(a, x)) + One(Holds(b, x))
<1>1. Cardinality(Occurs(<<a, b>>, HoldSet(x))) = One(a \in HoldSet(x)) + One(b \in HoldSet(x))
  BY OccursTwo
<1>2. /\ a \in HoldSet(x) <=> Holds(a, x)
      /\ b \in HoldSet(x) <=> Holds(b, x)
  BY DEF HoldSet
<1> QED
  BY <1>1, <1>2 DEF Gains, One

(* A list of three. *)
LEMMA GainsThree ==
    ASSUME NEW x, NEW a \in Items, NEW b \in Items, NEW c \in Items
    PROVE  Gains(<<a, b, c>>, x) = One(Holds(a, x)) + One(Holds(b, x)) + One(Holds(c, x))
<1>1. Cardinality(Occurs(<<a, b, c>>, HoldSet(x)))
        = One(a \in HoldSet(x)) + One(b \in HoldSet(x)) + One(c \in HoldSet(x))
  BY OccursThree
<1>2. /\ a \in HoldSet(x) <=> Holds(a, x)
      /\ b \in HoldSet(x) <=> Holds(b, x)
      /\ c \in HoldSet(x) <=> Holds(c, x)
  BY DEF HoldSet
<1> QED
  BY <1>1, <1>2 DEF Gains, One

(* The reference that the first item of t's list holds. *)
Loses(t, x) == One(HeadHolds(t, x))

(* The references of running calls. *)
LEMMA CallsChange ==
    ASSUME NEW t \in Threads, NEW items, TypeOK, Replaced(t, items), NEW x \in Objects
    PROVE  FromCalls(x)' + Loses(t, x) = FromCalls(x) + Gains(items, x)
BY WorkCount DEF Gains, Loses

(* No object changes its directory. *)
LEMMA NamesSame ==
    ASSUME \A c \in Objects : hdr'[c].Directory = hdr[c].Directory, NEW x \in Objects
    PROVE  FromEntries(x)' = FromEntries(x) /\ FromName(x)' = FromName(x)
<1>1. EntriesOf(x)' = EntriesOf(x)
  BY DEF EntriesOf
<1> QED
  BY <1>1 DEF FromEntries, FromName

(* No link changes its target. *)
LEMMA LinksSame ==
    ASSUME \A c \in Objects : hdr'[c].LinkTarget = hdr[c].LinkTarget, NEW x \in Objects
    PROVE  FromLinks(x)' = FromLinks(x)
<1>1. LinksTo(x)' = LinksTo(x)
  BY DEF LinksTo
<1> QED
  BY <1>1 DEF FromLinks

(* The handle table, the pointers kept and the permanent objects. *)
LEMMA OthersSame ==
    ASSUME NEW x \in Objects
    PROVE  /\ table' = table => FromHandles(x)' = FromHandles(x)
           /\ held' = held => FromThreads(x)' = FromThreads(x)
           /\ FromSystem(x)' = FromSystem(x)
<1>1. table' = table => HandlesOf(x)' = HandlesOf(x)
  BY DEF HandlesOf
<1>2. held' = held => HeldRefs(x)' = HeldRefs(x)
  BY DEF HeldRefs
<1> QED
  BY <1>1, <1>2 DEF FromHandles, FromThreads, FromSystem

-----------------------------------------------------------------------------
(* Objects whose headers a step may change *)

(* An object in use is neither being created nor being freed. *)
LEMMA InUseNotPending ==
    ASSUME IInv, NEW t \in Threads, NEW x, InUse(x)
    PROVE  ~Pending(t, x)
<1>1. hdr[x].PointerCount > 0
  BY InUseCounted
<1>2. FreeOK /\ ~NewObject(x)
  BY DEF IInv, InUse
<1> QED
  BY <1>1, <1>2 DEF Pending, NewObject, FreeOK, IsNew

(* Nor is an object that does not exist. *)
LEMMA FreeNotPending ==
    ASSUME IInv, NEW t \in Threads, NEW x \in Objects, hdr[x].Type = "free"
    PROVE  ~Pending(t, x)
<1>1. hdr[x].PointerCount = 0
  BY DEF IInv, HeadersOK, HeaderOK, Unused
<1>2. FreeOK /\ NewOK
  BY DEF IInv
<1> QED
  BY <1>1, <1>2 DEF Pending, NewOK, FreeOK, IsNew

(* An object is made known by one item. *)
LEMMA NewOnce ==
    ASSUME IInv, NEW t \in Threads, NEW i \in DOMAIN work[t], IsNew(work[t][i]),
           NEW u \in Threads, NEW j \in DOMAIN work[u], IsNew(work[u][j]),
           work[t][i].arg = work[u][j].arg
    PROVE  t = u /\ i = j
<1> DEFINE x == work[t][i].arg
           k == HolderOf(work[t], i)
           l == HolderOf(work[u], j)
<1>1. work[t] \in Seq(Items) /\ work[u] \in Seq(Items) /\ ShapeAt(work[t], i) /\ ShapeAt(work[u], j)
  BY DEF IInv, TypeOK, ShapeOK
<1>2. k \in DOMAIN work[t] /\ Holds(work[t][k], x)
  <2>1. CASE work[t][i].op = "insert"
    BY <1>1, <2>1 DEF ShapeAt, Item, Holds, HolderOf
  <2>2. CASE work[t][i].op = "register"
    BY <1>1, <2>2 DEF ShapeAt, Item, Holds, HolderOf
  <2>3. CASE work[t][i].op = "open"
    BY <2>3 DEF Holds, HolderOf
  <2> QED
    BY <2>1, <2>2, <2>3 DEF IsNew
<1>3. t = u /\ k = l
  <2> HIDE DEF x, k
  <2>1. \A v \in Threads : \A m \in DOMAIN work[v] : Holds(work[v][m], x) => v = u /\ m = l
    <3>1. x = work[u][j].arg
      BY DEF x
    <3> HIDE DEF l
    <3> QED
      BY <3>1, Alone DEF l
  <2> QED
    BY <1>2, <2>1
<1>4. i \in Nat /\ j \in Nat /\ i >= 1 /\ j >= 1
  BY <1>1
<1>5. CASE work[t][i].op = "insert" /\ work[u][j].op = "insert"
  BY <1>3, <1>4, <1>5 DEF HolderOf
<1>6. CASE work[t][i].op = "register" /\ work[u][j].op = "register"
  BY <1>1, <1>3, <1>6 DEF ShapeAt
<1>7. CASE work[t][i].op = "register" /\ work[u][j].op = "insert"
  BY <1>1, <1>3, <1>4, <1>7 DEF ShapeAt, Item, HolderOf
<1>8. CASE work[t][i].op = "insert" /\ work[u][j].op = "register"
  BY <1>1, <1>3, <1>4, <1>8 DEF ShapeAt, Item, HolderOf
<1>9. CASE work[t][i].op = "open"
  <2>1. Len(work[t]) = 1
    BY <1>1, <1>9 DEF ShapeAt
  <2> QED
    BY <1>1, <1>3, <2>1
<1>10. CASE work[u][j].op = "open"
  <2>1. Len(work[u]) = 1
    BY <1>1, <1>10 DEF ShapeAt
  <2> QED
    BY <1>1, <1>3, <2>1
<1> QED
  BY <1>5, <1>6, <1>7, <1>8, <1>9, <1>10 DEF IsNew

-----------------------------------------------------------------------------
(* Names *)

Found(x) == x # Null => InUse(x)

(* What a directory entry leads to is in use. *)
LEMMA TargetInUse ==
    ASSUME IInv, NEW o \in Objects, hdr[o].Directory # Null
    PROVE  /\ InUse(o)
           /\ Target(o) \in Objects
           /\ Target(o) # Null
           /\ InUse(Target(o))
<1>1. TypeOK /\ HeadersOK
  BY DEF IInv
<1>2. InUse(o)
  BY NamedInUse
<1>3. hdr[o].PointerCount > 0
  BY <1>2, InUseCounted
<1>4. CASE hdr[o].Type = "SymbolicLink"
  <2>1. hdr[o].LinkTarget # Null
    BY <1>1, <1>3, <1>4 DEF HeadersOK, HeaderOK
  <2>2. hdr[o].LinkTarget \in Objects
    BY <1>1, <2>1 DEF TypeOK, Headers
  <2>3. InUse(hdr[o].LinkTarget)
    BY <2>2, NamedInUse
  <2> QED
    BY <1>2, <1>4, <2>1, <2>2, <2>3 DEF Target
<1>5. CASE hdr[o].Type # "SymbolicLink"
  <2>1. o # Null
    BY ObAssumption
  <2> QED
    BY <1>2, <1>5, <2>1 DEF Target
<1> QED
  BY <1>4, <1>5

(* Searching a directory: what is found is in use, and when nothing is found with links     *)
(* resolved there is no entry of that name.                                                *)
LEMMA LookupSafe ==
    ASSUME IInv, NEW d \in Objects, NEW n \in Names, NEW resolve \in BOOLEAN
    PROVE  /\ ObpLookupElementNameInDirectory(d, n, resolve) \in Objects \cup {Null}
           /\ Found(ObpLookupElementNameInDirectory(d, n, resolve))
           /\ ObpLookupElementNameInDirectory(d, n, resolve) = Null => Entries(d, n) = {}
<1> DEFINE o == CHOOSE e \in Entries(d, n) : TRUE
           r == ObpLookupElementNameInDirectory(d, n, resolve)
<1>1. TypeOK /\ DriveMapFresh
  BY DEF IInv
<1>2. Entries(d, n) # {} => o \in Objects /\ hdr[o].Directory = d
  BY DEF Entries
<1>3. d # Null
  BY ObAssumption
<1>4. Entries(d, n) # {} => /\ InUse(o)
                            /\ Target(o) \in Objects
                            /\ Target(o) # Null
                            /\ InUse(Target(o))
                            /\ o # Null
  <2> HIDE DEF o
  <2>1. o \in Objects => o # Null
    BY ObAssumption
  <2> QED
    BY <1>2, <1>3, <2>1, TargetInUse
<1>5. CASE d = Dos /\ resolve /\ n \in DriveNames /\ drive[n] # Null
  <2>1. r = drive[n]
    BY <1>5 DEF ObpLookupElementNameInDirectory
  <2>2. drive[n] = IF Entries(d, n) = {} THEN Null ELSE Target(o)
    BY <1>1, <1>5 DEF DriveMapFresh
  <2> HIDE DEF o, r
  <2>3. Entries(d, n) # {} /\ r = Target(o)
    BY <1>5, <2>1, <2>2
  <2> QED
    BY <1>4, <2>3 DEF Found, r
<1>6. CASE ~(d = Dos /\ resolve /\ n \in DriveNames /\ drive[n] # Null)
  <2>1. r = IF Entries(d, n) = {} THEN Null ELSE IF resolve THEN Target(o) ELSE o
    BY <1>6 DEF ObpLookupElementNameInDirectory
  <2> HIDE DEF o, r
  <2>2. r \in Objects \cup {Null} /\ Found(r) /\ (r = Null => Entries(d, n) = {})
    BY <1>2, <1>4, <2>1 DEF Found
  <2> QED
    BY <2>2 DEF r
<1> QED
  BY <1>5, <1>6

(* There is a walk along every path. *)
LEMMA WalkExists ==
    ASSUME IInv, NEW path \in Paths
    PROVE  \E walk \in [1..Len(path) -> Objects \cup {Null}] : IsWalk(walk, path)
<1> DEFINE V == Objects \cup {Null}
           next(v, i) == IF IsDirectory(v) THEN ObpLookupElementNameInDirectory(v, path[i], TRUE) ELSE Null
           W(n) == \E walk \in [1..n -> V] :
                      walk[1] = Dos /\ \A i \in 1..n - 1 : walk[i + 1] = next(walk[i], i)
           Bad == {n \in Nat : n \in 1..Len(path) /\ ~W(n)}
<1>1. path \in Seq(Names) /\ Len(path) \in Nat /\ Len(path) >= 1
  <2>1. path \in Seq(Names) /\ path # <<>>
    BY ObAssumption
  <2> QED
    BY <2>1, EmptySeq
<1>2. \A v \in V, i \in 1..Len(path) : next(v, i) \in V
  <2> TAKE v \in V, i \in 1..Len(path)
  <2>1. CASE IsDirectory(v)
    <3>1. v \in Objects /\ path[i] \in Names
      BY <1>1, <2>1 DEF IsDirectory
    <3> QED
      BY <2>1, <3>1, LookupSafe
  <2>2. CASE ~IsDirectory(v)
    BY <2>2
  <2> QED
    BY <2>1, <2>2
<1> HIDE DEF next
<1>3. W(1)
  <2> DEFINE f == [i \in 1..1 |-> Dos]
  <2>1. f \in [1..1 -> V] /\ f[1] = Dos
    BY DEF Objects
  <2> HIDE DEF f, V
  <2> QED
    BY <2>1
<1>4. ASSUME NEW n \in Nat, n >= 1, n + 1 <= Len(path), W(n) PROVE W(n + 1)
  <2>1. PICK f \in [1..n -> V] : f[1] = Dos /\ \A i \in 1..n - 1 : f[i + 1] = next(f[i], i)
    BY <1>4
  <2> DEFINE g == [i \in 1..n + 1 |-> IF i = n + 1 THEN next(f[n], n) ELSE f[i]]
  <2> HIDE DEF V
  <2>2. next(f[n], n) \in V
    <3>1. n \in 1..n /\ n \in 1..Len(path)
      BY <1>1, <1>4
    <3>2. f[n] \in V
      BY <2>1, <3>1
    <3> QED
      BY <1>2, <3>1, <3>2
  <2>3. g \in [1..n + 1 -> V]
    BY <2>1, <2>2
  <2>4. g[1] = Dos /\ \A i \in 1..(n + 1) - 1 : g[i + 1] = next(g[i], i)
    <3>1. g[1] = Dos
      BY <1>4, <2>1
    <3>2. ASSUME NEW i \in 1..(n + 1) - 1 PROVE g[i + 1] = next(g[i], i)
      <4>1. CASE i = n
        BY <1>4, <4>1
      <4>2. CASE i # n
        <5>1. i \in 1..n - 1 /\ g[i] = f[i] /\ g[i + 1] = f[i + 1]
          BY <1>4, <4>2
        <5> QED
          BY <2>1, <5>1
      <4> QED
        BY <4>1, <4>2
    <3> QED
      BY <3>1, <3>2
  <2> HIDE DEF g
  <2> QED
    BY <2>3, <2>4
<1>5. Bad = {}
  <2> HIDE DEF W
  <2> SUFFICES ASSUME Bad # {} PROVE FALSE
    OBVIOUS
  <2>1. PICK n \in Bad : \A m \in Bad : n <= m
    <3>1. Bad \subseteq Nat
      OBVIOUS
    <3> HIDE DEF Bad
    <3>2. PICK n \in Bad : \A m \in Bad : ~(<<m, n>> \in OpToRel(<, Nat))
      BY <3>1, NatLessThanWellFounded, WFMin
    <3>3. \A m \in Bad : ~(m < n)
      BY <3>1, <3>2 DEF OpToRel
    <3> QED
      BY <3>1, <3>3
  <2>2. n # 1
    BY <1>3
  <2>3. n - 1 \in Nat /\ n - 1 >= 1 /\ n - 1 \in 1..Len(path) /\ n - 1 \notin Bad
    BY <1>1, <2>1, <2>2
  <2>4. W(n - 1)
    BY <2>3
  <2>5. W((n - 1) + 1)
    BY <1>1, <1>4, <2>3, <2>4
  <2> QED
    BY <2>5
<1>6. W(Len(path))
  BY <1>1, <1>5
<1> QED
  BY <1>6 DEF IsWalk, next

(* The directory at the end of a path is in use. *)
LEMMA ParentSafe ==
    ASSUME IInv, NEW path \in Paths
    PROVE  Parent(path) \in Objects \cup {Null} /\ Found(Parent(path)) /\ Last(path) \in Names
<1> DEFINE walk == CHOOSE w \in [1..Len(path) -> Objects \cup {Null}] : IsWalk(w, path)
           n == Len(path)
<1>1. path \in Seq(Names) /\ n \in Nat /\ n >= 1
  <2>1. path \in Seq(Names) /\ path # <<>>
    BY ObAssumption
  <2> QED
    BY <2>1, EmptySeq
<1>2. walk \in [1..n -> Objects \cup {Null}] /\ IsWalk(walk, path)
  BY WalkExists
<1>3. Parent(path) = walk[n]
  BY DEF Parent
<1> HIDE DEF walk
<1>4. walk[n] \in Objects \cup {Null}
  BY <1>1, <1>2
<1>5. Found(walk[n])
  <2>1. CASE n = 1
    <3>1. walk[n] = Dos /\ Dos \in Objects
      BY <1>2, <2>1 DEF IsWalk, Objects
    <3>2. InUse(Dos)
      BY <3>1, NamedInUse
    <3> QED
      BY <3>1, <3>2 DEF Found
  <2>2. CASE n # 1
    <3> DEFINE v == walk[n - 1]
               e == path[n - 1]
    <3>1. n - 1 \in 1..n - 1 /\ n - 1 \in 1..n /\ (n - 1) + 1 = n
      <4> HIDE DEF n
      <4> QED
        BY <1>1, <2>2
    <3>2. walk[n] = IF IsDirectory(v) THEN ObpLookupElementNameInDirectory(v, e, TRUE) ELSE Null
      BY <1>2, <3>1 DEF IsWalk
    <3>3. v \in Objects \cup {Null} /\ e \in Names
      BY <1>1, <1>2, <3>1
    <3> HIDE DEF v, e
    <3>4. CASE IsDirectory(v)
      <4>1. v \in Objects
        BY <3>3, <3>4 DEF IsDirectory
      <4>2. Found(ObpLookupElementNameInDirectory(v, e, TRUE))
        BY <3>3, <4>1, LookupSafe
      <4> QED
        BY <3>2, <3>4, <4>2
    <3>5. CASE ~IsDirectory(v)
      BY <3>2, <3>5 DEF Found
    <3> QED
      BY <3>4, <3>5
  <2> QED
    BY <2>1, <2>2
<1>6. Last(path) \in Names
  BY <1>1 DEF Last
<1> QED
  BY <1>3, <1>4, <1>5, <1>6

(* What a path leads to is in use; a path that leads to nothing has no entry in its         *)
(* directory.                                                                               *)
LEMMA FindSafe ==
    ASSUME IInv, NEW path \in Paths, NEW resolve \in BOOLEAN
    PROVE  /\ Find(path, resolve) \in Objects \cup {Null}
           /\ Found(Find(path, resolve))
           /\ IsDirectory(Parent(path)) /\ Find(path, resolve) = Null
                => Entries(Parent(path), Last(path)) = {}
<1> DEFINE d == Parent(path)
           n == Last(path)
           r == Find(path, resolve)
<1>1. d \in Objects \cup {Null} /\ n \in Names
  BY ParentSafe
<1>2. CASE IsDirectory(d)
  <2>1. r = ObpLookupElementNameInDirectory(d, n, resolve)
    BY <1>2 DEF Find
  <2>2. d \in Objects
    BY <1>1, <1>2 DEF IsDirectory
  <2> HIDE DEF d, n, r
  <2>3. r \in Objects \cup {Null} /\ Found(r) /\ (r = Null => Entries(d, n) = {})
    BY <1>1, <2>1, <2>2, LookupSafe
  <2> QED
    BY <2>3 DEF d, n, r
<1>3. CASE ~IsDirectory(d)
  <2>1. r = Null
    BY <1>3 DEF Find
  <2> QED
    BY <1>3, <2>1 DEF Found
<1> QED
  BY <1>2, <1>3

-----------------------------------------------------------------------------
(* The handle table *)

Used == {h \in Handles : table[h] # Null}

(* The part of HandleTableSound that is not about objects. *)
ChainOK ==
    /\ IsInjective(free)
    /\ Used \cap Range(free) = {}
    /\ Used \cup Range(free) = {h \in Handles : h < tables * HandlesPerTable}

(* The handle count of an object is its part of the references. *)
LEMMA TableParts ==
    HandleTableSound <=> ChainOK /\ \A o \in Objects : hdr[o].HandleCount = FromHandles(o)
<1>1. \A o \in Objects : {h \in Used : table[h] = o} = HandlesOf(o)
  BY ObAssumption DEF Used, HandlesOf
<1> QED
  BY <1>1 DEF HandleTableSound, ChainOK, FromHandles, Used

(* The same in the next state. *)
LEMMA TablePartsNext ==
    HandleTableSound' <=> ChainOK' /\ \A o \in Objects : hdr'[o].HandleCount = FromHandles(o)'
<1>1. HandleTableSound' <=> ChainOK' /\ (\A o \in Objects : hdr[o].HandleCount = FromHandles(o))'
  BY TableParts, PTL
<1> QED
  BY <1>1

(* A new handle table: entries that no table had before. *)
LEMMA ExtendedFreeIs ==
    ASSUME tables \in 0..MaxTables - 1, NEW e, e = ExtendedFree
    PROVE  /\ e \in Seq(Handles)
           /\ e # <<>>
           /\ IsInjective(e)
           /\ \A h \in Range(e) : h >= tables * HandlesPerTable
           /\ \A h \in Handles : h < (tables + 1) * HandlesPerTable =>
                 h \in Range(e) \/ h < tables * HandlesPerTable
           /\ \A h \in Range(e) : h < (tables + 1) * HandlesPerTable
<1> DEFINE H == HandlesPerTable
           b == tables * H
           top == (tables + 1) * H
           first == IF tables = 0 THEN 1 ELSE 0
           n == H - first
<1>1. H \in Nat /\ H >= 2 /\ MaxTables \in Nat /\ tables \in Nat /\ tables + 1 <= MaxTables
  BY ObAssumption
<1>2. b \in Nat /\ top = b + H /\ top \in Nat
  BY <1>1
<1>3. top <= H * MaxTables
  BY <1>1
<1>4. H * MaxTables \in Nat
  BY <1>1
<1>5. tables = 0 => b = 0
  BY <1>1
<1>6. tables # 0 => b >= H
  BY <1>1
<1>7. e = [i \in 1..n |-> b + first + i - 1]
  BY DEF ExtendedFree
<1> DEFINE m == H * MaxTables
<1>8. Handles = 1..m - 1
  BY DEF Handles
<1> HIDE DEF H, b, top, m
<1>9. n \in Nat /\ n >= 1 /\ first \in {0, 1}
  BY <1>1
<1>10. \A i \in 1..n : b + first + i - 1 \in 1..m - 1
  <2> TAKE i \in 1..n
  <2>1. b + first + i - 1 <= b + H - 1
    BY <1>1, <1>2, <1>9
  <2>2. b + first + i - 1 >= 1
    BY <1>1, <1>2, <1>5, <1>6, <1>9
  <2> QED
    BY <1>1, <1>2, <1>3, <1>4, <1>9, <2>1, <2>2 DEF m
<1>11. e \in [1..n -> Handles]
  BY <1>7, <1>8, <1>10
<1>12. e \in Seq(Handles)
  BY <1>9, <1>11
<1>13. e # <<>>
  BY <1>9, <1>11
<1>14. DOMAIN e = 1..n /\ \A i \in 1..n : e[i] = b + first + i - 1
  BY <1>7
<1>15. IsInjective(e)
  BY <1>2, <1>9, <1>14 DEF IsInjective
<1>16. \A h \in Range(e) : h >= b /\ h < top
  BY <1>1, <1>2, <1>9, <1>14 DEF Range
<1>17. ASSUME NEW h \in Handles, h < top, ~(h < b) PROVE h \in Range(e)
  <2> DEFINE i == h - b - first + 1
  <2>1. h \in Nat /\ h >= 1
    BY <1>4, <1>8 DEF m
  <2>2. i \in 1..n
    BY <1>1, <1>2, <1>5, <1>9, <1>17, <2>1
  <2>3. e[i] = h
    BY <1>2, <1>9, <1>14, <2>1, <2>2
  <2> HIDE DEF i
  <2> QED
    BY <1>14, <2>2, <2>3 DEF Range
<1> QED
  BY <1>12, <1>13, <1>15, <1>16, <1>17 DEF b, top, H

(* ObpCreateObjectHandle takes an entry that was not in use. *)
LEMMA HandleCreated ==
    ASSUME IInv, NEW o \in Objects, HandlesLeft, ObpCreateObjectHandle(o)
    PROVE  /\ \E h \in Handles : table[h] = Null /\ table' = [table EXCEPT ![h] = o]
           /\ free' \in Seq(Handles)
           /\ tables' \in 0..MaxTables
           /\ ChainOK'
<1> DEFINE H == HandlesPerTable
           chain == IF free = <<>> THEN ExtendedFree ELSE free
           k == Head(chain)
           n == IF free = <<>> THEN tables + 1 ELSE tables
<1>1. /\ table \in [Handles -> Objects \cup {Null}]
      /\ free \in Seq(Handles)
      /\ tables \in Nat /\ tables <= MaxTables
      /\ MaxTables \in Nat /\ H \in Nat
  BY ObAssumption DEF IInv, TypeOK
<1>2. ChainOK
  BY TableParts DEF IInv
<1>3. table' = [table EXCEPT ![k] = o] /\ free' = Tail(chain) /\ tables' = n
  BY DEF ObpCreateObjectHandle
<1>4. n \in 0..MaxTables
  BY <1>1 DEF HandlesLeft
<1>5. o # Null
  BY ObAssumption
<1>6. /\ chain \in Seq(Handles)
      /\ chain # <<>>
      /\ IsInjective(chain)
      /\ Used \cap Range(chain) = {}
      /\ Used \cup Range(chain) = {h \in Handles : h < n * H}
  <2>1. CASE free # <<>>
    BY <1>1, <1>2, <2>1 DEF ChainOK
  <2>2. CASE free = <<>>
    <3> DEFINE e == ExtendedFree
    <3>1. tables \in 0..MaxTables - 1
      BY <1>1, <2>2 DEF HandlesLeft
    <3>2. Range(free) = {}
      BY <2>2 DEF Range
    <3>3. Used = {h \in Handles : h < tables * H}
      BY <1>2, <3>2 DEF ChainOK
    <3>4. chain = e /\ n = tables + 1
      BY <2>2
    <3> HIDE DEF e
    <3>5. /\ e \in Seq(Handles)
          /\ e # <<>>
          /\ IsInjective(e)
          /\ \A h \in Range(e) : h >= tables * H
          /\ \A h \in Handles : h < (tables + 1) * H => h \in Range(e) \/ h < tables * H
          /\ \A h \in Range(e) : h < (tables + 1) * H
      BY <3>1, ExtendedFreeIs DEF e
    <3>6. Range(e) \subseteq Handles
      BY <3>5 DEF Range
    <3> DEFINE b == tables * H
               c == (tables + 1) * H
    <3>7. b \in Nat /\ c = b + H
      BY <1>1
    <3>8. \A h \in Handles : h \in Int
      BY ObAssumption DEF Handles
    <3> HIDE DEF b, c
    <3>9. \A h \in Handles : h < b => h < c
      BY <1>1, <3>7, <3>8
    <3>10. Used \cap Range(e) = {}
      BY <3>3, <3>5, <3>6, <3>7, <3>8 DEF b
    <3>11. Used \cup Range(e) = {h \in Handles : h < c}
      BY <3>3, <3>5, <3>6, <3>9 DEF b, c
    <3> QED
      BY <3>4, <3>5, <3>10, <3>11 DEF c
  <2> QED
    BY <2>1, <2>2
<1> HIDE DEF chain, n, H
<1>7. Range(chain) = ToSet(chain) /\ Range(Tail(chain)) = ToSet(Tail(chain))
  BY DEF Range, ToSet
<1>8. /\ k \in Handles
      /\ k \in Range(chain)
      /\ Tail(chain) \in Seq(Handles)
      /\ IsInjective(Tail(chain))
      /\ Range(Tail(chain)) = Range(chain) \ {k}
  BY <1>6, <1>7, TailLinked
<1>9. table[k] = Null
  BY <1>6, <1>8 DEF Used
<1> HIDE DEF k
<1>10. Used' = Used \cup {k}
  BY <1>1, <1>3, <1>5, <1>8 DEF Used
<1>11. ChainOK'
  <2>1. IsInjective(free') /\ Range(free') = Range(chain) \ {k}
    BY <1>3, <1>8
  <2>2. Used' \cap Range(free') = {}
    BY <1>6, <1>10, <2>1
  <2>3. Used' \cup Range(free') = {h \in Handles : h < n * H}
    BY <1>6, <1>8, <1>10, <2>1
  <2> QED
    BY <1>3, <2>1, <2>2, <2>3 DEF ChainOK, H
<1> QED
  BY <1>3, <1>4, <1>8, <1>9, <1>11

(* ObpDestroyObjectHandle puts an entry back. *)
LEMMA HandleDestroyed ==
    ASSUME IInv, NEW h \in Handles, table[h] # Null, ObpDestroyObjectHandle(h)
    PROVE  /\ table' \in [Handles -> Objects \cup {Null}]
           /\ free' \in Seq(Handles)
           /\ tables' = tables
           /\ ChainOK'
<1> DEFINE e == <<h>>
           r == e \o free
<1>1. /\ table \in [Handles -> Objects \cup {Null}]
      /\ free \in Seq(Handles)
  BY DEF IInv, TypeOK
<1>2. ChainOK
  BY TableParts DEF IInv
<1>3. table' = [table EXCEPT ![h] = Null] /\ free' = r /\ tables' = tables
  BY DEF ObpDestroyObjectHandle
<1>4. e \in Seq(Handles) /\ Len(e) = 1 /\ e[1] = h
  OBVIOUS
<1> HIDE DEF e
<1>5. /\ r \in Seq(Handles)
      /\ Len(r) = 1 + Len(free)
      /\ \A i \in 1..1 + Len(free) : r[i] = IF i <= 1 THEN e[i] ELSE free[i - 1]
  <2>1. /\ r \in Seq(Handles)
        /\ Len(r) = Len(e) + Len(free)
        /\ \A i \in 1..Len(e) + Len(free) : r[i] = IF i <= Len(e) THEN e[i] ELSE free[i - Len(e)]
    BY <1>1, <1>4, ConcatProperties
  <2> HIDE DEF r
  <2> QED
    BY <1>4, <2>1
<1> HIDE DEF r
<1>6. h \in Used /\ h \notin Range(free)
  BY <1>2 DEF Used, ChainOK
<1>7. /\ DOMAIN r = 1..1 + Len(free) /\ DOMAIN free = 1..Len(free) /\ Len(free) \in Nat
      /\ r[1] = h
      /\ \A i \in 2..1 + Len(free) : i - 1 \in DOMAIN free /\ r[i] = free[i - 1]
  BY <1>1, <1>4, <1>5
<1>8. IsInjective(r)
  <2> SUFFICES ASSUME NEW i \in DOMAIN r, NEW j \in DOMAIN r, r[i] = r[j] PROVE i = j
    BY DEF IsInjective
  <2>1. i = 1 \/ i \in 2..1 + Len(free)
    BY <1>7
  <2>2. j = 1 \/ j \in 2..1 + Len(free)
    BY <1>7
  <2>3. CASE i \in 2..1 + Len(free) /\ j \in 2..1 + Len(free)
    <3>1. i - 1 \in DOMAIN free /\ j - 1 \in DOMAIN free /\ free[i - 1] = free[j - 1]
      BY <1>7, <2>3
    <3>2. i - 1 = j - 1
      BY <1>2, <3>1 DEF ChainOK, IsInjective
    <3> QED
      BY <1>7, <2>3, <3>2
  <2>4. CASE i = 1 /\ j \in 2..1 + Len(free)
    BY <1>6, <1>7, <2>4 DEF Range
  <2>5. CASE j = 1 /\ i \in 2..1 + Len(free)
    BY <1>6, <1>7, <2>5 DEF Range
  <2> QED
    BY <2>1, <2>2, <2>3, <2>4, <2>5
<1>9. Range(r) = Range(free) \cup {h}
  <2>1. ASSUME NEW x \in Range(r) PROVE x \in Range(free) \cup {h}
    <3>1. PICK i \in DOMAIN r : x = r[i]
      BY DEF Range
    <3>2. i = 1 \/ i \in 2..1 + Len(free)
      BY <1>7
    <3> QED
      BY <1>7, <3>1, <3>2 DEF Range
  <2>2. ASSUME NEW x \in Range(free) PROVE x \in Range(r)
    <3>1. PICK i \in DOMAIN free : x = free[i]
      BY DEF Range
    <3>2. i + 1 \in 2..1 + Len(free) /\ (i + 1) - 1 = i
      BY <1>7
    <3>3. r[i + 1] = x /\ i + 1 \in DOMAIN r
      BY <1>7, <3>1, <3>2
    <3> QED
      BY <3>3 DEF Range
  <2>3. h \in Range(r)
    BY <1>7 DEF Range
  <2> QED
    BY <2>1, <2>2, <2>3
<1>10. Used' = Used \ {h}
  BY <1>1, <1>3 DEF Used
<1>11. ChainOK'
  <2>1. IsInjective(free') /\ Range(free') = Range(free) \cup {h}
    BY <1>3, <1>8, <1>9
  <2>2. Used' \cap Range(free') = {}
    BY <1>2, <1>10, <2>1 DEF ChainOK
  <2>3. Used' \cup Range(free') = Used \cup Range(free)
    BY <1>6, <1>10, <2>1
  <2> QED
    BY <1>2, <1>3, <2>1, <2>2, <2>3 DEF ChainOK
<1> QED
  BY <1>1, <1>3, <1>5, <1>11

-----------------------------------------------------------------------------
(* Names and drive letters, as properties of any headers *)

EntriesIn(H, d, n) == {o \in Objects : H[o].Directory = d /\ H[o].Name = n}

TargetIn(H, o) == IF H[o].Type = "SymbolicLink" THEN H[o].LinkTarget ELSE o

NameIn(H, o) ==
    H[o].Directory # Null => /\ H[H[o].Directory].Type = "Directory"
                             /\ EntriesIn(H, H[o].Directory, H[o].Name) = {o}
                             /\ H[o].HandleCount > 0 \/ "PERMANENT" \in H[o].Flags

NamesIn(H) == \A o \in Objects : NameIn(H, o)

LetterIn(H, n) ==
    IF EntriesIn(H, Dos, n) = {} THEN Null
    ELSE TargetIn(H, CHOOSE o \in EntriesIn(H, Dos, n) : TRUE)

DriveIn(H, D) == \A n \in DriveNames : D[n] = LetterIn(H, n)

(* They are the properties of the model. *)
LEMMA NamesAre ==
    /\ NamesSound <=> NamesIn(hdr)
    /\ DriveMapFresh <=> DriveIn(hdr, drive)
    /\ NamesSound' <=> NamesIn(hdr')
    /\ DriveMapFresh' <=> DriveIn(hdr', drive')
BY DEF NamesSound, DriveMapFresh, NamesIn, NameIn, DriveIn, LetterIn, Entries, Target, EntriesIn, TargetIn

(* Objects are in the same directories under the same names. *)
SameNames(H, G) ==
    \A c \in Objects : /\ G[c].Directory = H[c].Directory
                       /\ H[c].Directory # Null => G[c].Name = H[c].Name

(* Directories keep their entries, and entries stay open or permanent. *)
LEMMA NamesKept ==
    ASSUME NEW H \in [Objects -> Headers], NEW G, NamesIn(H), SameNames(H, G),
           \A c \in Objects : H[c].Directory # Null => G[H[c].Directory].Type = "Directory",
           \A c \in Objects :
              H[c].Directory # Null => G[c].HandleCount > 0 \/ "PERMANENT" \in G[c].Flags
    PROVE  NamesIn(G)
<1>1. \A d, n : d # Null => EntriesIn(G, d, n) = EntriesIn(H, d, n)
  BY DEF EntriesIn, SameNames
<1>2. SUFFICES ASSUME NEW o \in Objects, G[o].Directory # Null PROVE NameIn(G, o)
  BY DEF NamesIn, NameIn
<1>3. G[o].Directory = H[o].Directory /\ G[o].Name = H[o].Name
  BY <1>2 DEF SameNames
<1>4. NameIn(H, o)
  BY DEF NamesIn
<1> QED
  BY <1>1, <1>2, <1>3, <1>4 DEF NameIn

(* The drive letters lead where they did. *)
LEMMA DriveKept ==
    ASSUME NEW H, NEW G, NEW D, DriveIn(H, D), SameNames(H, G),
           \A c \in Objects :
              H[c].Directory # Null => G[c].Type = H[c].Type /\ G[c].LinkTarget = H[c].LinkTarget
    PROVE  DriveIn(G, D)
<1>1. SUFFICES ASSUME NEW n \in DriveNames PROVE D[n] = LetterIn(G, n)
  BY DEF DriveIn
<1>2. Dos # Null
  BY ObAssumption DEF Objects
<1>3. EntriesIn(G, Dos, n) = EntriesIn(H, Dos, n)
  BY <1>2 DEF EntriesIn, SameNames
<1>4. D[n] = LetterIn(H, n)
  BY DEF DriveIn
<1> DEFINE E == EntriesIn(H, Dos, n)
           e == CHOOSE o \in E : TRUE
<1>5. E # {} => e \in E
  OBVIOUS
<1>6. E # {} => e \in Objects /\ H[e].Directory # Null
  BY <1>2, <1>5 DEF EntriesIn
<1>7. LetterIn(H, n) = IF E = {} THEN Null ELSE TargetIn(H, e)
  BY DEF LetterIn
<1>8. LetterIn(G, n) = IF E = {} THEN Null ELSE TargetIn(G, e)
  BY <1>3 DEF LetterIn
<1> HIDE DEF E, e
<1>9. E # {} => TargetIn(G, e) = TargetIn(H, e)
  BY <1>6 DEF TargetIn
<1> QED
  BY <1>4, <1>7, <1>8, <1>9

(* ObpDetachNamedObject: the other names stay. *)
LEMMA NamesDetached ==
    ASSUME NEW H \in [Objects -> Headers], NEW G, NamesIn(H), NEW o \in Objects,
           G[o].Directory = Null, G[o].Type = H[o].Type,
           \A c \in Objects \ {o} : G[c] = H[c]
    PROVE  NamesIn(G)
<1>1. SUFFICES ASSUME NEW c \in Objects, G[c].Directory # Null PROVE NameIn(G, c)
  BY DEF NamesIn, NameIn
<1>2. c # o /\ G[c] = H[c]
  BY <1>1
<1> DEFINE d == H[c].Directory
           n == H[c].Name
<1>3. /\ H[d].Type = "Directory" /\ EntriesIn(H, d, n) = {c}
      /\ H[c].HandleCount > 0 \/ "PERMANENT" \in H[c].Flags
      /\ d # Null
  BY <1>1, <1>2 DEF NamesIn, NameIn
<1>4. d \in Objects
  BY <1>3 DEF Headers
<1> HIDE DEF d, n
<1>5. G[d].Type = "Directory"
  BY <1>3, <1>4
<1>6. EntriesIn(G, d, n) = {c}
  <2>1. \A x \in Objects : x \in EntriesIn(G, d, n) <=> x \in EntriesIn(H, d, n)
    <3> TAKE x \in Objects
    <3>1. CASE x = o
      BY <1>2, <1>3, <3>1 DEF EntriesIn
    <3>2. CASE x # o
      BY <3>2 DEF EntriesIn
    <3> QED
      BY <3>1, <3>2
  <2> QED
    BY <1>3, <2>1 DEF EntriesIn
<1> QED
  BY <1>2, <1>3, <1>5, <1>6 DEF NameIn, d, n

(* Its drive letter goes with the name. *)
LEMMA DriveDetached ==
    ASSUME NEW H \in [Objects -> Headers], NEW G, NamesIn(H), NEW o \in Objects,
           G[o].Directory = Null,
           \A c \in Objects \ {o} : G[c] = H[c],
           NEW D \in [DriveNames -> Objects \cup {Null}], DriveIn(H, D), NEW C,
           C = IF H[o].Directory = Dos /\ H[o].Name \in DriveNames
               THEN [D EXCEPT ![H[o].Name] = Null] ELSE D
    PROVE  C \in [DriveNames -> Objects \cup {Null}] /\ DriveIn(G, C)
<1>1. C \in [DriveNames -> Objects \cup {Null}]
  OBVIOUS
<1>2. SUFFICES ASSUME NEW n \in DriveNames PROVE C[n] = LetterIn(G, n)
  BY <1>1 DEF DriveIn
<1>3. Dos \in Objects /\ Dos # Null
  BY ObAssumption DEF Objects
<1>4. D[n] = LetterIn(H, n)
  BY DEF DriveIn
<1>5. CASE H[o].Directory = Dos /\ H[o].Name = n
  <2>1. EntriesIn(H, Dos, n) = {o}
    BY <1>3, <1>5 DEF NamesIn, NameIn
  <2>2. EntriesIn(G, Dos, n) = {}
    <3> SUFFICES ASSUME NEW x \in EntriesIn(G, Dos, n) PROVE FALSE
      OBVIOUS
    <3>1. x \in Objects /\ G[x].Directory = Dos /\ G[x].Name = n
      BY DEF EntriesIn
    <3>2. x # o
      BY <1>3, <3>1
    <3>3. x \in EntriesIn(H, Dos, n)
      BY <3>1, <3>2 DEF EntriesIn
    <3> QED
      BY <2>1, <3>2, <3>3
  <2>3. C[n] = Null
    BY <1>5
  <2> QED
    BY <2>2, <2>3 DEF LetterIn
<1>6. CASE ~(H[o].Directory = Dos /\ H[o].Name = n)
  <2> DEFINE E == EntriesIn(H, Dos, n)
             e == CHOOSE x \in E : TRUE
  <2>1. o \notin E
    BY <1>6 DEF EntriesIn
  <2>2. EntriesIn(G, Dos, n) = E
    <3>1. \A x \in Objects : x \in EntriesIn(G, Dos, n) <=> x \in E
      <4> TAKE x \in Objects
      <4>1. CASE x = o
        BY <1>3, <2>1, <4>1 DEF EntriesIn
      <4>2. CASE x # o
        BY <4>2 DEF EntriesIn
      <4> QED
        BY <4>1, <4>2
    <3> QED
      BY <3>1 DEF EntriesIn
  <2>3. C[n] = D[n]
    BY <1>6
  <2>4. E # {} => e \in E
    OBVIOUS
  <2>5. LetterIn(H, n) = IF E = {} THEN Null ELSE TargetIn(H, e)
    BY DEF LetterIn
  <2>6. LetterIn(G, n) = IF E = {} THEN Null ELSE TargetIn(G, e)
    BY <2>2 DEF LetterIn
  <2>7. E \subseteq Objects
    BY DEF EntriesIn
  <2> HIDE DEF E, e
  <2>8. E # {} => G[e] = H[e]
    BY <2>1, <2>4, <2>7
  <2>9. E # {} => TargetIn(G, e) = TargetIn(H, e)
    BY <2>8 DEF TargetIn
  <2> QED
    BY <1>4, <2>3, <2>5, <2>6, <2>9
<1> QED
  BY <1>5, <1>6

(* A new entry of a directory: its name was free. *)
Attached(H, G, o, d, n) ==
    /\ o \in Objects /\ d \in Objects
    /\ H[o].Directory = Null
    /\ H[d].Type = "Directory"
    /\ EntriesIn(H, d, n) = {}
    /\ G[o].Directory = d /\ G[o].Name = n /\ G[o].HandleCount > 0
    /\ \A c \in Objects : G[c].Type = H[c].Type /\ G[c].LinkTarget = H[c].LinkTarget
    /\ \A c \in Objects \ {o} : /\ G[c].Directory = H[c].Directory
                                /\ G[c].Name = H[c].Name
                                /\ G[c].HandleCount = H[c].HandleCount
                                /\ G[c].Flags = H[c].Flags

(* The entries of directories after that. *)
LEMMA EntriesAttached ==
    ASSUME NEW H, NEW G, NEW o, NEW d, NEW n, Attached(H, G, o, d, n), NEW f, f # Null, NEW m
    PROVE  EntriesIn(G, f, m) = IF f = d /\ m = n THEN {o} ELSE EntriesIn(H, f, m)
<1>1. \A x \in Objects \ {o} : x \in EntriesIn(G, f, m) <=> x \in EntriesIn(H, f, m)
  BY DEF Attached, EntriesIn
<1>2. o \notin EntriesIn(H, f, m)
  BY DEF Attached, EntriesIn
<1>3. o \in EntriesIn(G, f, m) <=> f = d /\ m = n
  BY DEF Attached, EntriesIn
<1>4. EntriesIn(H, d, n) = {} /\ EntriesIn(G, f, m) \subseteq Objects /\ EntriesIn(H, f, m) \subseteq Objects
  BY DEF Attached, EntriesIn
<1> QED
  BY <1>1, <1>2, <1>3, <1>4

(* Names stay unique. *)
LEMMA NamesAttached ==
    ASSUME NEW H \in [Objects -> Headers], NEW G, NamesIn(H), NEW o, NEW d, NEW n,
           Attached(H, G, o, d, n)
    PROVE  NamesIn(G)
<1>1. SUFFICES ASSUME NEW c \in Objects, G[c].Directory # Null PROVE NameIn(G, c)
  BY DEF NamesIn, NameIn
<1> DEFINE f == G[c].Directory
           m == G[c].Name
<1>2. EntriesIn(G, f, m) = IF f = d /\ m = n THEN {o} ELSE EntriesIn(H, f, m)
  BY <1>1, EntriesAttached
<1>3. CASE c = o
  <2>1. f = d /\ m = n /\ G[o].HandleCount > 0 /\ G[d].Type = "Directory"
    BY <1>3 DEF Attached
  <2> QED
    BY <1>2, <1>3, <2>1 DEF NameIn
<1>4. CASE c # o
  <2>1. /\ f = H[c].Directory /\ m = H[c].Name
        /\ G[c].HandleCount = H[c].HandleCount /\ G[c].Flags = H[c].Flags
    BY <1>4 DEF Attached
  <2>2. H[f].Type = "Directory" /\ EntriesIn(H, f, m) = {c}
        /\ (H[c].HandleCount > 0 \/ "PERMANENT" \in H[c].Flags)
    BY <1>1, <2>1 DEF NamesIn, NameIn
  <2>3. f \in Objects
    BY <1>1, <2>1 DEF Headers
  <2>4. G[f].Type = "Directory"
    BY <2>2, <2>3 DEF Attached
  <2>5. ~(f = d /\ m = n)
    BY <2>2 DEF Attached
  <2> QED
    BY <1>2, <2>1, <2>2, <2>4, <2>5 DEF NameIn
<1> QED
  BY <1>3, <1>4

(* A new drive letter leads to the new entry, and the others where they did. *)
LEMMA DriveAttached ==
    ASSUME NEW H \in [Objects -> Headers], NEW G, NEW o, NEW d, NEW n, Attached(H, G, o, d, n),
           NEW D \in [DriveNames -> Objects \cup {Null}], DriveIn(H, D), NEW C,
           TargetIn(H, o) \in Objects \cup {Null},
           C = IF d = Dos /\ n \in DriveNames THEN [D EXCEPT ![n] = TargetIn(H, o)] ELSE D
    PROVE  C \in [DriveNames -> Objects \cup {Null}] /\ DriveIn(G, C)
<1>1. C \in [DriveNames -> Objects \cup {Null}]
  OBVIOUS
<1>2. SUFFICES ASSUME NEW m \in DriveNames PROVE C[m] = LetterIn(G, m)
  BY <1>1 DEF DriveIn
<1>3. Dos # Null
  BY ObAssumption DEF Objects
<1>4. EntriesIn(G, Dos, m) = IF Dos = d /\ m = n THEN {o} ELSE EntriesIn(H, Dos, m)
  BY <1>3, EntriesAttached
<1>5. D[m] = LetterIn(H, m)
  BY DEF DriveIn
<1>6. \A c \in Objects : TargetIn(G, c) = TargetIn(H, c)
  BY DEF Attached, TargetIn
<1>7. CASE Dos = d /\ m = n
  <2>1. C[m] = TargetIn(H, o)
    BY <1>7
  <2>2. EntriesIn(G, Dos, m) = {o}
    BY <1>4, <1>7
  <2>3. LetterIn(G, m) = TargetIn(G, o)
    BY <2>2 DEF LetterIn
  <2>4. o \in Objects
    BY DEF Attached
  <2> QED
    BY <1>6, <2>1, <2>3, <2>4
<1>8. CASE ~(Dos = d /\ m = n)
  <2> DEFINE E == EntriesIn(H, Dos, m)
             e == CHOOSE x \in E : TRUE
  <2>1. C[m] = D[m]
    BY <1>8
  <2>2. E # {} => e \in E
    OBVIOUS
  <2>3. LetterIn(H, m) = IF E = {} THEN Null ELSE TargetIn(H, e)
    BY DEF LetterIn
  <2>4. LetterIn(G, m) = IF E = {} THEN Null ELSE TargetIn(G, e)
    <3>1. EntriesIn(G, Dos, m) = E
      BY <1>4, <1>8
    <3> QED
      BY <3>1 DEF LetterIn
  <2>5. E \subseteq Objects
    BY DEF EntriesIn
  <2> HIDE DEF E, e
  <2> QED
    BY <1>5, <1>6, <2>1, <2>2, <2>3, <2>4, <2>5
<1> QED
  BY <1>7, <1>8

-----------------------------------------------------------------------------
(* Steps that change reference counts and nothing else about objects *)

SameButCount(a, b) ==
    /\ a.Type = b.Type
    /\ a.HandleCount = b.HandleCount
    /\ a.Flags = b.Flags
    /\ a.Directory = b.Directory
    /\ a.Name = b.Name
    /\ a.LinkTarget = b.LinkTarget
    /\ a.Registered = b.Registered

(* What happens to an object in a step: it is used, or made, or unmade when nothing refers  *)
(* to it.                                                                                   *)
Evolves(x) ==
    \/ hdr[x].Type # "free" /\ hdr'[x].Type # "free" /\ (Refs(x) > 0 \/ Refs(x)' = Refs(x))
    \/ hdr[x].Type = "free" /\ hdr'[x].Type # "free" /\ Refs(x) = 0 /\ Refs(x)' > 0
    \/ hdr[x].Type # "free" /\ hdr'[x].Type = "free" /\ Refs(x) = 0 /\ Refs(x)' = 0
    \/ hdr[x].Type = "free" /\ hdr'[x].Type = "free" /\ Refs(x)' = Refs(x)

StepOK == IInv' /\ \A x \in Objects : Evolves(x)

(* How the references change when neither names nor links nor handles do. *)
LEMMA RefsQuiet ==
    ASSUME TypeOK, TypeOK', NEW t \in Threads, NEW items, Replaced(t, items),
           \A c \in Objects : hdr'[c].Directory = hdr[c].Directory,
           \A c \in Objects : hdr'[c].LinkTarget = hdr[c].LinkTarget,
           table' = table, NEW x \in Objects
    PROVE  Refs(x)' + Loses(t, x) + FromThreads(x)
              = Refs(x) + Gains(items, x) + FromThreads(x)'
<1>1. PartsOf(x) /\ PartsOf(x)'
  BY PartsNow, PartsNext
<1>2. FromEntries(x)' = FromEntries(x) /\ FromName(x)' = FromName(x)
  BY NamesSame
<1>3. FromLinks(x)' = FromLinks(x)
  BY LinksSame
<1>4. FromHandles(x)' = FromHandles(x) /\ FromSystem(x)' = FromSystem(x)
  BY OthersSame
<1>5. FromCalls(x)' + Loses(t, x) = FromCalls(x) + Gains(items, x)
  BY CallsChange
<1>6. Loses(t, x) \in Nat /\ Gains(items, x) \in Nat
  <2>1. items \in Seq(Items)
    BY DEF Replaced
  <2> QED
    BY <2>1, OccursFinite DEF One, Loses, Gains
<1> DEFINE rest == FromHandles(x) + FromName(x) + FromEntries(x) + FromLinks(x) + FromSystem(x)
           a == Refs(x)
           b == FromCalls(x)
           c == FromThreads(x)
           a1 == Refs(x)'
           b1 == FromCalls(x)'
           c1 == FromThreads(x)'
           l == Loses(t, x)
           g == Gains(items, x)
<1>7. a = rest + b + c /\ a1 = rest + b1 + c1
  BY <1>1, <1>2, <1>3, <1>4 DEF PartsOf
<1>8. /\ rest \in Nat /\ a \in Nat /\ b \in Nat /\ c \in Nat
      /\ a1 \in Nat /\ b1 \in Nat /\ c1 \in Nat /\ l \in Nat /\ g \in Nat
  BY <1>1, <1>6 DEF PartsOf
<1>9. b1 + l = b + g
  BY <1>5
<1> HIDE DEF rest, a, b, c, a1, b1, c1, l, g
<1>10. a1 + l + c = a + g + c1
  BY <1>7, <1>8, <1>9
<1> QED
  BY <1>10 DEF a, l, c, a1, g, c1

(* A list of items that neither makes an object known nor frees one. *)
Harmless(items) == \A i \in 1..Len(items) : items[i].op \notin {"insert", "register", "open", "free"}

(* The new items have the shape of pieces of calls. *)
Shaped(t, items) == \A i \in 1..Len(items) : ShapeAt(work'[t], i)

(* New items free nothing, and make an object known while it has one reference. *)
NewItemsOK(items) ==
    \A i \in 1..Len(items) :
        /\ items[i].op # "free"
        /\ IsNew(items[i]) => /\ hdr'[items[i].arg].PointerCount = 1
                              /\ ~hdr'[items[i].arg].Registered

(* Counts follow the references that items and threads win and lose. *)
Moves(t, items) ==
    \A x \in Objects :
        hdr'[x].PointerCount + leaked[x] + Loses(t, x) + FromThreads(x)
        = hdr[x].PointerCount + leaked'[x] + Gains(items, x) + FromThreads(x)'

(* References move, or are added to or taken from objects in use; a reference that a call   *)
(* has can also be lost.                                                                   *)
LEMMA QuietStep ==
    ASSUME IInv, NEW t \in Threads, NEW items, Replaced(t, items),
           hdr' \in [Objects -> Headers],
           \A c \in Objects : /\ SameButCount(hdr'[c], hdr[c])
                              /\ \/ InUse(c)
                                 \/ hdr'[c] = hdr[c] /\ (leaked'[c] = leaked[c] \/ Refs(c) > 0),
           UNCHANGED <<table, free, tables, drive, native>>,
           held' \in [Threads -> Seq(Objects)],
           leaked' \in [Objects -> Nat],
           fault' \in BOOLEAN,
           Shaped(t, items), CloseOK',
           NewItemsOK(items),
           work[t] = <<>> \/ Head(work[t]).op # "unregister",
           Moves(t, items)
    PROVE  StepOK
<1>1. TypeOK /\ hdr \in [Objects -> Headers]
  BY DEF IInv, TypeOK
<1>2. TypeOK'
  <2>1. work' \in [Threads -> Seq(Items)]
    BY <1>1, Positions
  <2> QED
    BY <1>1, <2>1 DEF TypeOK
<1>3. ShapeOK'
  BY ShapeKept DEF Shaped
<1>4. \A c \in Objects : hdr'[c] = hdr[c] \/ ~Pending(t, c)
  BY InUseNotPending
<1>5. NewOK'
  BY <1>4, NewKept DEF NewItemsOK
<1>6. FreeOK'
  BY <1>4, FreeKept DEF NewItemsOK
<1>7. HeadersOK'
  <2> SUFFICES ASSUME NEW c \in Objects PROVE HeaderOK(hdr'[c])
    BY DEF HeadersOK
  <2>1. HeaderOK(hdr[c])
    BY DEF IInv, HeadersOK
  <2>2. CASE hdr'[c] = hdr[c]
    BY <2>1, <2>2
  <2>3. CASE InUse(c)
    <3>1. hdr[c].PointerCount > 0 /\ hdr[c].Type # "free"
      BY <2>3, InUseCounted
    <3> QED
      BY <2>1, <3>1 DEF HeaderOK, SameButCount
  <2> QED
    BY <2>2, <2>3
<1>8. NativeOK'
  <2>1. \A x \in native' : hdr'[x].Registered \/ (x \in native /\ ~hdr[x].Registered)
    BY <1>1 DEF SameButCount, TypeOK
  <2>2. \A x : work[t] = <<>> \/ Head(work[t]) # Item("unregister", x)
    BY DEF Item
  <2> QED
    BY <2>1, <2>2, NativeKept
<1>9. ASSUME NEW x \in Objects
      PROVE  /\ hdr'[x].PointerCount = Refs(x)' + leaked'[x]
             /\ Evolves(x)
  <2>1. Refs(x)' + Loses(t, x) + FromThreads(x)
          = Refs(x) + Gains(items, x) + FromThreads(x)'
    BY <1>1, <1>2, RefsQuiet DEF SameButCount
  <2>2. hdr[x].PointerCount = Refs(x) + leaked[x]
    BY DEF IInv, RefCountExact
  <2>3. /\ hdr[x].PointerCount \in Nat /\ hdr'[x].PointerCount \in Nat
        /\ leaked[x] \in Nat /\ leaked'[x] \in Nat
    BY <1>1 DEF TypeOK, Headers
  <2>4. /\ Refs(x) \in Nat /\ FromThreads(x) \in Nat
        /\ Refs(x)' \in Nat /\ FromThreads(x)' \in Nat
    BY <1>1, <1>2, PartsNow, PartsNext DEF PartsOf
  <2>5. Loses(t, x) \in Nat /\ Gains(items, x) \in Nat
    <3>1. items \in Seq(Items)
      BY DEF Replaced
    <3> QED
      BY <3>1, OccursFinite DEF One, Loses, Gains
  <2>6. hdr'[x].PointerCount = Refs(x)' + leaked'[x]
    <3> DEFINE a == Refs(x)
               c == FromThreads(x)
               a1 == Refs(x)'
               c1 == FromThreads(x)'
               l == Loses(t, x)
               g == Gains(items, x)
               p == hdr[x].PointerCount
               p1 == hdr'[x].PointerCount
               k == leaked[x]
               k1 == leaked'[x]
    <3>1. /\ a \in Nat /\ c \in Nat /\ a1 \in Nat /\ c1 \in Nat /\ l \in Nat /\ g \in Nat
          /\ p \in Nat /\ p1 \in Nat /\ k \in Nat /\ k1 \in Nat
      BY <2>3, <2>4, <2>5
    <3>2. a1 + l + c = a + g + c1 /\ p = a + k
      BY <2>1, <2>2
    <3>3. p1 + k + l + c = p + k1 + g + c1
      BY DEF Moves
    <3> HIDE DEF a, c, a1, c1, l, g, p, p1, k, k1
    <3>4. p1 = a1 + k1
      BY <3>1, <3>2, <3>3
    <3> QED
      BY <3>4 DEF p1, a1, k1
  <2>7. Evolves(x)
    <3>1. hdr'[x].Type = hdr[x].Type
      BY DEF SameButCount
    <3>2. CASE InUse(x)
      BY <3>1, <3>2, InUseCounted DEF Evolves, InUse
    <3>3. CASE hdr'[x] = hdr[x] /\ leaked'[x] = leaked[x]
      <4>1. Refs(x)' = Refs(x)
        BY <2>2, <2>3, <2>4, <2>6, <3>3
      <4> QED
        BY <3>1, <4>1 DEF Evolves
    <3>4. CASE hdr'[x] = hdr[x] /\ Refs(x) > 0
      <4>1. hdr[x].PointerCount > 0
        BY <2>2, <2>3, <2>4, <3>4
      <4>2. Unused.PointerCount = 0
        BY DEF Unused
      <4>3. hdr[x].Type # "free"
        BY <4>1, <4>2 DEF IInv, HeadersOK, HeaderOK
      <4> QED
        BY <2>4, <3>1, <3>4, <4>3 DEF Evolves
    <3> QED
      BY <3>2, <3>3, <3>4
  <2> QED
    BY <2>6, <2>7
<1>10. HandleTableSound'
  <2>1. ChainOK /\ \A o \in Objects : hdr[o].HandleCount = FromHandles(o)
    BY TableParts DEF IInv
  <2>2. ChainOK'
    BY <2>1 DEF ChainOK, Used
  <2>3. \A o \in Objects : hdr'[o].HandleCount = FromHandles(o)'
    BY <2>1, OthersSame DEF SameButCount
  <2> QED
    BY <2>2, <2>3, TablePartsNext
<1>11. SameNames(hdr, hdr')
  BY DEF SameNames, SameButCount
<1>12. NamesSound'
  <2>1. NamesIn(hdr)
    BY NamesAre DEF IInv
  <2>2. \A c \in Objects : hdr[c].Directory # Null =>
           /\ hdr[hdr[c].Directory].Type = "Directory"
           /\ hdr[c].HandleCount > 0 \/ "PERMANENT" \in hdr[c].Flags
    BY <2>1 DEF NamesIn, NameIn
  <2>3. \A c \in Objects : hdr[c].Directory # Null => hdr[c].Directory \in Objects
    BY <1>1 DEF Headers
  <2>4. \A c \in Objects : hdr[c].Directory # Null => hdr'[hdr[c].Directory].Type = "Directory"
    BY <2>2, <2>3 DEF SameButCount
  <2>5. \A c \in Objects :
           hdr[c].Directory # Null => hdr'[c].HandleCount > 0 \/ "PERMANENT" \in hdr'[c].Flags
    BY <2>2 DEF SameButCount
  <2>6. NamesIn(hdr')
    BY <1>1, <1>11, <2>1, <2>4, <2>5, NamesKept
  <2> QED
    BY <2>6, NamesAre
<1>13. DriveMapFresh'
  <2>1. DriveIn(hdr, drive)
    BY NamesAre DEF IInv
  <2>2. DriveIn(hdr', drive)
    BY <1>11, <2>1, DriveKept DEF SameButCount
  <2> QED
    BY <2>2, NamesAre
<1>14. RefCountExact'
  BY <1>9 DEF RefCountExact
<1> QED
  BY <1>2, <1>3, <1>5, <1>6, <1>7, <1>8, <1>9, <1>10, <1>12, <1>13, <1>14 DEF IInv, StepOK

LEMMA HarmlessFits ==
    ASSUME NEW items, Harmless(items)
    PROVE  NewItemsOK(items)
BY DEF Harmless, IsNew, NewItemsOK

(* Items of a call, and the references they hold. *)
LEMMA ItemIs ==
    ASSUME NEW x \in Objects,
           NEW op \in {"deref", "free", "unregister", "register", "reference", "handle",
                       "duplicate", "temporary", "parse", "open"}
    PROVE  /\ Item(op, x) \in Items
           /\ Item(op, x).op = op
           /\ Item(op, x).arg = x
           /\ \A y : Holds(Item(op, x), y) <=>
                    \/ op \in {"deref", "handle", "duplicate", "parse", "open"} /\ x = y
                    \/ op = "open" /\ y = Dev
<1>1. Item(op, x) \in [op : {"deref", "free", "unregister", "register", "reference", "handle",
                             "duplicate", "temporary", "parse", "open"}, arg : Objects]
  BY DEF Item
<1>2. Item(op, x) \in Items
  BY <1>1 DEF Items
<1> QED
  BY <1>2 DEF Item, Holds

(* Items that close handles. *)
LEMMA CloseIs ==
    ASSUME NEW h \in Handles, NEW op \in Closes
    PROVE  /\ Item(op, h) \in Items
           /\ Item(op, h).op = op
           /\ Item(op, h).arg = h
           /\ \A y : ~Holds(Item(op, h), y)
<1>1. Item(op, h) \in [op : {"close", "closeref"}, arg : Handles]
  BY DEF Item, Closes
<1>2. Item(op, h) \in Items
  BY <1>1 DEF Items
<1> QED
  BY <1>2 DEF Item, Holds, Closes

(* Items that carry a path. *)
LEMMA PathItemIs ==
    ASSUME NEW x \in Objects, NEW op \in {"insert", "link"}, NEW p \in Paths, NEW a \in Attributes,
           NEW it, it = [op |-> op, arg |-> x, path |-> p, attrs |-> a]
    PROVE  /\ it \in Items
           /\ it.op = op
           /\ it.arg = x
           /\ \A y : Holds(it, y) <=> op = "link" /\ x = y
<1>1. it \in [op : {"insert", "link"}, arg : Objects, path : Paths, attrs : Attributes]
  OBVIOUS
<1>2. it \in Items
  BY <1>1 DEF Items
<1> QED
  BY <1>2 DEF Holds

(* Lists of two and of three items. *)
IsPair(items, a, b) ==
    /\ a \in Items /\ b \in Items
    /\ items \in Seq(Items) /\ Len(items) = 2
    /\ items[1] = a /\ items[2] = b
    /\ \A x : Gains(items, x) = One(Holds(a, x)) + One(Holds(b, x))

IsTriple(items, a, b, c) ==
    /\ a \in Items /\ b \in Items /\ c \in Items
    /\ items \in Seq(Items) /\ Len(items) = 3
    /\ items[1] = a /\ items[2] = b /\ items[3] = c
    /\ \A x : Gains(items, x) = One(Holds(a, x)) + One(Holds(b, x)) + One(Holds(c, x))

(* Two items one after the other. *)
LEMMA PairIs ==
    ASSUME NEW a \in Items, NEW b \in Items
    PROVE  IsPair(<<a>> \o <<b>>, a, b)
<1> DEFINE w == <<a, b>>
<1>1. <<a>> \o <<b>> = w
  BY ConcatPair
<1>2. \A x : Gains(w, x) = One(Holds(a, x)) + One(Holds(b, x))
  BY GainsTwo
<1>3. w \in Seq(Items) /\ Len(w) = 2 /\ w[1] = a /\ w[2] = b
  OBVIOUS
<1> HIDE DEF w
<1>4. IsPair(w, a, b)
  BY <1>2, <1>3 DEF IsPair
<1> QED
  BY <1>1, <1>4

(* Three. *)
LEMMA TripleIs ==
    ASSUME NEW a \in Items, NEW b \in Items, NEW c \in Items
    PROVE  IsTriple((<<a>> \o <<b>>) \o <<c>>, a, b, c)
<1> DEFINE w == <<a, b, c>>
<1>1. (<<a>> \o <<b>>) \o <<c>> = w
  BY ConcatTriple
<1>2. \A x : Gains(w, x) = One(Holds(a, x)) + One(Holds(b, x)) + One(Holds(c, x))
  BY GainsThree
<1>3. w \in Seq(Items) /\ Len(w) = 3 /\ w[1] = a /\ w[2] = b /\ w[3] = c
  OBVIOUS
<1> HIDE DEF w
<1>4. IsTriple(w, a, b, c)
  BY <1>2, <1>3 DEF IsTriple
<1> QED
  BY <1>1, <1>4

(* A dropped reference. *)
LEMMA GainsDeref ==
    ASSUME NEW o \in Objects, NEW x
    PROVE  /\ Deref(o) \in Seq(Items)
           /\ Len(Deref(o)) = 1
           /\ Deref(o)[1] = Item("deref", o)
           /\ Gains(Deref(o), x) = One(x = o)
<1> DEFINE a == Item("deref", o)
<1>1. a \in Items /\ (Holds(a, x) <=> x = o)
  BY ItemIs
<1>2. Deref(o) = <<a>>
  BY DEF Deref
<1> HIDE DEF a
<1>3. Gains(<<a>>, x) = One(Holds(a, x))
  BY <1>1, GainsOne
<1> QED
  BY <1>1, <1>2, <1>3 DEF One, a

(* Items that only carry a reference. *)
Plain(items) == \A i \in 1..Len(items) : items[i].op \in {"deref", "handle", "duplicate", "link"}

(* They fit anywhere. *)
LEMMA PlainFits ==
    ASSUME IInv, NEW t \in Threads, NEW items, Replaced(t, items), Plain(items)
    PROVE  Shaped(t, items) /\ Harmless(items)
<1>1. \A i \in 1..Len(items) : work'[t][i] = items[i]
  BY NewThere DEF IInv
<1> QED
  BY <1>1 DEF Shaped, Harmless, Plain, ShapeAt

(* A step that closes no handle and begins no close. *)
LEMMA NoCloses ==
    ASSUME IInv, NEW t \in Threads, NEW items, Replaced(t, items),
           \A i \in 1..Len(items) : items[i].op \notin Closes,
           \A h \in Handles : table[h] # Null => table'[h] # Null
    PROVE  CloseOK'
BY CloseKept

(* A header with another count. *)
LEMMA HeaderWithCount ==
    ASSUME NEW header \in Headers, NEW n \in Nat
    PROVE  [header EXCEPT !.PointerCount = n] \in Headers
BY DEF Headers

(* A new reference to an object in use, which an item or a thread gets. *)
LEMMA AddRefStep ==
    ASSUME IInv, NEW t \in Threads, NEW items, Replaced(t, items), NEW o, InUse(o), AddRef(o),
           UNCHANGED <<table, free, tables, drive, native, leaked, fault>>,
           held' \in [Threads -> Seq(Objects)],
           Shaped(t, items), Harmless(items), CloseOK',
           work[t] = <<>> \/ Head(work[t]).op # "unregister",
           \A x \in Objects :
              Gains(items, x) + FromThreads(x)' = Loses(t, x) + FromThreads(x) + One(x = o)
    PROVE  StepOK
<1>1. TypeOK /\ hdr \in [Objects -> Headers] /\ o \in Objects
  BY DEF IInv, TypeOK, InUse
<1>2. hdr' = [hdr EXCEPT ![o].PointerCount = @ + 1]
  BY DEF AddRef
<1>3. hdr[o] \in Headers
  BY <1>1
<1>4. [hdr[o] EXCEPT !.PointerCount = @ + 1] \in Headers
  BY <1>3, HeaderWithCount, hdr[o].PointerCount + 1 \in Nat DEF Headers
<1>5. hdr' \in [Objects -> Headers]
  BY <1>1, <1>2, <1>4
<1>6. \A c \in Objects : c # o => hdr'[c] = hdr[c]
  BY <1>1, <1>2
<1>7. hdr'[o] = [hdr[o] EXCEPT !.PointerCount = @ + 1]
  BY <1>1, <1>2
<1>8. SameButCount(hdr'[o], hdr[o]) /\ hdr'[o].PointerCount = hdr[o].PointerCount + 1
  BY <1>3, <1>7 DEF SameButCount, Headers
<1>9. \A c \in Objects : /\ SameButCount(hdr'[c], hdr[c])
                         /\ \/ InUse(c)
                            \/ hdr'[c] = hdr[c] /\ (leaked'[c] = leaked[c] \/ Refs(c) > 0)
  BY <1>6, <1>8 DEF SameButCount
<1>10. held \in [Threads -> Seq(Objects)] /\ leaked' \in [Objects -> Nat] /\ fault' \in BOOLEAN
  BY <1>1 DEF TypeOK
<1>11. ASSUME NEW x \in Objects
       PROVE  hdr'[x].PointerCount + leaked[x] + Loses(t, x) + FromThreads(x)
              = hdr[x].PointerCount + leaked'[x] + Gains(items, x) + FromThreads(x)'
  <2> DEFINE p == hdr[x].PointerCount
             p1 == hdr'[x].PointerCount
             k == leaked[x]
             l == Loses(t, x)
             g == Gains(items, x)
             f == FromThreads(x)
             f1 == FromThreads(x)'
             n == One(x = o)
  <2>1. p1 = p + n
    <3>1. CASE x = o
      BY <1>8, <3>1 DEF One
    <3>2. CASE x # o
      <4>1. p \in Nat /\ p1 = p
        BY <1>1, <1>6, <3>2 DEF Headers
      <4> QED
        BY <3>2, <4>1 DEF One
    <3> QED
      BY <3>1, <3>2
  <2>2. leaked'[x] = k
    OBVIOUS
  <2>8. g + f1 = l + f + n
    BY <1>1
  <2>3. p \in Nat /\ k \in Nat /\ l \in Nat /\ n \in Nat
    BY <1>1 DEF TypeOK, Headers, Loses, One
  <2>4. g \in Nat
    <3>1. items \in Seq(Items)
      BY DEF Replaced
    <3> QED
      BY <3>1, OccursFinite DEF Gains
  <2>5. f \in Nat
    BY <1>1, PartsNow DEF PartsOf
  <2>6. f1 \in Nat
    <3>1. TypeOK'
      <4>1. work' \in [Threads -> Seq(Items)]
        BY <1>1, Positions
      <4> QED
        BY <1>1, <1>5, <1>10, <4>1 DEF TypeOK
    <3> QED
      BY <3>1, PartsNext DEF PartsOf
  <2> HIDE DEF p, p1, k, l, g, f, f1, n
  <2>7. p1 + k + l + f = p + k + g + f1
    BY <2>1, <2>3, <2>4, <2>5, <2>6, <2>8
  <2> QED
    BY <2>2, <2>7 DEF p, p1, k, l, g, f, f1
<1>12. NewItemsOK(items)
  BY HarmlessFits
<1>13. Moves(t, items)
  BY <1>11 DEF Moves
<1> QED
  BY <1>5, <1>9, <1>10, <1>12, <1>13, QuietStep

(* The first item of a list. *)
LEMMA HeadIs ==
    ASSUME IInv, NEW t \in Threads, NEW op, At(t, op)
    PROVE  /\ work[t] # <<>>
           /\ Head(work[t]) \in Items
           /\ Head(work[t]).op = op
           /\ Head(work[t]).arg = Arg(t)
           /\ 1 \in DOMAIN work[t]
           /\ work[t][1] = Head(work[t])
           /\ ShapeAt(work[t], 1)
           /\ op # "open" =>
                 \A x : Loses(t, x) = One(op \in {"deref", "handle", "duplicate", "link", "parse"}
                                          /\ Arg(t) = x)
           /\ op = "open" => \A x : Loses(t, x) = One(Arg(t) = x \/ x = Dev)
<1>1. work[t] \in Seq(Items) /\ work[t] # <<>> /\ Head(work[t]).op = op
  BY DEF IInv, TypeOK, At
<1>2. Head(work[t]) \in Items /\ 1 \in DOMAIN work[t] /\ work[t][1] = Head(work[t])
  BY <1>1, EmptySeq
<1>3. ShapeAt(work[t], 1)
  BY <1>2 DEF IInv, ShapeOK
<1>4. op # "open" =>
         \A x : HeadHolds(t, x) <=> op \in {"deref", "handle", "duplicate", "link", "parse"} /\ Arg(t) = x
  BY <1>1 DEF HeadHolds, Holds, Arg
<1>5. op = "open" => \A x : HeadHolds(t, x) <=> Arg(t) = x \/ x = Dev
  BY <1>1 DEF HeadHolds, Holds, Arg
<1> QED
  BY <1>1, <1>2, <1>3, <1>4, <1>5 DEF Arg, Loses, One

(* A call that begins has no first item. *)
LEMMA LosesNone ==
    ASSUME NEW t \in Threads, NEW x, work[t] = <<>>
    PROVE  Loses(t, x) = 0
BY DEF Loses, HeadHolds, One

(* Objects that open handles refer to. *)
LEMMA OpenInUse ==
    ASSUME IInv, NEW h \in Handles, Open(h)
    PROVE  table[h] \in Objects /\ InUse(table[h])
<1>1. table[h] \in Objects
  BY DEF IInv, TypeOK, Open
<1> QED
  BY <1>1, NamedInUse

(* A new reference to an object in use, which an item gets. *)
LEMMA AddRefItem ==
    ASSUME IInv, NEW t \in Threads, NEW items, Replaced(t, items), NEW o, InUse(o), AddRef(o),
           UNCHANGED <<table, free, tables, drive, native, held, leaked, fault>>,
           Shaped(t, items), Harmless(items), CloseOK',
           work[t] = <<>> \/ Head(work[t]).op # "unregister",
           \A x \in Objects : Gains(items, x) = Loses(t, x) + One(x = o)
    PROVE  StepOK
<1>1. \A x \in Objects :
        Gains(items, x) + FromThreads(x)' = Loses(t, x) + FromThreads(x) + One(x = o)
  <2> TAKE x \in Objects
  <2>1. FromThreads(x)' = FromThreads(x)
    BY OthersSame
  <2>2. FromThreads(x) \in Nat
    BY PartsNow DEF PartsOf, IInv
  <2>3. Loses(t, x) \in Nat /\ One(x = o) \in Nat
    BY DEF Loses, One
  <2>4. Gains(items, x) = Loses(t, x) + One(x = o)
    OBVIOUS
  <2> QED
    BY <2>1, <2>2, <2>3, <2>4
<1>2. held' \in [Threads -> Seq(Objects)]
  BY DEF IInv, TypeOK
<1> QED
  BY <1>1, <1>2, AddRefStep

(* NtCreateSymbolicLinkObject *)
LEMMA LinkCallOK ==
    ASSUME IInv, NEW t \in Threads, NtCreateSymbolicLinkObject(t)
    PROVE  StepOK
<1>1. PICK path \in Paths, attrs \in Attributes,
           target \in ({Dev} \cup {Find(p, TRUE) : p \in Paths}) \ {Null} :
        /\ AddRef(target)
        /\ Call(t, "NtCreateSymbolicLinkObject",
                <<[op |-> "link", arg |-> target, path |-> path, attrs |-> attrs]>>)
  BY DEF NtCreateSymbolicLinkObject
<1> DEFINE a == [op |-> "link", arg |-> target, path |-> path, attrs |-> attrs]
           items == <<a>>
<1>2. InUse(target) /\ target \in Objects
  <2>1. CASE target = Dev
    <3>1. Dev \in Objects
      BY DEF Objects
    <3> QED
      BY <2>1, <3>1, NamedInUse
  <2>2. CASE target # Dev
    <3>1. PICK p \in Paths : target = Find(p, TRUE)
      BY <2>2
    <3>2. Found(target) /\ target # Null
      BY <3>1, FindSafe
    <3> QED
      BY <3>2 DEF Found, InUse
  <2> QED
    BY <2>1, <2>2
<1>3. a \in Items /\ a.op = "link" /\ \A y : Holds(a, y) <=> target = y
  BY <1>2, PathItemIs
<1>4. Call(t, "NtCreateSymbolicLinkObject", items)
  BY <1>1
<1> HIDE DEF a
<1>5. items \in Seq(Items) /\ Len(items) = 1 /\ items[1] = a
  BY <1>3
<1>6. Replaced(t, items) /\ work[t] = <<>>
  BY <1>4, <1>5, CallReplaces DEF IInv
<1>7. Plain(items)
  BY <1>3, <1>5 DEF Plain
<1>8. Shaped(t, items) /\ Harmless(items)
  BY <1>6, <1>7, PlainFits
<1>9. UNCHANGED <<table, free, tables, drive, native, held, leaked, fault>>
  BY DEF NtCreateSymbolicLinkObject
<1>10. CloseOK'
  BY <1>6, <1>7, <1>9, NoCloses DEF Plain, Closes
<1>11. \A x \in Objects : Gains(items, x) = Loses(t, x) + One(x = target)
  <2> TAKE x \in Objects
  <2>1. Gains(items, x) = One(Holds(a, x))
    BY <1>3, GainsOne
  <2>2. One(Holds(a, x)) = One(x = target) /\ One(x = target) \in Nat
    BY <1>3 DEF One
  <2>3. Loses(t, x) = 0
    BY <1>6, LosesNone
  <2> QED
    BY <2>1, <2>2, <2>3
<1> HIDE DEF items
<1> QED
  BY <1>1, <1>2, <1>6, <1>8, <1>9, <1>10, <1>11, AddRefItem

(* ObOpenObjectByName *)
LEMMA OpenByNameOK ==
    ASSUME IInv, NEW t \in Threads, ObOpenObjectByName(t)
    PROVE  StepOK
<1>1. PICK path \in Paths, type \in {"Directory", "SymbolicLink"} :
        LET found == Find(path, type # "SymbolicLink")
        IN  /\ found # Null
            /\ hdr[found].Type = type
            /\ AddRef(found)
            /\ Call(t, "ObOpenObjectByName", <<Item("handle", found)>>)
  BY DEF ObOpenObjectByName
<1> DEFINE o == Find(path, type # "SymbolicLink")
           a == Item("handle", o)
           items == <<a>>
<1>2. InUse(o) /\ o \in Objects /\ AddRef(o)
  <2>1. (type # "SymbolicLink") \in BOOLEAN
    OBVIOUS
  <2>2. Found(o) /\ o # Null
    BY <1>1, <2>1, FindSafe
  <2> QED
    BY <1>1, <2>2 DEF Found, InUse
<1>3. Call(t, "ObOpenObjectByName", items)
  BY <1>1
<1> HIDE DEF o
<1>4. a \in Items /\ a.op = "handle" /\ \A y : Holds(a, y) <=> o = y
  BY <1>2, ItemIs
<1> HIDE DEF a
<1>5. items \in Seq(Items) /\ Len(items) = 1 /\ items[1] = a
  BY <1>4
<1>6. Replaced(t, items) /\ work[t] = <<>>
  BY <1>3, <1>5, CallReplaces DEF IInv
<1>7. Plain(items)
  BY <1>4, <1>5 DEF Plain
<1>8. Shaped(t, items) /\ Harmless(items)
  BY <1>6, <1>7, PlainFits
<1>9. UNCHANGED <<table, free, tables, drive, native, held, leaked, fault>>
  BY DEF ObOpenObjectByName
<1>10. CloseOK'
  BY <1>6, <1>7, <1>9, NoCloses DEF Plain, Closes
<1>11. \A x \in Objects : Gains(items, x) = Loses(t, x) + One(x = o)
  <2> TAKE x \in Objects
  <2>1. Gains(items, x) = One(Holds(a, x))
    BY <1>4, GainsOne
  <2>2. One(Holds(a, x)) = One(x = o) /\ One(x = o) \in Nat
    BY <1>4 DEF One
  <2>3. Loses(t, x) = 0
    BY <1>6, LosesNone
  <2> QED
    BY <2>1, <2>2, <2>3
<1> HIDE DEF items
<1> QED
  BY <1>2, <1>6, <1>8, <1>9, <1>10, <1>11, AddRefItem

(* NtOpenFile *)
LEMMA OpenFileOK ==
    ASSUME IInv, NEW t \in Threads, NtOpenFile(t)
    PROVE  StepOK
<1> DEFINE a == Item("parse", Dev)
           items == <<a>>
<1>1. Dev \in Objects /\ AddRef(Dev) /\ Call(t, "NtOpenFile", items)
  BY DEF NtOpenFile, Objects
<1>2. InUse(Dev)
  BY <1>1, NamedInUse
<1>3. a \in Items /\ a.op = "parse" /\ a.arg = Dev /\ \A y : Holds(a, y) <=> Dev = y
  BY <1>1, ItemIs
<1> HIDE DEF a
<1>4. items \in Seq(Items) /\ Len(items) = 1 /\ items[1] = a
  BY <1>3
<1>5. Replaced(t, items) /\ work[t] = <<>>
  BY <1>1, <1>4, CallReplaces DEF IInv
<1>6. \A i \in 1..Len(items) : items[i].op = "parse" /\ items[i].arg = Dev
  BY <1>3, <1>4
<1>7. Shaped(t, items)
  <2>1. \A i \in 1..Len(items) : work'[t][i] = items[i]
    BY <1>5, NewThere DEF IInv
  <2>2. Len(work'[t]) = Len(items) + Len(Drop(work[t]))
    BY <1>5, Positions DEF IInv
  <2>3. Len(work'[t]) = 1
    BY <1>4, <1>5, <2>2 DEF Drop
  <2> QED
    BY <1>6, <2>1, <2>3 DEF Shaped, ShapeAt
<1>8. Harmless(items)
  BY <1>6 DEF Harmless
<1>9. UNCHANGED <<table, free, tables, drive, native, held, leaked, fault>>
  BY DEF NtOpenFile
<1>10. CloseOK'
  BY <1>5, <1>6, <1>9, NoCloses DEF Closes
<1>11. \A x \in Objects : Gains(items, x) = Loses(t, x) + One(x = Dev)
  <2> TAKE x \in Objects
  <2>1. Gains(items, x) = One(Holds(a, x))
    BY <1>3, GainsOne
  <2>2. One(Holds(a, x)) = One(x = Dev) /\ One(x = Dev) \in Nat
    BY <1>3 DEF One
  <2>3. Loses(t, x) = 0
    BY <1>5, LosesNone
  <2> QED
    BY <2>1, <2>2, <2>3
<1> HIDE DEF items
<1> QED
  BY <1>1, <1>2, <1>5, <1>7, <1>8, <1>9, <1>10, <1>11, AddRefItem

(* ObReferenceObjectByPointer *)
LEMMA ByPointerOK ==
    ASSUME IInv, NEW t \in Threads, ObReferenceObjectByPointer(t)
    PROVE  StepOK
<1> DEFINE o == Arg(t)
           a == Item("duplicate", o)
           items == <<a>>
<1>1. /\ At(t, "reference") /\ AddRef(o) /\ Then(t, items)
      /\ UNCHANGED <<table, free, tables, drive, native, held, leaked, fault>>
  BY DEF ObReferenceObjectByPointer
<1>2. /\ work[t] # <<>> /\ Head(work[t]).op = "reference" /\ Head(work[t]).arg = o
      /\ \A x : Loses(t, x) = One("reference" \in {"deref", "handle", "duplicate", "link", "parse"}
                                  /\ o = x)
  BY <1>1, HeadIs
<1>3. InUse(o) /\ o \in Objects
  <2>1. InUse(Head(work[t]).arg)
    BY <1>2, HeadInUse
  <2> QED
    BY <1>2, <2>1 DEF InUse
<1> HIDE DEF o
<1>4. a \in Items /\ a.op = "duplicate" /\ \A y : Holds(a, y) <=> o = y
  BY <1>3, ItemIs
<1> HIDE DEF a
<1>5. items \in Seq(Items) /\ Len(items) = 1 /\ items[1] = a
  BY <1>4
<1>6. Replaced(t, items)
  BY <1>1, <1>2, <1>5, ThenReplaces DEF IInv
<1>7. Plain(items)
  BY <1>4, <1>5 DEF Plain
<1>8. Shaped(t, items) /\ Harmless(items)
  BY <1>6, <1>7, PlainFits
<1>9. CloseOK'
  BY <1>1, <1>6, <1>7, NoCloses DEF Plain, Closes
<1>10. \A x \in Objects : Gains(items, x) = Loses(t, x) + One(x = o)
  <2> TAKE x \in Objects
  <2>1. Gains(items, x) = One(Holds(a, x))
    BY <1>4, GainsOne
  <2>2. One(Holds(a, x)) = One(x = o) /\ One(x = o) \in Nat
    BY <1>4 DEF One
  <2>3. Loses(t, x) = 0
    BY <1>2 DEF One
  <2> QED
    BY <2>1, <2>2, <2>3
<1> HIDE DEF items
<1> QED
  BY <1>1, <1>2, <1>3, <1>6, <1>8, <1>9, <1>10, AddRefItem

(* A reference to be dropped, and then a handle to be closed. *)
LEMMA CloseItems ==
    ASSUME IInv, NEW t \in Threads, NEW h \in Handles, Open(h), ~ClosedBy(t, h), NEW items,
           IsPair(items, Item("deref", table[h]), Item("close", h)),
           Replaced(t, items), table' = table
    PROVE  /\ \A x \in Objects : Gains(items, x) = One(x = table[h])
           /\ Shaped(t, items) /\ Harmless(items) /\ CloseOK'
<1> DEFINE o == table[h]
           a == Item("deref", o)
           b == Item("close", h)
<1>1. o \in Objects
  BY OpenInUse
<1>2. a \in Items /\ a.op = "deref" /\ \A y : Holds(a, y) <=> o = y
  BY <1>1, ItemIs
<1>3. b \in Items /\ b.op = "close" /\ b.arg = h /\ \A y : ~Holds(b, y)
  BY CloseIs DEF Closes
<1>4. IsPair(items, a, b)
  OBVIOUS
<1> HIDE DEF a, b
<1>5. ASSUME NEW x \in Objects PROVE Gains(items, x) = One(x = o)
  <2>1. Gains(items, x) = One(Holds(a, x)) + One(Holds(b, x))
    BY <1>4 DEF IsPair
  <2> QED
    BY <1>2, <1>3, <2>1 DEF One
<1>6. \A i \in 1..Len(items) : i = 1 \/ i = 2
  BY <1>4 DEF IsPair
<1>7. \A i \in 1..Len(items) : /\ items[i].op \in {"deref", "close"}
                               /\ items[i].op = "close" => i = 2 /\ items[i].arg = h
  BY <1>2, <1>3, <1>4, <1>6 DEF IsPair
<1>8. Shaped(t, items)
  <2>1. \A i \in 1..Len(items) : work'[t][i] = items[i]
    BY NewThere DEF IInv
  <2> QED
    BY <1>7, <2>1 DEF Shaped, ShapeAt
<1>9. Harmless(items)
  BY <1>7 DEF Harmless
<1>10. CloseOK'
  <2>1. \A i \in 1..Len(items) : items[i].op \in Closes => i = 2 /\ items[i].arg = h
    BY <1>7 DEF Closes
  <2> QED
    BY <2>1, CloseKept DEF Open
<1> QED
  BY <1>5, <1>8, <1>9, <1>10

(* NtClose *)
LEMMA CloseCallOK ==
    ASSUME IInv, NEW t \in Threads, NtClose(t)
    PROVE  StepOK
<1>1. PICK h \in Handles : /\ Open(h) /\ ~Closing(h)
                           /\ AddRef(table[h])
                           /\ Call(t, "NtClose", Deref(table[h]) \o <<Item("close", h)>>)
  BY DEF NtClose
<1> DEFINE items == Deref(table[h]) \o <<Item("close", h)>>
<1>2. ~ClosedBy(t, h)
  BY <1>1 DEF Closing, ClosedBy, Closes
<1>3. InUse(table[h]) /\ table[h] \in Objects
  BY <1>1, OpenInUse
<1>4. Call(t, "NtClose", items)
  BY <1>1
<1>5. UNCHANGED <<table, free, tables, drive, native, held, leaked, fault>>
  BY DEF NtClose
<1>6. IsPair(items, Item("deref", table[h]), Item("close", h))
  BY <1>3, ItemIs, CloseIs, PairIs DEF Deref, Closes
<1> HIDE DEF items
<1>7. Replaced(t, items) /\ work[t] = <<>>
  BY <1>4, <1>6, CallReplaces DEF IInv, IsPair
<1>8. /\ \A x \in Objects : Gains(items, x) = One(x = table[h])
      /\ Shaped(t, items) /\ Harmless(items) /\ CloseOK'
  BY <1>1, <1>2, <1>5, <1>6, <1>7, CloseItems
<1>9. \A x \in Objects : Gains(items, x) = Loses(t, x) + One(x = table[h])
  BY <1>7, <1>8, LosesNone DEF One
<1> QED
  BY <1>1, <1>3, <1>5, <1>7, <1>8, <1>9, AddRefItem

(* The NtClose inside NtDuplicateObject *)
LEMMA CloseSourceOK ==
    ASSUME IInv, NEW t \in Threads, CloseSource(t)
    PROVE  StepOK
<1> DEFINE h == Arg(t)
           items == Deref(table[h]) \o <<Item("close", h)>>
<1>1. /\ At(t, "closeref") /\ AddRef(table[h]) /\ Then(t, items)
      /\ UNCHANGED <<table, free, tables, drive, native, held, leaked, fault>>
  BY DEF CloseSource
<1>2. /\ work[t] # <<>> /\ Head(work[t]) \in Items
      /\ Head(work[t]).op = "closeref" /\ Head(work[t]).arg = h
      /\ 1 \in DOMAIN work[t] /\ work[t][1] = Head(work[t])
      /\ \A x : Loses(t, x) = One("closeref" \in {"deref", "handle", "duplicate", "link", "parse"}
                                  /\ h = x)
  BY <1>1, HeadIs
<1>3. h \in Handles
  BY <1>2, ItemArgs DEF Closes
<1>4. Open(h)
  BY <1>2 DEF IInv, CloseOK, Closes, Open
<1>5. ~ClosedBy(t, h)
  <2> SUFFICES ASSUME NEW u \in Threads, NEW i \in DOMAIN work[u], Stays(t, u, i),
                      work[u][i].op \in Closes, work[u][i].arg = h
               PROVE  FALSE
    BY DEF ClosedBy
  <2>1. Once(Closes)
    BY DEF IInv, CloseOK
  <2>2. u = t /\ i = 1
    BY <1>2, <2>1 DEF Once, Closes
  <2> QED
    BY <2>2 DEF Stays
<1> HIDE DEF h
<1>6. InUse(table[h]) /\ table[h] \in Objects
  BY <1>3, <1>4, OpenInUse
<1>7. IsPair(items, Item("deref", table[h]), Item("close", h))
  BY <1>3, <1>6, ItemIs, CloseIs, PairIs DEF Deref, Closes
<1> HIDE DEF items
<1>8. Replaced(t, items)
  BY <1>1, <1>2, <1>7, ThenReplaces DEF IInv, IsPair
<1>9. /\ \A x \in Objects : Gains(items, x) = One(x = table[h])
      /\ Shaped(t, items) /\ Harmless(items) /\ CloseOK'
  BY <1>1, <1>3, <1>4, <1>5, <1>7, <1>8, CloseItems
<1>10. \A x \in Objects : Gains(items, x) = Loses(t, x) + One(x = table[h])
  <2>1. \A x : Loses(t, x) = 0
    BY <1>2 DEF One
  <2> QED
    BY <1>9, <2>1 DEF One
<1> QED
  BY <1>1, <1>2, <1>6, <1>8, <1>9, <1>10, AddRefItem

(* NtMakeTemporaryObject *)
LEMMA TemporaryCallOK ==
    ASSUME IInv, NEW t \in Threads, NtMakeTemporaryObject(t)
    PROVE  StepOK
<1>1. PICK h \in Handles : /\ Open(h)
                           /\ AddRef(table[h])
                           /\ Call(t, "NtMakeTemporaryObject",
                                   <<Item("temporary", table[h])>> \o Deref(table[h]))
  BY DEF NtMakeTemporaryObject
<1> DEFINE o == table[h]
           a == Item("temporary", o)
           b == Item("deref", o)
           items == <<a>> \o <<b>>
<1>2. InUse(o) /\ o \in Objects /\ AddRef(o)
  BY <1>1, OpenInUse
<1>3. Call(t, "NtMakeTemporaryObject", items)
  BY <1>1 DEF Deref
<1>4. UNCHANGED <<table, free, tables, drive, native, held, leaked, fault>>
  BY DEF NtMakeTemporaryObject
<1> HIDE DEF o
<1>5. a \in Items /\ a.op = "temporary" /\ a.arg = o /\ \A y : ~Holds(a, y)
  BY <1>2, ItemIs
<1>6. b \in Items /\ b.op = "deref" /\ \A y : Holds(b, y) <=> o = y
  BY <1>2, ItemIs
<1> HIDE DEF a, b
<1>7. IsPair(items, a, b)
  BY <1>5, <1>6, PairIs
<1> HIDE DEF items
<1>8. Replaced(t, items) /\ work[t] = <<>>
  BY <1>3, <1>7, CallReplaces DEF IInv, IsPair
<1>9. \A i \in 1..Len(items) : i = 1 \/ i = 2
  BY <1>7 DEF IsPair
<1>10. \A i \in 1..Len(items) : items[i].op \in {"temporary", "deref"}
  BY <1>5, <1>6, <1>7, <1>9 DEF IsPair
<1>11. Harmless(items)
  BY <1>10 DEF Harmless
<1>12. Shaped(t, items)
  <2>1. \A i \in 1..Len(items) : i \in DOMAIN work'[t] /\ work'[t][i] = items[i]
    BY <1>8, NewThere DEF IInv
  <2>2. 1 \in 1..Len(items) /\ 2 \in 1..Len(items)
    BY <1>7 DEF IsPair
  <2>3. ShapeAt(work'[t], 1)
    BY <1>5, <1>7, <2>1, <2>2 DEF ShapeAt, IsPair, b
  <2>4. ShapeAt(work'[t], 2)
    BY <1>6, <1>7, <2>1, <2>2 DEF ShapeAt, IsPair
  <2> QED
    BY <1>9, <2>3, <2>4 DEF Shaped
<1>13. CloseOK'
  BY <1>4, <1>8, <1>10, NoCloses DEF Closes
<1>14. \A x \in Objects : Gains(items, x) = Loses(t, x) + One(x = o)
  <2> TAKE x \in Objects
  <2>1. Gains(items, x) = One(Holds(a, x)) + One(Holds(b, x))
    BY <1>7 DEF IsPair
  <2>2. Loses(t, x) = 0
    BY <1>8, LosesNone
  <2> QED
    BY <1>5, <1>6, <2>1, <2>2 DEF One
<1> QED
  BY <1>2, <1>4, <1>8, <1>11, <1>12, <1>13, <1>14, AddRefItem

(* NtDuplicateObject *)
LEMMA DuplicateCallOK ==
    ASSUME IInv, NEW t \in Threads, NtDuplicateObject(t)
    PROVE  StepOK
<1>1. PICK h \in Handles, closeSource \in BOOLEAN :
        /\ Open(h)
        /\ closeSource => ~Closing(h)
        /\ AddRef(table[h])
        /\ Call(t, "NtDuplicateObject", (IF closeSource THEN <<Item("closeref", h)>> ELSE <<>>)
                                        \o <<Item("reference", table[h])>> \o Deref(table[h]))
  BY DEF NtDuplicateObject
<1> DEFINE o == table[h]
           c == Item("closeref", h)
           a == Item("reference", o)
           b == Item("deref", o)
           items == ((IF closeSource THEN <<c>> ELSE <<>>) \o <<a>>) \o <<b>>
           n == IF closeSource THEN 2 ELSE 1
<1>2. InUse(o) /\ o \in Objects /\ AddRef(o)
  BY <1>1, OpenInUse
<1>3. Call(t, "NtDuplicateObject", items)
  BY <1>1 DEF Deref
<1>4. UNCHANGED <<table, free, tables, drive, native, held, leaked, fault>>
  BY DEF NtDuplicateObject
<1> HIDE DEF o
<1>5. a \in Items /\ a.op = "reference" /\ a.arg = o /\ \A y : ~Holds(a, y)
  BY <1>2, ItemIs
<1>6. b \in Items /\ b.op = "deref" /\ \A y : Holds(b, y) <=> o = y
  BY <1>2, ItemIs
<1>7. c \in Items /\ c.op = "closeref" /\ c.arg = h /\ \A y : ~Holds(c, y)
  BY CloseIs DEF Closes
<1> HIDE DEF a, b, c
<1>8. /\ items \in Seq(Items) /\ Len(items) = n + 1 /\ items[n] = a /\ items[n + 1] = b
      /\ closeSource => items[1] = c
      /\ \A x \in Objects : Gains(items, x) = One(x = o)
  <2>1. CASE closeSource
    <3> DEFINE w == (<<c>> \o <<a>>) \o <<b>>
    <3>1. items = w
      BY <2>1
    <3>2. IsTriple(w, c, a, b)
      BY <1>5, <1>6, <1>7, TripleIs
    <3> HIDE DEF w
    <3>3. \A x \in Objects : Gains(w, x) = One(x = o)
      <4> TAKE x \in Objects
      <4>1. Gains(w, x) = One(Holds(c, x)) + One(Holds(a, x)) + One(Holds(b, x))
        BY <3>2 DEF IsTriple
      <4> QED
        BY <1>5, <1>6, <1>7, <4>1 DEF One
    <3> HIDE DEF items
    <3> QED
      BY <2>1, <3>1, <3>2, <3>3 DEF IsTriple
  <2>2. CASE ~closeSource
    <3> DEFINE w == <<a>> \o <<b>>
    <3>1. items = w
      <4>1. <<>> \o <<a>> = <<a>>
        BY <1>5, ConcatEmptySeq
      <4> QED
        BY <2>2, <4>1
    <3>2. IsPair(w, a, b)
      BY <1>5, <1>6, PairIs
    <3> HIDE DEF w
    <3>3. \A x \in Objects : Gains(w, x) = One(x = o)
      <4> TAKE x \in Objects
      <4>1. Gains(w, x) = One(Holds(a, x)) + One(Holds(b, x))
        BY <3>2 DEF IsPair
      <4> QED
        BY <1>5, <1>6, <4>1 DEF One
    <3> HIDE DEF items
    <3> QED
      BY <2>2, <3>1, <3>2, <3>3 DEF IsPair
  <2> QED
    BY <2>1, <2>2
<1> HIDE DEF items
<1>9. Replaced(t, items) /\ work[t] = <<>>
  BY <1>3, <1>8, CallReplaces DEF IInv
<1>10. \A i \in 1..Len(items) : i = n \/ i = n + 1 \/ (closeSource /\ i = 1)
  BY <1>8
<1>11. \A i \in 1..Len(items) : items[i] \in {a, b} \/ (closeSource /\ items[i] = c /\ i = 1)
  BY <1>8, <1>10
<1>12. Harmless(items)
  BY <1>5, <1>6, <1>7, <1>11 DEF Harmless
<1>13. Shaped(t, items)
  <2>1. \A i \in 1..Len(items) : i \in DOMAIN work'[t] /\ work'[t][i] = items[i]
    BY <1>9, NewThere DEF IInv
  <2>2. n \in 1..Len(items) /\ n + 1 \in 1..Len(items)
    BY <1>8
  <2>3. ShapeAt(work'[t], n)
    <3> HIDE DEF n
    <3> QED
      BY <1>5, <1>8, <2>1, <2>2 DEF ShapeAt, b
  <2>4. ShapeAt(work'[t], n + 1)
    <3> HIDE DEF n
    <3> QED
      BY <1>6, <1>8, <2>1, <2>2 DEF ShapeAt
  <2>5. closeSource => ShapeAt(work'[t], 1)
    BY <1>7, <1>8, <2>1 DEF ShapeAt
  <2> QED
    BY <1>10, <2>3, <2>4, <2>5 DEF Shaped
<1>14. CloseOK'
  <2>1. \A i \in 1..Len(items) : items[i].op \in Closes => i = 1 /\ items[i].arg = h /\ closeSource
    BY <1>5, <1>6, <1>7, <1>11 DEF Closes
  <2>2. closeSource => ~ClosedBy(t, h)
    BY <1>1 DEF Closing, ClosedBy, Closes
  <2> QED
    BY <1>1, <1>4, <1>9, <2>1, <2>2, CloseKept DEF Open
<1>15. \A x \in Objects : Gains(items, x) = Loses(t, x) + One(x = o)
  <2> TAKE x \in Objects
  <2>1. Loses(t, x) = 0
    BY <1>9, LosesNone
  <2> QED
    BY <1>8, <2>1 DEF One
<1> QED
  BY <1>2, <1>4, <1>9, <1>12, <1>13, <1>14, <1>15, AddRefItem

(* ObReferenceObjectByHandle *)
LEMMA ByHandleOK ==
    ASSUME IInv, NEW t \in Threads, ObReferenceObjectByHandle(t)
    PROVE  StepOK
<1>1. PICK h \in Handles :
        /\ Open(h)
        /\ AddRef(table[h])
        /\ \/ /\ Call(t, "ObReferenceObjectByHandle", <<>>)
              /\ held' = [held EXCEPT ![t] = Append(@, table[h])]
           \/ /\ Call(t, "ObReferenceObjectByHandle", Deref(table[h]))
              /\ UNCHANGED held
  BY DEF ObReferenceObjectByHandle
<1> DEFINE o == table[h]
<1>2. InUse(o) /\ o \in Objects /\ AddRef(o)
  BY <1>1, OpenInUse
<1>3. UNCHANGED <<table, free, tables, drive, native, leaked, fault>>
  BY DEF ObReferenceObjectByHandle
<1> HIDE DEF o
<1>4. CASE Call(t, "ObReferenceObjectByHandle", <<>>) /\ held' = [held EXCEPT ![t] = Append(@, o)]
  <2> DEFINE items == <<>>
  <2>1. items \in Seq(Items) /\ Len(items) = 0 /\ \A x : Gains(items, x) = 0
    BY GainsNone
  <2>2. Call(t, "ObReferenceObjectByHandle", items)
    BY <1>4
  <2> HIDE DEF items
  <2>3. Replaced(t, items) /\ work[t] = <<>>
    BY <2>1, <2>2, CallReplaces DEF IInv
  <2>4. Plain(items)
    BY <2>1 DEF Plain
  <2>5. Shaped(t, items) /\ Harmless(items)
    BY <2>3, <2>4, PlainFits
  <2>6. CloseOK'
    BY <1>3, <2>3, <2>4, NoCloses DEF Plain, Closes
  <2>9. TypeOK /\ Keeps(t, o)
    BY <1>4 DEF IInv, Keeps
  <2>7. held' \in [Threads -> Seq(Objects)]
    BY <1>2, <2>9, HeldAppend
  <2>8. \A x \in Objects :
           Gains(items, x) + FromThreads(x)' = Loses(t, x) + FromThreads(x) + One(x = o)
    <3> TAKE x \in Objects
    <3>1. FromThreads(x)' = FromThreads(x) + One(o = x) /\ FromThreads(x) \in Nat
      BY <1>2, <2>9, HeldAppend
    <3>2. Loses(t, x) = 0 /\ Gains(items, x) = 0
      BY <2>1, <2>3, LosesNone
    <3> QED
      BY <3>1, <3>2 DEF One
  <2> QED
    BY <1>2, <1>3, <2>3, <2>5, <2>6, <2>7, <2>8, AddRefStep
<1>5. CASE Call(t, "ObReferenceObjectByHandle", Deref(o)) /\ UNCHANGED held
  <2> DEFINE items == Deref(o)
  <2>1. items \in Seq(Items) /\ Len(items) = 1 /\ items[1] = Item("deref", o)
        /\ \A x : Gains(items, x) = One(x = o)
    BY <1>2, GainsDeref
  <2>2. Call(t, "ObReferenceObjectByHandle", items)
    BY <1>5
  <2> HIDE DEF items
  <2>3. Replaced(t, items) /\ work[t] = <<>>
    BY <2>1, <2>2, CallReplaces DEF IInv
  <2>4. Plain(items)
    BY <2>1 DEF Plain, Item
  <2>5. Shaped(t, items) /\ Harmless(items)
    BY <2>3, <2>4, PlainFits
  <2>6. CloseOK'
    BY <1>3, <2>3, <2>4, NoCloses DEF Plain, Closes
  <2>7. \A x \in Objects : Gains(items, x) = Loses(t, x) + One(x = o)
    BY <2>1, <2>3, LosesNone DEF One
  <2> QED
    BY <1>2, <1>3, <1>5, <2>3, <2>5, <2>6, <2>7, AddRefItem
<1> QED
  BY <1>1, <1>4, <1>5 DEF o

(* A step that passes references on, and changes no object. *)
LEMMA HandOver ==
    ASSUME IInv, NEW t \in Threads, NEW items, Replaced(t, items),
           UNCHANGED <<hdr, table, free, tables, drive, native, leaked, fault>>,
           held' \in [Threads -> Seq(Objects)],
           Shaped(t, items), Harmless(items), CloseOK',
           work[t] = <<>> \/ Head(work[t]).op # "unregister",
           \A x \in Objects : Gains(items, x) + FromThreads(x)' = Loses(t, x) + FromThreads(x)
    PROVE  StepOK
<1>1. TypeOK /\ hdr' \in [Objects -> Headers] /\ leaked' \in [Objects -> Nat] /\ fault' \in BOOLEAN
  BY DEF IInv, TypeOK
<1>2. \A c \in Objects : /\ SameButCount(hdr'[c], hdr[c])
                         /\ \/ InUse(c)
                            \/ hdr'[c] = hdr[c] /\ (leaked'[c] = leaked[c] \/ Refs(c) > 0)
  BY DEF SameButCount
<1>3. TypeOK'
  <2>1. work' \in [Threads -> Seq(Items)]
    BY <1>1, Positions
  <2> QED
    BY <1>1, <2>1 DEF TypeOK
<1>4. ASSUME NEW x \in Objects
      PROVE  hdr'[x].PointerCount + leaked[x] + Loses(t, x) + FromThreads(x)
             = hdr[x].PointerCount + leaked'[x] + Gains(items, x) + FromThreads(x)'
  <2> DEFINE p == hdr[x].PointerCount
             k == leaked[x]
             l == Loses(t, x)
             g == Gains(items, x)
             f == FromThreads(x)
             f1 == FromThreads(x)'
  <2>1. hdr'[x].PointerCount = p /\ leaked'[x] = k
    OBVIOUS
  <2>2. g + f1 = l + f
    OBVIOUS
  <2>3. p \in Nat /\ k \in Nat /\ l \in Nat
    BY <1>1 DEF TypeOK, Headers, Loses, One
  <2>4. g \in Nat
    <3>1. items \in Seq(Items)
      BY DEF Replaced
    <3> QED
      BY <3>1, OccursFinite DEF Gains
  <2>5. f \in Nat /\ f1 \in Nat
    BY <1>1, <1>3, PartsNow, PartsNext DEF PartsOf
  <2> HIDE DEF p, k, l, g, f, f1
  <2>6. p + k + l + f = p + k + g + f1
    BY <2>2, <2>3, <2>4, <2>5
  <2> QED
    BY <2>1, <2>6 DEF p, k, l, g, f, f1
<1>5. NewItemsOK(items)
  BY HarmlessFits
<1>6. Moves(t, items)
  BY <1>4 DEF Moves
<1> QED
  BY <1>1, <1>2, <1>5, <1>6, QuietStep

(* A step that drops what its first item held, or passes it on. *)
LEMMA HandOverItem ==
    ASSUME IInv, NEW t \in Threads, NEW items, Replaced(t, items), Plain(items),
           UNCHANGED <<hdr, table, free, tables, drive, native, held, leaked, fault>>,
           Head(work[t]).op # "unregister",
           \A x \in Objects : Gains(items, x) = Loses(t, x)
    PROVE  StepOK
<1>1. Shaped(t, items) /\ Harmless(items)
  BY PlainFits
<1>2. CloseOK'
  BY NoCloses DEF Plain, Closes
<1>3. held' \in [Threads -> Seq(Objects)]
  BY DEF IInv, TypeOK
<1>4. \A x \in Objects : Gains(items, x) + FromThreads(x)' = Loses(t, x) + FromThreads(x)
  BY OthersSame
<1> QED
  BY <1>1, <1>2, <1>3, <1>4, HandOver

(* The caller's reference is dropped. *)
LEMMA GiveUp ==
    ASSUME IInv, NEW t \in Threads, NEW op \in {"handle", "link", "parse"}, At(t, op),
           Then(t, Deref(Arg(t))),
           UNCHANGED <<hdr, table, free, tables, drive, native, held, leaked, fault>>
    PROVE  StepOK
<1> DEFINE o == Arg(t)
           items == Deref(o)
<1>1. /\ work[t] # <<>> /\ Head(work[t]) \in Items
      /\ Head(work[t]).op = op /\ Head(work[t]).arg = o
      /\ \A x : Loses(t, x) = One(op \in {"deref", "handle", "duplicate", "link", "parse"} /\ o = x)
  BY HeadIs
<1>2. o \in Objects
  BY <1>1, ItemArgs
<1>3. Then(t, items)
  OBVIOUS
<1> HIDE DEF o
<1>4. items \in Seq(Items) /\ Len(items) = 1 /\ items[1] = Item("deref", o)
      /\ \A x : Gains(items, x) = One(x = o)
  BY <1>2, GainsDeref
<1> HIDE DEF items
<1>5. Replaced(t, items)
  BY <1>1, <1>3, <1>4, ThenReplaces DEF IInv
<1>6. Plain(items)
  BY <1>4 DEF Plain, Item
<1>7. \A x \in Objects : Gains(items, x) = Loses(t, x)
  <2>1. op \in {"deref", "handle", "duplicate", "link", "parse"}
    OBVIOUS
  <2> QED
    BY <1>1, <1>4, <2>1 DEF One
<1> QED
  BY <1>1, <1>5, <1>6, <1>7, HandOverItem

(* The piece of the call fails, or has nothing to do. *)
LEMMA NothingDone ==
    ASSUME IInv, NEW t \in Threads, At(t, "insert"), Then(t, <<>>),
           UNCHANGED <<hdr, table, free, tables, drive, native, held, leaked, fault>>
    PROVE  StepOK
<1> DEFINE items == <<>>
<1>1. /\ work[t] # <<>> /\ Head(work[t]).op = "insert"
      /\ \A x : Loses(t, x) = One("insert" \in {"deref", "handle", "duplicate", "link", "parse"} /\ Arg(t) = x)
  BY HeadIs
<1>2. items \in Seq(Items) /\ Len(items) = 0 /\ \A x : Gains(items, x) = 0
  BY GainsNone
<1>3. Then(t, items)
  OBVIOUS
<1> HIDE DEF items
<1>4. Replaced(t, items)
  BY <1>1, <1>2, <1>3, ThenReplaces DEF IInv
<1>5. Plain(items)
  BY <1>2 DEF Plain
<1>6. \A x \in Objects : Gains(items, x) = Loses(t, x)
  BY <1>1, <1>2 DEF One
<1> QED
  BY <1>1, <1>4, <1>5, <1>6, HandOverItem

(* DropPointer *)
LEMMA DropPointerOK ==
    ASSUME IInv, NEW t \in Threads, DropPointer(t)
    PROVE  StepOK
<1> DEFINE o == Head(held[t])
           items == Deref(o)
<1>1. /\ held[t] # <<>> /\ Releases(t) /\ Call(t, "ObReferenceObjectByHandle", items)
      /\ UNCHANGED <<hdr, table, free, tables, drive, native, leaked, fault>>
  BY DEF DropPointer, Releases
<1>2. TypeOK
  BY DEF IInv
<1>3. o \in Objects /\ held' \in [Threads -> Seq(Objects)]
  <2>1. held \in [Threads -> Seq(Objects)] /\ held[t] \in Seq(Objects)
    BY <1>2 DEF TypeOK
  <2>2. o \in Objects /\ Tail(held[t]) \in Seq(Objects)
    BY <1>1, <2>1, HeadTailProperties
  <2> QED
    BY <1>1, <2>1, <2>2 DEF Releases
<1>4. \A x \in Objects : /\ FromThreads(x)' \in Nat
                         /\ FromThreads(x) = FromThreads(x)' + One(o = x)
  BY <1>1, <1>2, HeldTail
<1> HIDE DEF o
<1>5. items \in Seq(Items) /\ Len(items) = 1 /\ items[1] = Item("deref", o)
      /\ \A x : Gains(items, x) = One(x = o)
  BY <1>3, GainsDeref
<1> HIDE DEF items
<1>6. Replaced(t, items) /\ work[t] = <<>>
  BY <1>1, <1>2, <1>5, CallReplaces
<1>7. Plain(items)
  BY <1>5 DEF Plain, Item
<1>8. Shaped(t, items) /\ Harmless(items)
  BY <1>6, <1>7, PlainFits
<1>9. CloseOK'
  BY <1>1, <1>6, <1>7, NoCloses DEF Plain, Closes
<1>10. \A x \in Objects : Gains(items, x) + FromThreads(x)' = Loses(t, x) + FromThreads(x)
  <2> TAKE x \in Objects
  <2>1. Loses(t, x) = 0 /\ Gains(items, x) = One(x = o)
    BY <1>5, <1>6, LosesNone
  <2>2. FromThreads(x)' \in Nat /\ FromThreads(x) = FromThreads(x)' + One(o = x)
    BY <1>4
  <2> QED
    BY <2>1, <2>2 DEF One
<1> QED
  BY <1>1, <1>3, <1>6, <1>8, <1>9, <1>10, HandOver

-----------------------------------------------------------------------------
(* Steps that change objects, their names or the handle table *)

(* What the table, the names and the header of k contribute to the references of x. *)
Weight(H, k, x) ==
    H[x].HandleCount + Count(H[x].Directory # Null)
    + One(H[k].Directory = x) + One(H[k].LinkTarget = x)

(* The count of x changes as its references do, when names and links change only at k. *)
Balanced(t, items, k, x) ==
    hdr'[x].PointerCount + Weight(hdr, k, x) + Loses(t, x)
    = hdr[x].PointerCount + Weight(hdr', k, x) + Gains(items, x)

(* What a step may do with the header of x. *)
Lives(x) ==
    \/ hdr'[x].Type = hdr[x].Type /\ hdr'[x].PointerCount = hdr[x].PointerCount
    \/ hdr[x].Type # "free" /\ hdr'[x].Type # "free" /\ Refs(x) > 0
    \/ /\ hdr[x].Type = "free" /\ hdr'[x].Type # "free"
       /\ hdr[x].PointerCount = 0 /\ hdr'[x].PointerCount > 0
    \/ /\ hdr[x].Type # "free" /\ hdr'[x].Type = "free"
       /\ hdr[x].PointerCount = 0 /\ hdr'[x].PointerCount = 0

(* The references of an object, from what changes. *)
LEMMA RefsChange ==
    ASSUME IInv, TypeOK', HandleTableSound', NEW t \in Threads, NEW items, Replaced(t, items),
           held' = held, NEW k \in Objects,
           \A c \in Objects \ {k} : hdr'[c].Directory = hdr[c].Directory,
           \A c \in Objects \ {k} : hdr'[c].LinkTarget = hdr[c].LinkTarget,
           NEW x \in Objects
    PROVE  Refs(x)' + Weight(hdr, k, x) + Loses(t, x) = Refs(x) + Weight(hdr', k, x) + Gains(items, x)
<1>1. TypeOK /\ PartsOf(x) /\ PartsOf(x)'
  BY PartsNow, PartsNext DEF IInv
<1>2. FromEntries(x)' + One(hdr[k].Directory = x) = FromEntries(x) + One(hdr'[k].Directory = x)
  BY <1>1, EntriesCount
<1>3. FromLinks(x)' + One(hdr[k].LinkTarget = x) = FromLinks(x) + One(hdr'[k].LinkTarget = x)
  BY <1>1, LinksCount
<1>4. FromSystem(x)' = FromSystem(x) /\ FromThreads(x)' = FromThreads(x)
  BY OthersSame
<1>5. FromCalls(x)' + Loses(t, x) = FromCalls(x) + Gains(items, x)
  BY <1>1, CallsChange
<1>6. FromHandles(x) = hdr[x].HandleCount /\ FromHandles(x)' = hdr'[x].HandleCount
  BY TableParts, TablePartsNext DEF IInv
<1>7. FromName(x) = Count(hdr[x].Directory # Null) /\ FromName(x)' = Count(hdr'[x].Directory # Null)
  BY DEF FromName
<1> DEFINE r == Refs(x)
           r1 == Refs(x)'
           h == FromHandles(x)
           h1 == FromHandles(x)'
           n == FromName(x)
           n1 == FromName(x)'
           e == FromEntries(x)
           e1 == FromEntries(x)'
           l == FromLinks(x)
           l1 == FromLinks(x)'
           c == FromCalls(x)
           c1 == FromCalls(x)'
           s == FromSystem(x) + FromThreads(x)
           d0 == One(hdr[k].Directory = x)
           d1 == One(hdr'[k].Directory = x)
           k0 == One(hdr[k].LinkTarget = x)
           k1 == One(hdr'[k].LinkTarget = x)
           lose == Loses(t, x)
           gain == Gains(items, x)
<1>8. /\ r \in Nat /\ r1 \in Nat /\ h \in Nat /\ h1 \in Nat /\ n \in Nat /\ n1 \in Nat
      /\ e \in Nat /\ e1 \in Nat /\ l \in Nat /\ l1 \in Nat /\ c \in Nat /\ c1 \in Nat /\ s \in Nat
  BY <1>1 DEF PartsOf
<1>9. d0 \in Nat /\ d1 \in Nat /\ k0 \in Nat /\ k1 \in Nat /\ lose \in Nat
  BY DEF One, Loses
<1>10. gain \in Nat
  <2>1. items \in Seq(Items)
    BY DEF Replaced
  <2> QED
    BY <2>1, OccursFinite DEF Gains
<1>11. r = h + n + e + l + c + s
  BY <1>1 DEF PartsOf
<1>12. r1 = h1 + n1 + e1 + l1 + c1 + s
  BY <1>1, <1>4 DEF PartsOf
<1>13. e1 + d0 = e + d1 /\ l1 + k0 = l + k1 /\ c1 + lose = c + gain
  BY <1>2, <1>3, <1>5
<1>14. Weight(hdr, k, x) = h + n + d0 + k0 /\ Weight(hdr', k, x) = h1 + n1 + d1 + k1
  BY <1>6, <1>7 DEF Weight
<1> HIDE DEF r, r1, h, h1, n, n1, e, e1, l, l1, c, c1, s, d0, d1, k0, k1, lose, gain
<1>15. r1 + (h + n + d0 + k0) + lose = r + (h1 + n1 + d1 + k1) + gain
  BY <1>8, <1>9, <1>10, <1>11, <1>12, <1>13
<1> QED
  BY <1>14, <1>15 DEF r, r1, lose, gain

(* A step whose counts balance. *)
LEMMA ObjectStep ==
    ASSUME IInv, NEW t \in Threads, NEW items, Replaced(t, items), UNCHANGED <<held, leaked>>,
           NEW k \in Objects,
           \A c \in Objects \ {k} : hdr'[c].Directory = hdr[c].Directory,
           \A c \in Objects \ {k} : hdr'[c].LinkTarget = hdr[c].LinkTarget,
           \A x \in Objects : Balanced(t, items, k, x),
           \A x \in Objects : Lives(x),
           TypeOK', ShapeOK', NewOK', CloseOK', FreeOK', HeadersOK', NativeOK',
           HandleTableSound', NamesSound', DriveMapFresh'
    PROVE  StepOK
<1>1. ASSUME NEW x \in Objects
      PROVE  hdr'[x].PointerCount = Refs(x)' + leaked[x] /\ Evolves(x)
  <2> DEFINE r == Refs(x)
             r1 == Refs(x)'
             p == hdr[x].PointerCount
             p1 == hdr'[x].PointerCount
             w == Weight(hdr, k, x)
             w1 == Weight(hdr', k, x)
             lose == Loses(t, x)
             gain == Gains(items, x)
             q == leaked[x]
  <2>1. r1 + w + lose = r + w1 + gain
    BY RefsChange
  <2>2. p1 + w + lose = p + w1 + gain
    BY DEF Balanced
  <2>3. p = r + q
    BY DEF IInv, RefCountExact
  <2>4. r \in Nat /\ r1 \in Nat
    BY PartsNow, PartsNext DEF PartsOf, IInv
  <2>5. p \in Nat /\ p1 \in Nat /\ q \in Nat
    BY DEF IInv, TypeOK, Headers
  <2>6. w \in Nat
    <3>1. hdr \in [Objects -> Headers]
      BY DEF IInv, TypeOK
    <3> QED
      BY <3>1 DEF Headers, Weight, One, Count
  <2>7. w1 \in Nat
    <3>1. hdr' \in [Objects -> Headers]
      BY DEF TypeOK
    <3> QED
      BY <3>1 DEF Headers, Weight, One, Count
  <2>8. lose \in Nat
    BY DEF One, Loses
  <2>9. gain \in Nat
    <3>1. items \in Seq(Items)
      BY DEF Replaced
    <3> QED
      BY <3>1, OccursFinite DEF Gains
  <2>10. Lives(x)
    OBVIOUS
  <2> HIDE DEF r, r1, p, p1, w, w1, lose, gain, q
  <2>11. p1 = r1 + q /\ (p = p1 => r = r1) /\ (p = 0 => r = 0 /\ q = 0)
    BY <2>1, <2>2, <2>3, <2>4, <2>5, <2>6, <2>7, <2>8, <2>9
  <2>12. /\ p = 0 /\ p1 > 0 => r = 0 /\ r1 > 0
         /\ p = 0 /\ p1 = 0 => r = 0 /\ r1 = 0
    BY <2>4, <2>5, <2>11
  <2>13. Evolves(x)
    <3>1. CASE hdr'[x].Type = hdr[x].Type /\ hdr'[x].PointerCount = hdr[x].PointerCount
      <4>1. Refs(x)' = Refs(x)
        BY <2>11, <3>1 DEF r, r1, p, p1
      <4> QED
        BY <3>1, <4>1 DEF Evolves
    <3>2. CASE hdr[x].Type # "free" /\ hdr'[x].Type # "free" /\ Refs(x) > 0
      BY <3>2 DEF Evolves
    <3>3. CASE /\ hdr[x].Type = "free" /\ hdr'[x].Type # "free"
               /\ hdr[x].PointerCount = 0 /\ hdr'[x].PointerCount > 0
      <4>1. Refs(x) = 0 /\ Refs(x)' > 0
        BY <2>12, <3>3 DEF r, r1, p, p1
      <4> QED
        BY <3>3, <4>1 DEF Evolves
    <3>4. CASE /\ hdr[x].Type # "free" /\ hdr'[x].Type = "free"
               /\ hdr[x].PointerCount = 0 /\ hdr'[x].PointerCount = 0
      <4>1. Refs(x) = 0 /\ Refs(x)' = 0
        BY <2>12, <3>4 DEF r, r1, p, p1
      <4> QED
        BY <3>4, <4>1 DEF Evolves
    <3> QED
      BY <2>10, <3>1, <3>2, <3>3, <3>4 DEF Lives
  <2> QED
    BY <2>11, <2>13 DEF p1, r1, q
<1>2. RefCountExact'
  BY <1>1 DEF RefCountExact
<1> QED
  BY <1>1, <1>2 DEF StepOK, IInv

(* Items that neither make an object known nor free one. *)
LEMMA HarmlessKept ==
    ASSUME IInv, NEW t \in Threads, NEW items, Replaced(t, items), Harmless(items),
           \A c \in Objects : hdr'[c] = hdr[c] \/ ~Pending(t, c)
    PROVE  NewOK' /\ FreeOK'
<1>1. \A i \in 1..Len(items) : ~IsNew(items[i]) /\ items[i].op # "free"
  BY DEF Harmless, IsNew
<1>2. NewOK'
  BY <1>1, NewKept
<1>3. FreeOK'
  BY <1>1, FreeKept
<1> QED
  BY <1>2, <1>3

(* A step that leaves the names of objects alone. *)
LEMMA NamesStay ==
    ASSUME IInv, drive' = drive, SameNames(hdr, hdr'),
           \A c \in Objects : hdr[c].Directory # Null =>
              /\ hdr'[c].Type = hdr[c].Type /\ hdr'[c].LinkTarget = hdr[c].LinkTarget
              /\ hdr'[c].HandleCount >= hdr[c].HandleCount
              /\ hdr[c].Flags \subseteq hdr'[c].Flags,
           \A d \in Objects : InUse(d) => hdr'[d].Type = hdr[d].Type,
           hdr' \in [Objects -> Headers]
    PROVE  NamesSound' /\ DriveMapFresh'
<1>1. hdr \in [Objects -> Headers]
  BY DEF IInv, TypeOK
<1>2. NamesIn(hdr) /\ DriveIn(hdr, drive)
  BY NamesAre DEF IInv
<1>3. \A c \in Objects : hdr[c].Directory # Null => hdr'[hdr[c].Directory].Type = "Directory"
  <2> SUFFICES ASSUME NEW c \in Objects, hdr[c].Directory # Null
               PROVE  hdr'[hdr[c].Directory].Type = "Directory"
    OBVIOUS
  <2> DEFINE d == hdr[c].Directory
  <2>1. d \in Objects
    BY <1>1 DEF Headers
  <2>2. hdr[d].Type = "Directory"
    BY <1>2 DEF NamesIn, NameIn
  <2>3. InUse(d)
    BY <2>1, NamedInUse
  <2> HIDE DEF d
  <2>4. hdr'[d].Type = "Directory"
    BY <2>1, <2>2, <2>3
  <2> QED
    BY <2>4 DEF d
<1>4. \A c \in Objects :
         hdr[c].Directory # Null => hdr'[c].HandleCount > 0 \/ "PERMANENT" \in hdr'[c].Flags
  <2> SUFFICES ASSUME NEW c \in Objects, hdr[c].Directory # Null
               PROVE  hdr'[c].HandleCount > 0 \/ "PERMANENT" \in hdr'[c].Flags
    OBVIOUS
  <2>1. hdr[c].HandleCount > 0 \/ "PERMANENT" \in hdr[c].Flags
    BY <1>2 DEF NamesIn, NameIn
  <2>2. hdr[c].HandleCount \in Nat /\ hdr'[c].HandleCount \in Nat
    BY <1>1 DEF Headers
  <2> QED
    BY <2>1, <2>2
<1>5. NamesIn(hdr')
  BY <1>1, <1>2, <1>3, <1>4, NamesKept
<1>6. DriveIn(hdr', drive)
  BY <1>2, DriveKept
<1> QED
  BY <1>5, <1>6, NamesAre

(* A handle for o. *)
LEMMA HandleMade ==
    ASSUME IInv, NEW o \in Objects, HandlesLeft, ObpCreateObjectHandle(o),
           hdr' \in [Objects -> Headers],
           \A c \in Objects : hdr'[c].HandleCount = hdr[c].HandleCount + One(c = o)
    PROVE  /\ table' \in [Handles -> Objects \cup {Null}]
           /\ free' \in Seq(Handles)
           /\ tables' \in 0..MaxTables
           /\ HandleTableSound'
           /\ \A h \in Handles : table[h] # Null => table'[h] # Null
<1>1. TypeOK /\ table \in [Handles -> Objects \cup {Null}] /\ hdr \in [Objects -> Headers]
  BY DEF IInv, TypeOK
<1>2. /\ free' \in Seq(Handles) /\ tables' \in 0..MaxTables /\ ChainOK'
      /\ \E h \in Handles : table[h] = Null /\ table' = [table EXCEPT ![h] = o]
  BY HandleCreated
<1>3. PICK h \in Handles : table[h] = Null /\ table' = [table EXCEPT ![h] = o]
  BY <1>2
<1>4. o # Null
  BY ObAssumption
<1>5. /\ table' \in [Handles -> Objects \cup {Null}]
      /\ \A g \in Handles : table[g] # Null => table'[g] # Null
  BY <1>1, <1>3, <1>4
<1>6. \A x \in Objects : hdr'[x].HandleCount = FromHandles(x)'
  <2> TAKE x \in Objects
  <2>1. SetsEntry(h, o)
    BY <1>3 DEF SetsEntry
  <2>2. hdr[x].HandleCount = FromHandles(x)
    BY TableParts DEF IInv
  <2>3. table[h] # x
    BY <1>3, ObAssumption
  <2>4. /\ FromHandles(x) \in Nat
        /\ o # x => FromHandles(x)' = FromHandles(x)
        /\ o = x => FromHandles(x)' = FromHandles(x) + 1
    BY <1>1, <2>1, <2>3, TableCount
  <2>5. /\ o # x => hdr'[x].HandleCount = hdr[x].HandleCount + 0
        /\ o = x => hdr'[x].HandleCount = hdr[x].HandleCount + 1
    BY DEF One
  <2> QED
    BY <2>2, <2>4, <2>5
<1> QED
  BY <1>2, <1>5, <1>6, TablePartsNext

(* A handle to o is taken back. *)
LEMMA HandleGone ==
    ASSUME IInv, NEW h \in Handles, NEW o \in Objects, table[h] = o, ObpDestroyObjectHandle(h),
           hdr' \in [Objects -> Headers],
           \A c \in Objects : hdr'[c].HandleCount + One(c = o) = hdr[c].HandleCount
    PROVE  /\ table' \in [Handles -> Objects \cup {Null}]
           /\ free' \in Seq(Handles)
           /\ tables' \in 0..MaxTables
           /\ HandleTableSound'
           /\ table'[h] = Null /\ \A g \in Handles \ {h} : table'[g] = table[g]
<1>1. TypeOK /\ table \in [Handles -> Objects \cup {Null}] /\ tables \in 0..MaxTables
  BY DEF IInv, TypeOK
<1>2. o # Null
  BY ObAssumption
<1>3. /\ table' \in [Handles -> Objects \cup {Null}] /\ free' \in Seq(Handles)
      /\ tables' = tables /\ ChainOK'
  BY <1>2, HandleDestroyed
<1>4. table' = [table EXCEPT ![h] = Null]
  BY DEF ObpDestroyObjectHandle
<1>5. \A x \in Objects : hdr'[x].HandleCount = FromHandles(x)'
  <2> TAKE x \in Objects
  <2>1. SetsEntry(h, Null)
    BY <1>4 DEF SetsEntry
  <2>2. hdr[x].HandleCount = FromHandles(x)
    BY TableParts DEF IInv
  <2>3. x # Null
    BY ObAssumption
  <2>4. /\ FromHandles(x) \in Nat /\ FromHandles(x)' \in Nat
        /\ o # x => FromHandles(x)' = FromHandles(x)
        /\ o = x => FromHandles(x)' + 1 = FromHandles(x)
    BY <1>1, <2>1, <2>3, TableCount
  <2>5. /\ hdr'[x].HandleCount \in Nat
        /\ o # x => hdr'[x].HandleCount + 0 = hdr[x].HandleCount
        /\ o = x => hdr'[x].HandleCount + 1 = hdr[x].HandleCount
    BY DEF One, Headers
  <2> QED
    BY <2>2, <2>4, <2>5
<1> QED
  BY <1>1, <1>3, <1>4, <1>5, TablePartsNext

(* A header with another handle count. *)
LEMMA HeaderWithHandles ==
    ASSUME NEW header \in Headers, NEW n \in Nat, NEW new, new = [header EXCEPT !.HandleCount = n]
    PROVE  /\ new \in Headers
           /\ new.HandleCount = n
           /\ new.Type = header.Type /\ new.PointerCount = header.PointerCount
           /\ new.Flags = header.Flags /\ new.Directory = header.Directory
           /\ new.Name = header.Name /\ new.LinkTarget = header.LinkTarget
           /\ new.Registered = header.Registered
BY DEF Headers

(* ObpGetHandleByObjectThenDereferenceInline, when there is a handle for the object. *)
LEMMA GotHandleOK ==
    ASSUME IInv, NEW t \in Threads, NEW op \in {"handle", "duplicate"}, At(t, op),
           HandlesLeft, ObpCreateObjectHandle(Arg(t)),
           hdr' = [hdr EXCEPT ![Arg(t)].HandleCount = @ + 1],
           Then(t, <<>>), UNCHANGED <<drive, native, held, leaked, fault>>
    PROVE  StepOK
<1> DEFINE o == Arg(t)
           items == <<>>
<1>1. TypeOK /\ hdr \in [Objects -> Headers]
  BY DEF IInv, TypeOK
<1>2. /\ work[t] # <<>> /\ Head(work[t]) \in Items
      /\ Head(work[t]).op = op /\ Head(work[t]).arg = o
      /\ \A x : Loses(t, x) = One(op \in {"deref", "handle", "duplicate", "link", "parse"} /\ o = x)
  BY HeadIs
<1>3. InUse(o) /\ o \in Objects
  <2>1. InUse(Head(work[t]).arg)
    BY <1>2, HeadInUse
  <2> QED
    BY <1>2, <2>1 DEF InUse
<1>4. Then(t, items) /\ ObpCreateObjectHandle(o) /\ hdr' = [hdr EXCEPT ![o].HandleCount = @ + 1]
  OBVIOUS
<1> HIDE DEF o
<1>5. items \in Seq(Items) /\ Len(items) = 0 /\ \A x : Gains(items, x) = 0
  BY GainsNone
<1> HIDE DEF items
<1>6. Replaced(t, items)
  BY <1>1, <1>2, <1>4, <1>5, ThenReplaces
<1>7. \A x : Loses(t, x) = One(o = x)
  BY <1>2
<1>8. hdr[o] \in Headers /\ hdr[o].HandleCount + 1 \in Nat
  BY <1>1, <1>3 DEF Headers
<1>9. hdr'[o] = [hdr[o] EXCEPT !.HandleCount = hdr[o].HandleCount + 1]
      /\ \A c \in Objects : c # o => hdr'[c] = hdr[c]
  BY <1>1, <1>3, <1>4
<1>10. /\ hdr'[o] \in Headers
       /\ hdr'[o].HandleCount = hdr[o].HandleCount + 1
       /\ hdr'[o].Type = hdr[o].Type /\ hdr'[o].PointerCount = hdr[o].PointerCount
       /\ hdr'[o].Flags = hdr[o].Flags /\ hdr'[o].Directory = hdr[o].Directory
       /\ hdr'[o].Name = hdr[o].Name /\ hdr'[o].LinkTarget = hdr[o].LinkTarget
       /\ hdr'[o].Registered = hdr[o].Registered
  BY <1>8, <1>9, HeaderWithHandles
<1>11. hdr' \in [Objects -> Headers]
  BY <1>1, <1>3, <1>4, <1>9, <1>10
<1>12. \A c \in Objects :
         /\ hdr'[c].HandleCount = hdr[c].HandleCount + One(c = o)
         /\ hdr[c].HandleCount \in Nat
         /\ hdr'[c].Type = hdr[c].Type /\ hdr'[c].PointerCount = hdr[c].PointerCount
         /\ hdr'[c].Flags = hdr[c].Flags /\ hdr'[c].Directory = hdr[c].Directory
         /\ hdr'[c].Name = hdr[c].Name /\ hdr'[c].LinkTarget = hdr[c].LinkTarget
         /\ hdr'[c].Registered = hdr[c].Registered
  <2> TAKE c \in Objects
  <2>1. hdr[c].HandleCount \in Nat
    BY <1>1 DEF Headers
  <2>2. CASE c = o
    BY <1>10, <2>1, <2>2 DEF One
  <2>3. CASE c # o
    <3>1. hdr'[c] = hdr[c]
      BY <1>9, <2>3
    <3>2. hdr[c].HandleCount = hdr[c].HandleCount + One(c = o)
      BY <2>1, <2>3 DEF One
    <3> QED
      BY <2>1, <3>1, <3>2
  <2> QED
    BY <2>2, <2>3
<1>13. /\ table' \in [Handles -> Objects \cup {Null}]
       /\ free' \in Seq(Handles)
       /\ tables' \in 0..MaxTables
       /\ HandleTableSound'
       /\ \A h \in Handles : table[h] # Null => table'[h] # Null
  BY <1>3, <1>4, <1>11, <1>12, HandleMade
<1>14. TypeOK'
  <2>1. work' \in [Threads -> Seq(Items)]
    BY <1>1, <1>6, Positions
  <2> QED
    BY <1>1, <1>11, <1>13, <2>1 DEF TypeOK
<1>15. Shaped(t, items) /\ Harmless(items) /\ ShapeOK'
  <2>1. Shaped(t, items) /\ Harmless(items)
    BY <1>5 DEF Shaped, Harmless
  <2> QED
    BY <1>6, <2>1, ShapeKept DEF Shaped
<1>16. NewOK' /\ FreeOK'
  BY <1>3, <1>6, <1>9, <1>15, HarmlessKept, InUseNotPending
<1>17. CloseOK'
  BY <1>5, <1>6, <1>13, NoCloses
<1>18. HeadersOK'
  <2>1. \A c \in Objects : HeaderOK(hdr[c])
    BY DEF IInv, HeadersOK
  <2>2. hdr[o].Type # "free"
    BY <1>3, InUseCounted
  <2>3. HeaderOK(hdr'[o])
    BY <1>3, <1>10, <2>1, <2>2 DEF HeaderOK
  <2>4. \A c \in Objects : HeaderOK(hdr'[c])
    BY <1>9, <2>1, <2>3
  <2> QED
    BY <2>4 DEF HeadersOK
<1>19. NativeOK'
  <2>1. \A x \in native' : hdr'[x].Registered \/ (x \in native /\ ~hdr[x].Registered)
    BY <1>1, <1>12 DEF TypeOK
  <2>2. \A x : Head(work[t]) # Item("unregister", x)
    BY <1>2 DEF Item
  <2> QED
    BY <1>6, <2>1, <2>2, NativeKept
<1>20. NamesSound' /\ DriveMapFresh'
  <2>1. \A c \in Objects : hdr'[c].HandleCount >= hdr[c].HandleCount
    BY <1>12 DEF One
  <2>2. SameNames(hdr, hdr')
    BY <1>12 DEF SameNames
  <2> QED
    BY <1>11, <1>12, <2>1, <2>2, NamesStay
<1>21. ASSUME NEW x \in Objects PROVE Balanced(t, items, o, x)
  <2> DEFINE p == hdr[x].PointerCount
             h == hdr[x].HandleCount
             n == Count(hdr[x].Directory # Null)
             d == One(hdr[o].Directory = x)
             l == One(hdr[o].LinkTarget = x)
             i == One(x = o)
  <2>1. Weight(hdr, o, x) = h + n + d + l
    BY DEF Weight
  <2>2. Weight(hdr', o, x) = h + i + n + d + l
    BY <1>3, <1>12 DEF Weight
  <2>3. Loses(t, x) = i /\ Gains(items, x) = 0 /\ hdr'[x].PointerCount = p
    BY <1>5, <1>7, <1>12 DEF One
  <2>4. p \in Nat /\ h \in Nat /\ n \in Nat /\ d \in Nat /\ l \in Nat /\ i \in Nat
    BY <1>1 DEF Headers, Count, One
  <2> HIDE DEF p, h, n, d, l, i
  <2>5. p + (h + n + d + l) + i = p + ((h + i) + n + d + l) + 0
    BY <2>4
  <2> QED
    BY <2>1, <2>2, <2>3, <2>5 DEF Balanced, p
<1>22. \A x \in Objects : Lives(x)
  BY <1>12 DEF Lives
<1>23. UNCHANGED <<held, leaked>>
  OBVIOUS
<1> QED
  BY <1>3, <1>6, <1>12, <1>14, <1>15, <1>16, <1>17, <1>18, <1>19, <1>13, <1>20, <1>21, <1>22, <1>23, ObjectStep

(* NtDuplicateObject returns with a reference that nobody drops. *)
LEMMA LeakOK ==
    ASSUME IInv, NEW t \in Threads, At(t, "duplicate"), Then(t, <<>>),
           leaked' = [leaked EXCEPT ![Arg(t)] = @ + 1],
           UNCHANGED <<hdr, table, free, tables, drive, native, held, fault>>
    PROVE  StepOK
<1> DEFINE o == Arg(t)
           items == <<>>
<1>1. /\ work[t] # <<>> /\ Head(work[t]).op = "duplicate" /\ Head(work[t]).arg = o
      /\ \A x : Loses(t, x) = One("duplicate" \in {"deref", "handle", "duplicate", "link", "parse"} /\ o = x)
  BY HeadIs
<1>2. InUse(o) /\ o \in Objects
  <2>1. InUse(Head(work[t]).arg)
    BY <1>1, HeadInUse
  <2> QED
    BY <1>1, <2>1 DEF InUse
<1>3. Then(t, items) /\ leaked' = [leaked EXCEPT ![o] = @ + 1]
  OBVIOUS
<1> HIDE DEF o
<1>4. items \in Seq(Items) /\ Len(items) = 0 /\ \A x : Gains(items, x) = 0
  BY GainsNone
<1> HIDE DEF items
<1>5. TypeOK /\ leaked \in [Objects -> Nat] /\ hdr \in [Objects -> Headers]
  BY DEF IInv, TypeOK
<1>6. Replaced(t, items)
  BY <1>1, <1>3, <1>4, <1>5, ThenReplaces
<1>7. Plain(items)
  BY <1>4 DEF Plain
<1>8. Shaped(t, items) /\ Harmless(items)
  BY <1>6, <1>7, PlainFits
<1>9. CloseOK'
  BY <1>6, <1>7, NoCloses DEF Plain, Closes
<1>10. leaked' \in [Objects -> Nat]
  BY <1>2, <1>3, <1>5
<1>11. \A c \in Objects : c # o => leaked'[c] = leaked[c]
  BY <1>3, <1>5
<1>12. \A c \in Objects : /\ SameButCount(hdr'[c], hdr[c])
                          /\ \/ InUse(c)
                             \/ hdr'[c] = hdr[c] /\ (leaked'[c] = leaked[c] \/ Refs(c) > 0)
  BY <1>2, <1>11 DEF SameButCount
<1>13. hdr' \in [Objects -> Headers] /\ held' \in [Threads -> Seq(Objects)] /\ fault' \in BOOLEAN
  BY <1>5 DEF TypeOK
<1>14. ASSUME NEW x \in Objects
       PROVE  hdr'[x].PointerCount + leaked[x] + Loses(t, x) + FromThreads(x)
              = hdr[x].PointerCount + leaked'[x] + Gains(items, x) + FromThreads(x)'
  <2> DEFINE p == hdr[x].PointerCount
             k == leaked[x]
             f == FromThreads(x)
             i == One(o = x)
  <2>1. hdr'[x].PointerCount = p /\ FromThreads(x)' = f
    BY OthersSame
  <2>2. leaked'[x] = k + i
    <3>1. CASE x = o
      BY <1>3, <1>5, <3>1 DEF One
    <3>2. CASE x # o
      BY <1>5, <1>11, <3>2 DEF One
    <3> QED
      BY <3>1, <3>2
  <2>3. Loses(t, x) = i /\ Gains(items, x) = 0
    BY <1>1, <1>4 DEF One
  <2>4. p \in Nat /\ k \in Nat /\ i \in Nat
    BY <1>5 DEF Headers, One
  <2>5. f \in Nat
    BY <1>5, PartsNow DEF PartsOf
  <2> HIDE DEF p, k, f, i
  <2>6. p + k + i + f = p + (k + i) + 0 + f
    BY <2>4, <2>5
  <2> QED
    BY <2>1, <2>2, <2>3, <2>6 DEF p, k, f
<1>15. NewItemsOK(items)
  BY <1>8, HarmlessFits
<1>16. Moves(t, items)
  BY <1>14 DEF Moves
<1> QED
  BY <1>1, <1>6, <1>8, <1>9, <1>10, <1>12, <1>13, <1>15, <1>16, QuietStep

(* ObpGetHandleByObjectThenDereferenceInline *)
LEMMA GetHandleOK ==
    ASSUME IInv, NEW t \in Threads, ObpGetHandleByObject(t)
    PROVE  StepOK
<1> DEFINE o == Arg(t)
           kind == Head(work[t]).op
<1>1. PICK op \in {"handle", "duplicate"} : At(t, op)
  BY DEF ObpGetHandleByObject
<1>2. kind = op
  BY <1>1 DEF At
<1>3. UNCHANGED <<drive, native, held, fault>>
  BY DEF ObpGetHandleByObject
<1>4. \/ /\ HandlesLeft
         /\ ObpCreateObjectHandle(o)
         /\ hdr' = [hdr EXCEPT ![o].HandleCount = @ + 1]
         /\ Then(t, <<>>)
         /\ UNCHANGED leaked
      \/ /\ \/ /\ kind = "handle"
               /\ Then(t, Deref(o))
               /\ UNCHANGED leaked
            \/ /\ kind = "duplicate"
               /\ Then(t, <<>>)
               /\ leaked' = [leaked EXCEPT ![o] = @ + 1]
         /\ UNCHANGED <<hdr, table, free, tables>>
  BY DEF ObpGetHandleByObject
<1> HIDE DEF kind
<1>5. CASE /\ HandlesLeft
           /\ ObpCreateObjectHandle(o)
           /\ hdr' = [hdr EXCEPT ![o].HandleCount = @ + 1]
           /\ Then(t, <<>>)
           /\ UNCHANGED leaked
  BY <1>1, <1>3, <1>5, GotHandleOK
<1>6. CASE /\ kind = "handle" /\ Then(t, Deref(o)) /\ UNCHANGED leaked
           /\ UNCHANGED <<hdr, table, free, tables>>
  BY <1>1, <1>2, <1>3, <1>6, GiveUp
<1>7. CASE /\ kind = "duplicate" /\ Then(t, <<>>) /\ leaked' = [leaked EXCEPT ![o] = @ + 1]
           /\ UNCHANGED <<hdr, table, free, tables>>
  BY <1>1, <1>2, <1>3, <1>7, LeakOK
<1> QED
  BY <1>4, <1>5, <1>6, <1>7

(* ObfDereferenceObject drops a reference that is not the last. *)
LEMMA DerefOK ==
    ASSUME IInv, NEW t \in Threads, ObfDereferenceObject(t), hdr[Arg(t)].PointerCount # 1
    PROVE  StepOK
<1> DEFINE o == Arg(t)
           items == <<>>
           n == hdr[o].PointerCount - 1
           v == hdr[o].LinkTarget
<1>1. /\ At(t, "deref")
      /\ hdr' = [hdr EXCEPT ![o].PointerCount = @ - 1, ![o].LinkTarget = @]
      /\ Then(t, items)
      /\ UNCHANGED <<table, free, tables, drive, native, held, leaked, fault>>
  BY DEF ObfDereferenceObject
<1>2. /\ work[t] # <<>> /\ Head(work[t]).op = "deref" /\ Head(work[t]).arg = o
      /\ \A x : Loses(t, x) = One("deref" \in {"deref", "handle", "duplicate", "link", "parse"} /\ o = x)
  BY <1>1, HeadIs
<1>3. InUse(o) /\ o \in Objects
  <2>1. InUse(Head(work[t]).arg)
    BY <1>2, HeadInUse
  <2> QED
    BY <1>2, <2>1 DEF InUse
<1>4. TypeOK /\ leaked \in [Objects -> Nat] /\ hdr \in [Objects -> Headers]
  BY DEF IInv, TypeOK
<1>5. n \in Nat /\ v \in Objects \cup {Null} /\ hdr[o] \in Headers /\ hdr[o].PointerCount = n + 1
  <2>1. hdr[o].PointerCount > 0
    BY <1>3, InUseCounted
  <2> QED
    BY <1>3, <1>4, <2>1 DEF Headers
<1>6. hdr'[o] = [hdr[o] EXCEPT !.PointerCount = n, !.LinkTarget = v]
      /\ \A c \in Objects : c # o => hdr'[c] = hdr[c]
  BY <1>1, <1>3, <1>4
<1> HIDE DEF o, n
<1>7. /\ hdr'[o] \in Headers /\ hdr'[o].PointerCount = n
      /\ SameButCount(hdr'[o], hdr[o])
  <2> DEFINE new == hdr'[o]
             old == hdr[o]
  <2>1. old \in Headers /\ new = [old EXCEPT !.PointerCount = n, !.LinkTarget = v] /\ v = old.LinkTarget
    BY <1>5, <1>6
  <2> HIDE DEF new, old, v
  <2>2. /\ new \in Headers /\ new.PointerCount = n /\ new.LinkTarget = v
        /\ new.Type = old.Type /\ new.HandleCount = old.HandleCount
        /\ new.Flags = old.Flags /\ new.Directory = old.Directory
        /\ new.Name = old.Name /\ new.Registered = old.Registered
    BY <1>5, <2>1 DEF Headers
  <2>3. SameButCount(new, old)
    BY <2>1, <2>2 DEF SameButCount
  <2> QED
    BY <2>2, <2>3 DEF new, old
<1>8. hdr' \in [Objects -> Headers]
  BY <1>1, <1>3, <1>4, <1>6, <1>7
<1>9. items \in Seq(Items) /\ Len(items) = 0 /\ \A x : Gains(items, x) = 0
  BY GainsNone
<1> HIDE DEF items
<1>10. Replaced(t, items)
  BY <1>1, <1>2, <1>4, <1>9, ThenReplaces
<1>11. Plain(items)
  BY <1>9 DEF Plain
<1>12. Shaped(t, items) /\ Harmless(items)
  BY <1>10, <1>11, PlainFits
<1>13. CloseOK'
  BY <1>1, <1>10, <1>11, NoCloses DEF Plain, Closes
<1>14. \A c \in Objects : /\ SameButCount(hdr'[c], hdr[c])
                          /\ \/ InUse(c)
                             \/ hdr'[c] = hdr[c] /\ (leaked'[c] = leaked[c] \/ Refs(c) > 0)
  BY <1>1, <1>3, <1>6, <1>7 DEF SameButCount
<1>15. held' \in [Threads -> Seq(Objects)] /\ leaked' \in [Objects -> Nat] /\ fault' \in BOOLEAN
  BY <1>1, <1>4 DEF TypeOK
<1>16. ASSUME NEW x \in Objects
       PROVE  hdr'[x].PointerCount + leaked[x] + Loses(t, x) + FromThreads(x)
              = hdr[x].PointerCount + leaked'[x] + Gains(items, x) + FromThreads(x)'
  <2> DEFINE p == hdr[x].PointerCount
             p1 == hdr'[x].PointerCount
             k == leaked[x]
             f == FromThreads(x)
             i == One(o = x)
  <2>1. leaked'[x] = k /\ FromThreads(x)' = f
    BY <1>1, OthersSame
  <2>2. p = p1 + i
    <3>1. CASE x = o
      BY <1>5, <1>7, <3>1 DEF One
    <3>2. CASE x # o
      <4>1. p1 = p /\ p \in Nat
        BY <1>4, <1>6, <3>2 DEF Headers
      <4>2. i = 0
        BY <3>2 DEF One
      <4> QED
        BY <4>1, <4>2
    <3> QED
      BY <3>1, <3>2
  <2>3. Loses(t, x) = i /\ Gains(items, x) = 0
    BY <1>2, <1>9 DEF One
  <2>4. p1 \in Nat /\ k \in Nat /\ i \in Nat
    BY <1>4, <1>8 DEF Headers, One
  <2>5. f \in Nat
    BY <1>4, PartsNow DEF PartsOf
  <2> HIDE DEF p, p1, k, f, i
  <2>6. p1 + k + i + f = p + k + 0 + f
    BY <2>2, <2>4, <2>5
  <2> QED
    BY <2>1, <2>3, <2>6 DEF p, p1, k, f
<1>17. NewItemsOK(items)
  BY <1>12, HarmlessFits
<1>18. Moves(t, items)
  BY <1>16 DEF Moves
<1> QED
  BY <1>1, <1>2, <1>8, <1>10, <1>12, <1>13, <1>14, <1>15, <1>17, <1>18, QuietStep

(* The last reference: nothing else refers to the object. *)
LEMMA LastReference ==
    ASSUME IInv, NEW t \in Threads, At(t, "deref"), NEW o, o = Arg(t), hdr[o].PointerCount = 1
    PROVE  /\ InUse(o) /\ o \in Slots /\ o \in Objects
           /\ hdr[o].Directory = Null
           /\ hdr[o].LinkTarget # o
<1>1. /\ work[t] # <<>> /\ Head(work[t]).op = "deref" /\ Head(work[t]).arg = o
      /\ 1 \in DOMAIN work[t] /\ work[t][1] = Head(work[t])
  BY HeadIs
<1>2. InUse(o) /\ o \in Objects
  <2>1. InUse(Head(work[t]).arg)
    BY <1>1, HeadInUse
  <2> QED
    BY <1>1, <2>1 DEF InUse
<1>3. TypeOK /\ leaked[o] \in Nat
  BY <1>2 DEF IInv, TypeOK
<1>4. FromCalls(o) >= 1
  <2>1. Holds(work[t][1], o)
    BY <1>1 DEF Holds
  <2> QED
    BY <1>1, <1>2, <1>3, <2>1, Evidence
<1>5. PartsOf(o)
  BY <1>2, <1>3, PartsNow
<1>6. 1 = Refs(o) + leaked[o]
  BY <1>2 DEF IInv, RefCountExact
<1>7. FromName(o) = 0 /\ FromLinks(o) = 0 /\ FromSystem(o) = 0
  <2> DEFINE a == FromCalls(o)
             b == leaked[o]
             c == FromName(o)
             d == FromHandles(o)
             e == FromEntries(o)
             f == FromLinks(o)
             g == FromThreads(o)
             h == FromSystem(o)
             r == Refs(o)
  <2>1. a \in Nat /\ b \in Nat /\ c \in Nat /\ d \in Nat /\ e \in Nat /\ f \in Nat /\ g \in Nat /\ h \in Nat
    BY <1>3, <1>5 DEF PartsOf
  <2>2. a >= 1 /\ 1 = r + b /\ r = d + c + e + f + h + a + g
    BY <1>4, <1>5, <1>6 DEF PartsOf
  <2> HIDE DEF a, b, c, d, e, f, g, h, r
  <2>3. c = 0 /\ f = 0 /\ h = 0
    BY <2>1, <2>2
  <2> QED
    BY <2>3 DEF c, f, h
<1>8. hdr[o].Directory = Null
  BY <1>7 DEF FromName, Count
<1>9. o \in Slots
  BY <1>2, <1>7 DEF FromSystem, Count, Objects
<1>10. hdr[o].LinkTarget # o
  <2>1. (\E c \in Objects : hdr[c].LinkTarget = o) => FromLinks(o) >= 1
    BY <1>2, <1>3, Evidence
  <2> QED
    BY <1>2, <1>7, <2>1
<1> QED
  BY <1>2, <1>8, <1>9, <1>10

(* The handle table and the handle counts stay as they are. *)
LEMMA TableStays ==
    ASSUME IInv, UNCHANGED <<table, free, tables>>,
           \A c \in Objects : hdr'[c].HandleCount = hdr[c].HandleCount
    PROVE  HandleTableSound'
<1>1. ChainOK /\ \A o \in Objects : hdr[o].HandleCount = FromHandles(o)
  BY TableParts DEF IInv
<1>2. ChainOK'
  BY <1>1 DEF ChainOK, Used
<1>3. \A o \in Objects : hdr'[o].HandleCount = FromHandles(o)'
  BY <1>1, OthersSame
<1> QED
  BY <1>2, <1>3, TablePartsNext

(* The work left after the last dereference: the link's target, then the memory. *)
IsLast(items, link, o) ==
    /\ items \in Seq(Items)
    /\ \A i \in 1..Len(items) :
          items[i] = Item("free", o) \/ (link # Null /\ items[i] = Item("deref", link))
    /\ \A i, j \in 1..Len(items) : items[i] = items[j] => i = j
    /\ \A x \in Objects : Gains(items, x) = One(link = x)

(* It is such a list. *)
LEMMA LastItems ==
    ASSUME NEW link \in Objects \cup {Null}, NEW o \in Objects
    PROVE  IsLast((IF link # Null THEN Deref(link) ELSE <<>>) \o <<Item("free", o)>>, link, o)
<1> DEFINE items == (IF link # Null THEN Deref(link) ELSE <<>>) \o <<Item("free", o)>>
           b == Item("free", o)
<1>1. b \in Items /\ b.op = "free" /\ \A y : ~Holds(b, y)
  BY ItemIs
<1>2. CASE link # Null
  <2> DEFINE a == Item("deref", link)
  <2>1. a \in Items /\ a.op = "deref" /\ \A y : Holds(a, y) <=> link = y
    BY <1>2, ItemIs
  <2>2. items = <<a>> \o <<b>>
    BY <1>2 DEF Deref
  <2>3. IsPair(items, a, b)
    BY <1>1, <2>1, <2>2, PairIs
  <2>4. a # b
    BY <1>1, <2>1
  <2> HIDE DEF a, b, items
  <2>5. \A i \in 1..Len(items) : i = 1 \/ i = 2
    BY <2>3 DEF IsPair
  <2>6. \A i \in 1..Len(items) : items[i] = b \/ items[i] = a
    BY <2>3, <2>5 DEF IsPair
  <2>7. \A i, j \in 1..Len(items) : items[i] = items[j] => i = j
    BY <2>3, <2>4, <2>5 DEF IsPair
  <2>8. \A x \in Objects : Gains(items, x) = One(link = x)
    <3> TAKE x \in Objects
    <3>1. Gains(items, x) = One(Holds(a, x)) + One(Holds(b, x))
      BY <2>3 DEF IsPair
    <3> QED
      BY <1>1, <2>1, <3>1 DEF One
  <2>9. items \in Seq(Items)
    BY <2>3 DEF IsPair
  <2>10. IsLast(items, link, o)
    BY <1>2, <2>6, <2>7, <2>8, <2>9 DEF IsLast, a, b
  <2> QED
    BY <2>10 DEF items
<1>3. CASE link = Null
  <2> DEFINE w == <<b>>
  <2>1. items = <<>> \o w
    BY <1>3
  <2>2. w \in Seq(Items) /\ Len(w) = 1 /\ w[1] = b
    BY <1>1
  <2>3. \A x : Gains(w, x) = One(Holds(b, x))
    BY <1>1, GainsOne
  <2> HIDE DEF w
  <2>4. items = w
    BY <2>1, <2>2, ConcatEmptySeq
  <2>5. \A x \in Objects : One(Holds(b, x)) = One(link = x)
    BY <1>1, <1>3, ObAssumption DEF One
  <2> HIDE DEF b, items
  <2>6. \A i \in 1..Len(w) : i = 1
    BY <2>2
  <2>7. \A x \in Objects : Gains(w, x) = One(link = x)
    BY <2>3, <2>5
  <2>8. /\ \A i \in 1..Len(w) : w[i] = b
        /\ \A i, j \in 1..Len(w) : w[i] = w[j] => i = j
    BY <2>2, <2>6
  <2>9. IsLast(w, link, o)
    BY <2>2, <2>7, <2>8 DEF IsLast, b
  <2> QED
    BY <2>4, <2>9 DEF items
<1> QED
  BY <1>2, <1>3

(* ObfDereferenceObject drops the last reference. *)
LEMMA LastDerefOK ==
    ASSUME IInv, NEW t \in Threads, ObfDereferenceObject(t), hdr[Arg(t)].PointerCount = 1
    PROVE  StepOK
<1> DEFINE o == Arg(t)
           link == hdr[o].LinkTarget
           items == (IF link # Null THEN Deref(link) ELSE <<>>) \o <<Item("free", o)>>
<1>1. /\ At(t, "deref")
      /\ hdr' = [hdr EXCEPT ![o].PointerCount = @ - 1, ![o].LinkTarget = Null]
      /\ Then(t, items)
      /\ UNCHANGED <<table, free, tables, drive, native, held, leaked, fault>>
  BY DEF ObfDereferenceObject
<1>2. /\ work[t] # <<>> /\ Head(work[t]).op = "deref"
      /\ \A x : Loses(t, x) = One("deref" \in {"deref", "handle", "duplicate", "link", "parse"} /\ o = x)
  BY <1>1, HeadIs
<1>3. /\ InUse(o) /\ o \in Slots /\ o \in Objects
      /\ hdr[o].Directory = Null /\ link # o
  BY <1>1, LastReference
<1>4. TypeOK /\ hdr \in [Objects -> Headers] /\ hdr[o] \in Headers
  BY <1>3 DEF IInv, TypeOK
<1>5. hdr[o].PointerCount = 1 /\ link \in Objects \cup {Null}
  BY <1>4 DEF Headers
<1>6. hdr'[o] = [hdr[o] EXCEPT !.PointerCount = 0, !.LinkTarget = Null]
      /\ \A c \in Objects : c # o => hdr'[c] = hdr[c]
  BY <1>1, <1>3, <1>4, <1>5
<1> HIDE DEF o
<1>7. /\ hdr'[o] \in Headers /\ hdr'[o].PointerCount = 0 /\ hdr'[o].LinkTarget = Null
      /\ hdr'[o].Type = hdr[o].Type /\ hdr'[o].HandleCount = hdr[o].HandleCount
      /\ hdr'[o].Directory = hdr[o].Directory /\ hdr'[o].Registered = hdr[o].Registered
  <2> DEFINE new == hdr'[o]
             old == hdr[o]
  <2>1. old \in Headers /\ new = [old EXCEPT !.PointerCount = 0, !.LinkTarget = Null]
    BY <1>4, <1>6
  <2> HIDE DEF new, old
  <2>2. /\ new \in Headers /\ new.PointerCount = 0 /\ new.LinkTarget = Null
        /\ new.Type = old.Type /\ new.HandleCount = old.HandleCount
        /\ new.Directory = old.Directory /\ new.Registered = old.Registered
    BY <2>1 DEF Headers
  <2> QED
    BY <2>2 DEF new, old
<1>8. hdr' \in [Objects -> Headers]
  BY <1>1, <1>3, <1>4, <1>6, <1>7
<1> HIDE DEF link
<1>9. IsLast(items, link, o)
  BY <1>3, <1>5, LastItems
<1> HIDE DEF items
<1>10. /\ items \in Seq(Items)
       /\ \A i \in 1..Len(items) : items[i].op \in {"deref", "free"}
       /\ \A i \in 1..Len(items) : items[i].op = "free" => items[i] = Item("free", o) /\ items[i].arg = o
       /\ \A i, j \in 1..Len(items) : items[i] = items[j] => i = j
       /\ \A x \in Objects : Gains(items, x) = One(link = x)
  BY <1>9 DEF IsLast, Item
<1>11. Replaced(t, items)
  BY <1>1, <1>2, <1>4, <1>10, ThenReplaces
<1>12. hdr[o].Type # "free"
  BY <1>3, InUseCounted
<1>13. TypeOK'
  <2>1. work' \in [Threads -> Seq(Items)]
    BY <1>4, <1>11, Positions
  <2> QED
    BY <1>1, <1>4, <1>8, <2>1 DEF TypeOK
<1>14. ShapeOK'
  <2>1. \A i \in 1..Len(items) : work'[t][i] = items[i]
    BY <1>4, <1>11, NewThere
  <2>2. \A i \in 1..Len(items) : ShapeAt(work'[t], i)
    BY <1>3, <1>10, <2>1 DEF ShapeAt
  <2> QED
    BY <1>11, <2>2, ShapeKept
<1>15. \A c \in Objects : hdr'[c] = hdr[c] \/ ~Pending(t, c)
  BY <1>3, <1>6, InUseNotPending
<1>16. NewOK'
  <2>1. \A i \in 1..Len(items) : ~IsNew(items[i])
    BY <1>10 DEF IsNew
  <2> QED
    BY <1>11, <1>15, <2>1, NewKept
<1>17. FreeOK'
  <2>1. \A i \in 1..Len(items) : items[i].op = "free" => Doomed(hdr'[items[i].arg])
    BY <1>7, <1>10, <1>12 DEF Doomed
  <2>2. \A i, j \in 1..Len(items) : items[i].op = "free" /\ items[j].op = "free" => i = j
    BY <1>10
  <2>3. \A i \in 1..Len(items) : items[i].op = "free" => ~Pending(t, items[i].arg)
    BY <1>3, <1>10, InUseNotPending
  <2> QED
    BY <1>11, <1>15, <2>1, <2>2, <2>3, FreeKept
<1>18. CloseOK'
  BY <1>1, <1>10, <1>11, NoCloses DEF Closes
<1>19. HeadersOK'
  <2>1. \A c \in Objects : HeaderOK(hdr[c])
    BY DEF IInv, HeadersOK
  <2>2. HeaderOK(hdr'[o])
    BY <1>3, <1>7, <1>12 DEF HeaderOK
  <2>3. \A c \in Objects : HeaderOK(hdr'[c])
    BY <1>6, <2>1, <2>2
  <2> QED
    BY <2>3 DEF HeadersOK
<1>20. NativeOK'
  <2>1. \A x \in native' : hdr'[x].Registered \/ (x \in native /\ ~hdr[x].Registered)
    BY <1>1, <1>4, <1>6, <1>7 DEF TypeOK
  <2>2. \A x : Head(work[t]) # Item("unregister", x)
    BY <1>2 DEF Item
  <2> QED
    BY <1>11, <2>1, <2>2, NativeKept
<1>21. NamesSound' /\ DriveMapFresh'
  <2>1. SameNames(hdr, hdr')
    BY <1>3, <1>6, <1>7 DEF SameNames
  <2>2. \A c \in Objects : hdr[c].Directory # Null =>
           /\ hdr'[c].Type = hdr[c].Type /\ hdr'[c].LinkTarget = hdr[c].LinkTarget
           /\ hdr'[c].HandleCount >= hdr[c].HandleCount
           /\ hdr[c].Flags \subseteq hdr'[c].Flags
    BY <1>3, <1>4, <1>6 DEF Headers
  <2>3. \A d \in Objects : hdr'[d].Type = hdr[d].Type
    BY <1>6, <1>7
  <2> QED
    BY <1>1, <1>8, <2>1, <2>2, <2>3, NamesStay
<1>22. \A c \in Objects : hdr'[c].HandleCount = hdr[c].HandleCount
  BY <1>6, <1>7
<1>23. HandleTableSound'
  BY <1>1, <1>22, TableStays
<1>24. ASSUME NEW x \in Objects PROVE Balanced(t, items, o, x)
  <2> DEFINE p == hdr[x].PointerCount
             p1 == hdr'[x].PointerCount
             h == hdr[x].HandleCount
             n == Count(hdr[x].Directory # Null)
             l == One(link = x)
             i == One(o = x)
  <2>1. x # Null
    BY ObAssumption
  <2>2. Weight(hdr, o, x) = h + n + 0 + l
    BY <1>3, <2>1 DEF Weight, One, link
  <2>3. hdr'[x].HandleCount = h /\ Count(hdr'[x].Directory # Null) = n
    BY <1>6, <1>7
  <2>4. Weight(hdr', o, x) = h + n + 0 + 0
    BY <1>3, <1>7, <2>1, <2>3 DEF Weight, One
  <2>5. Loses(t, x) = i /\ Gains(items, x) = l
    BY <1>2, <1>10
  <2>6. p = p1 + i
    <3>1. CASE x = o
      BY <1>5, <1>7, <3>1 DEF One
    <3>2. CASE x # o
      <4>1. p1 = p /\ p \in Nat
        BY <1>4, <1>6, <3>2 DEF Headers
      <4>2. i = 0
        BY <3>2 DEF One
      <4> QED
        BY <4>1, <4>2
    <3> QED
      BY <3>1, <3>2
  <2>7. p1 \in Nat /\ h \in Nat /\ n \in Nat /\ l \in Nat /\ i \in Nat
    BY <1>4, <1>8 DEF Headers, Count, One
  <2> HIDE DEF p, p1, h, n, l, i
  <2>8. p1 + (h + n + 0 + l) + i = p + (h + n + 0 + 0) + l
    BY <2>6, <2>7
  <2> QED
    BY <2>2, <2>4, <2>5, <2>8 DEF Balanced, p, p1
<1>25. \A x \in Objects : Lives(x)
  BY <1>3, <1>6, <1>7, <1>12 DEF Lives, InUse
<1>26. UNCHANGED <<held, leaked>>
  BY <1>1
<1>27. /\ \A c \in Objects \ {o} : hdr'[c].Directory = hdr[c].Directory
       /\ \A c \in Objects \ {o} : hdr'[c].LinkTarget = hdr[c].LinkTarget
  BY <1>6
<1> QED
  BY <1>3, <1>11, <1>13, <1>14, <1>16, <1>17, <1>18, <1>19, <1>20, <1>21, <1>23, <1>24, <1>25,
     <1>26, <1>27, ObjectStep

(* ObfDereferenceObject *)
LEMMA DereferenceOK ==
    ASSUME IInv, NEW t \in Threads, ObfDereferenceObject(t)
    PROVE  StepOK
BY DerefOK, LastDerefOK

(* An object without references: nothing leads to it. *)
LEMMA Unreferenced ==
    ASSUME IInv, NEW o \in Objects, hdr[o].PointerCount = 0
    PROVE  /\ Refs(o) = 0 /\ leaked[o] = 0
           /\ hdr[o].HandleCount = 0 /\ hdr[o].Directory = Null
<1>1. TypeOK /\ leaked[o] \in Nat
  BY DEF IInv, TypeOK
<1>2. PartsOf(o)
  BY <1>1, PartsNow
<1>3. 0 = Refs(o) + leaked[o]
  BY DEF IInv, RefCountExact
<1>4. hdr[o].HandleCount = FromHandles(o)
  BY TableParts DEF IInv
<1>5. Refs(o) = 0 /\ leaked[o] = 0 /\ FromName(o) = 0 /\ FromHandles(o) = 0
  <2> DEFINE b == leaked[o]
             c == FromName(o)
             d == FromHandles(o)
             e == FromEntries(o) + FromLinks(o) + FromSystem(o) + FromCalls(o) + FromThreads(o)
             r == Refs(o)
  <2>1. b \in Nat /\ c \in Nat /\ d \in Nat /\ e \in Nat /\ r \in Nat
    BY <1>1, <1>2 DEF PartsOf
  <2>2. 0 = r + b /\ r = d + c + e
    BY <1>2, <1>3 DEF PartsOf
  <2> HIDE DEF b, c, d, e, r
  <2>3. r = 0 /\ b = 0 /\ c = 0 /\ d = 0
    BY <2>1, <2>2
  <2> QED
    BY <2>3 DEF r, b, c, d
<1> QED
  BY <1>4, <1>5 DEF FromName, Count

(* FreeObject *)
LEMMA FreeObjectOK ==
    ASSUME IInv, NEW t \in Threads, FreeObject(t)
    PROVE  StepOK
<1> DEFINE o == Arg(t)
           a == Item("unregister", o)
           items == <<a>>
<1>1. /\ At(t, "free") /\ hdr' = [hdr EXCEPT ![o] = Unused] /\ Then(t, items)
      /\ UNCHANGED <<table, free, tables, drive, native, held, leaked, fault>>
  BY DEF FreeObject
<1>2. /\ work[t] # <<>> /\ Head(work[t]) \in Items
      /\ Head(work[t]).op = "free" /\ Head(work[t]).arg = o
      /\ 1 \in DOMAIN work[t] /\ work[t][1] = Head(work[t]) /\ ShapeAt(work[t], 1)
      /\ \A x : Loses(t, x) = One("free" \in {"deref", "handle", "duplicate", "link", "parse"} /\ o = x)
  BY <1>1, HeadIs
<1>3. o \in Slots /\ o \in Objects
  BY <1>2 DEF ShapeAt, Objects
<1>4. hdr[o].PointerCount = 0 /\ hdr[o].LinkTarget = Null /\ hdr[o].Type # "free"
  BY <1>2 DEF IInv, FreeOK
<1>5. TypeOK /\ hdr \in [Objects -> Headers]
  BY DEF IInv, TypeOK
<1>6. Refs(o) = 0 /\ hdr[o].HandleCount = 0 /\ hdr[o].Directory = Null
  BY <1>3, <1>4, Unreferenced
<1>7. ~Pending(t, o)
  <2> SUFFICES ASSUME NEW u \in Threads, NEW i \in DOMAIN work[u], Stays(t, u, i),
                      work[u][i].op \in {"insert", "register", "open", "free"}, work[u][i].arg = o
               PROVE  FALSE
    BY DEF Pending
  <2>1. CASE work[u][i].op = "free"
    <3>1. u = t /\ i = 1
      BY <1>2, <2>1 DEF IInv, FreeOK, Once
    <3> QED
      BY <3>1 DEF Stays
  <2>2. CASE IsNew(work[u][i])
    BY <1>4, <2>2 DEF IInv, NewOK
  <2> QED
    BY <2>1, <2>2 DEF IsNew
<1> HIDE DEF o
<1>8. a \in Items /\ a.op = "unregister" /\ a.arg = o /\ \A y : ~Holds(a, y)
  BY <1>3, ItemIs
<1>9. \A x : Gains(items, x) = 0
  <2> HIDE DEF a
  <2>1. \A x : Gains(items, x) = One(Holds(a, x))
    BY <1>8, GainsOne
  <2> QED
    BY <1>8, <2>1 DEF One
<1>10. items \in Seq(Items) /\ Len(items) = 1 /\ items[1] = a
  BY <1>8
<1> HIDE DEF items
<1>11. Replaced(t, items)
  BY <1>1, <1>2, <1>5, <1>10, ThenReplaces
<1>12. hdr'[o] = Unused /\ \A c \in Objects : c # o => hdr'[c] = hdr[c]
  BY <1>1, <1>3, <1>5
<1>13. /\ Unused \in Headers
       /\ Unused.Type = "free" /\ Unused.PointerCount = 0 /\ Unused.HandleCount = 0
       /\ Unused.Directory = Null /\ Unused.LinkTarget = Null
  BY DEF Unused, Headers
<1>14. hdr' \in [Objects -> Headers]
  BY <1>1, <1>3, <1>5, <1>13
<1> HIDE DEF a
<1>15. TypeOK'
  <2>1. work' \in [Threads -> Seq(Items)]
    BY <1>5, <1>11, Positions
  <2> QED
    BY <1>1, <1>5, <1>14, <2>1 DEF TypeOK
<1>16. \A i \in 1..Len(items) : items[i].op = "unregister" /\ items[i].arg = o
  BY <1>8, <1>10
<1>17. ShapeOK'
  <2>1. \A i \in 1..Len(items) : work'[t][i] = items[i]
    BY <1>5, <1>11, NewThere
  <2>2. \A i \in 1..Len(items) : ShapeAt(work'[t], i)
    BY <1>3, <1>16, <2>1 DEF ShapeAt
  <2> QED
    BY <1>11, <2>2, ShapeKept
<1>18. NewOK' /\ FreeOK'
  <2>1. Harmless(items)
    BY <1>16 DEF Harmless
  <2> QED
    BY <1>7, <1>11, <1>12, <2>1, HarmlessKept
<1>19. CloseOK'
  BY <1>1, <1>11, <1>16, NoCloses DEF Closes
<1>20. HeadersOK'
  <2>1. \A c \in Objects : HeaderOK(hdr[c])
    BY DEF IInv, HeadersOK
  <2>2. HeaderOK(Unused)
    BY <1>13 DEF HeaderOK
  <2>3. \A c \in Objects : HeaderOK(hdr'[c])
    BY <1>12, <2>1, <2>2
  <2> QED
    BY <2>3 DEF HeadersOK
<1>21. NativeOK'
  <2>1. \A x \in native' : x # o => hdr'[x].Registered \/ (x \in native /\ ~hdr[x].Registered)
    BY <1>1, <1>5, <1>12 DEF TypeOK
  <2>2. 1 \in 1..Len(items) /\ items[1] = Item("unregister", o)
    BY <1>10 DEF a
  <2>3. \A x : Head(work[t]) # Item("unregister", x)
    BY <1>2 DEF Item
  <2> QED
    BY <1>11, <2>1, <2>2, <2>3, NativeKept
<1>22. NamesSound' /\ DriveMapFresh'
  <2>1. SameNames(hdr, hdr')
    BY <1>6, <1>12, <1>13 DEF SameNames
  <2>2. \A c \in Objects : hdr[c].Directory # Null =>
           /\ hdr'[c].Type = hdr[c].Type /\ hdr'[c].LinkTarget = hdr[c].LinkTarget
           /\ hdr'[c].HandleCount >= hdr[c].HandleCount
           /\ hdr[c].Flags \subseteq hdr'[c].Flags
    BY <1>5, <1>6, <1>12 DEF Headers
  <2>3. ~InUse(o)
    BY <1>6 DEF InUse
  <2>4. \A d \in Objects : InUse(d) => hdr'[d].Type = hdr[d].Type
    BY <1>12, <2>3
  <2> QED
    BY <1>1, <1>14, <2>1, <2>2, <2>4, NamesStay
<1>23. HandleTableSound'
  <2>1. \A c \in Objects : hdr'[c].HandleCount = hdr[c].HandleCount
    BY <1>6, <1>12, <1>13
  <2> QED
    BY <1>1, <2>1, TableStays
<1>24. ASSUME NEW x \in Objects PROVE Balanced(t, items, o, x)
  <2>1. /\ hdr'[x].HandleCount = hdr[x].HandleCount /\ hdr'[x].Directory = hdr[x].Directory
        /\ hdr'[x].PointerCount = hdr[x].PointerCount
        /\ hdr'[o].Directory = hdr[o].Directory /\ hdr'[o].LinkTarget = hdr[o].LinkTarget
    BY <1>4, <1>6, <1>12, <1>13
  <2>2. Weight(hdr', o, x) = Weight(hdr, o, x)
    BY <2>1 DEF Weight
  <2>3. Loses(t, x) = 0 /\ Gains(items, x) = 0
    BY <1>2, <1>9 DEF One
  <2> QED
    BY <2>1, <2>2, <2>3 DEF Balanced
<1>25. \A x \in Objects : Lives(x)
  BY <1>4, <1>12, <1>13 DEF Lives
<1>26. UNCHANGED <<held, leaked>>
  BY <1>1
<1>27. /\ \A c \in Objects \ {o} : hdr'[c].Directory = hdr[c].Directory
       /\ \A c \in Objects \ {o} : hdr'[c].LinkTarget = hdr[c].LinkTarget
  BY <1>12
<1> QED
  BY <1>3, <1>11, <1>15, <1>17, <1>18, <1>19, <1>20, <1>21, <1>22, <1>23, <1>24, <1>25,
     <1>26, <1>27, ObjectStep

(* A header that differs in its host handle at most. *)
SameButNative(a, b) ==
    /\ a.Type = b.Type /\ a.PointerCount = b.PointerCount /\ a.HandleCount = b.HandleCount
    /\ a.Flags = b.Flags /\ a.Directory = b.Directory /\ a.Name = b.Name
    /\ a.LinkTarget = b.LinkTarget

(* A step that changes the table of host handles. *)
LEMMA NativeStep ==
    ASSUME IInv, NEW t \in Threads, NEW op \in {"register", "unregister"}, At(t, op), Then(t, <<>>),
           hdr' \in [Objects -> Headers], native' \in SUBSET Objects,
           \A c \in Objects : SameButNative(hdr'[c], hdr[c]),
           \A c \in Objects : hdr'[c] = hdr[c] \/ (~Pending(t, c) /\ hdr[c].Type # "free"),
           \A x \in native' : \/ hdr'[x].Registered
                              \/ /\ x \in native /\ ~hdr[x].Registered
                                 /\ Head(work[t]) # Item("unregister", x),
           UNCHANGED <<table, free, tables, drive, held, leaked, fault>>
    PROVE  StepOK
<1> DEFINE items == <<>>
<1>1. /\ work[t] # <<>>
      /\ \A x : Loses(t, x) = One(op \in {"deref", "handle", "duplicate", "link", "parse"} /\ Arg(t) = x)
  BY HeadIs
<1>2. TypeOK /\ hdr \in [Objects -> Headers]
  BY DEF IInv, TypeOK
<1>3. items \in Seq(Items) /\ Len(items) = 0 /\ \A x : Gains(items, x) = 0
  BY GainsNone
<1>4. Then(t, items)
  OBVIOUS
<1> HIDE DEF items
<1>5. Replaced(t, items)
  BY <1>1, <1>2, <1>3, <1>4, ThenReplaces
<1>6. Plain(items)
  BY <1>3 DEF Plain
<1>7. Shaped(t, items) /\ Harmless(items)
  BY <1>5, <1>6, PlainFits
<1>8. TypeOK'
  <2>1. work' \in [Threads -> Seq(Items)]
    BY <1>2, <1>5, Positions
  <2> QED
    BY <1>2, <2>1 DEF TypeOK
<1>9. ShapeOK'
  BY <1>5, <1>7, ShapeKept DEF Shaped
<1>10. NewOK' /\ FreeOK'
  BY <1>5, <1>7, HarmlessKept
<1>11. CloseOK'
  BY <1>5, <1>6, NoCloses DEF Plain, Closes
<1>12. HeadersOK'
  <2> SUFFICES ASSUME NEW c \in Objects PROVE HeaderOK(hdr'[c])
    BY DEF HeadersOK
  <2>1. HeaderOK(hdr[c])
    BY DEF IInv, HeadersOK
  <2>2. SameButNative(hdr'[c], hdr[c]) /\ (hdr'[c] = hdr[c] \/ hdr[c].Type # "free")
    OBVIOUS
  <2> QED
    BY <2>1, <2>2 DEF HeaderOK, SameButNative
<1>13. NativeOK'
  BY <1>5, NativeKept
<1>14. NamesSound' /\ DriveMapFresh'
  <2>1. SameNames(hdr, hdr')
    BY DEF SameNames, SameButNative
  <2>2. \A c \in Objects : hdr'[c].HandleCount >= hdr[c].HandleCount
    BY <1>2 DEF SameButNative, Headers
  <2> QED
    BY <2>1, <2>2, NamesStay DEF SameButNative
<1>15. HandleTableSound'
  BY TableStays DEF SameButNative
<1>16. Dos \in Objects
  BY DEF Objects
<1>17. ASSUME NEW x \in Objects PROVE Balanced(t, items, Dos, x)
  <2>1. Weight(hdr', Dos, x) = Weight(hdr, Dos, x)
    BY <1>16 DEF Weight, SameButNative
  <2>2. Loses(t, x) = 0 /\ Gains(items, x) = 0
    BY <1>1, <1>3 DEF One
  <2>3. hdr'[x].PointerCount = hdr[x].PointerCount
    BY DEF SameButNative
  <2> QED
    BY <2>1, <2>2, <2>3 DEF Balanced
<1>18. \A x \in Objects : Lives(x)
  BY DEF Lives, SameButNative
<1>19. \A c \in Objects : hdr'[c].Directory = hdr[c].Directory /\ hdr'[c].LinkTarget = hdr[c].LinkTarget
  BY DEF SameButNative
<1> QED
  BY <1>5, <1>8, <1>9, <1>10, <1>11, <1>12, <1>13, <1>14, <1>15, <1>16, <1>17, <1>18, <1>19, ObjectStep

(* RemoveXboxObject *)
LEMMA RemoveOK ==
    ASSUME IInv, NEW t \in Threads, RemoveXboxObject(t)
    PROVE  StepOK
<1>1. /\ At(t, "unregister") /\ native' = native \ {Arg(t)} /\ Then(t, <<>>)
      /\ UNCHANGED <<hdr, table, free, tables, drive, held, leaked, fault>>
  BY DEF RemoveXboxObject
<1>2. Head(work[t]).arg = Arg(t)
  BY <1>1, HeadIs
<1>3. hdr' \in [Objects -> Headers] /\ native' \in SUBSET Objects
  BY <1>1 DEF IInv, TypeOK
<1>4. \A x \in native' : \/ hdr'[x].Registered
                         \/ /\ x \in native /\ ~hdr[x].Registered
                            /\ Head(work[t]) # Item("unregister", x)
  BY <1>1, <1>2 DEF Item
<1>5. \A c \in Objects : SameButNative(hdr'[c], hdr[c])
  BY <1>1 DEF SameButNative
<1> QED
  BY <1>1, <1>3, <1>4, <1>5, NativeStep

(* RegisterXboxObject *)
LEMMA RegisterOK ==
    ASSUME IInv, NEW t \in Threads, RegisterXboxObject(t)
    PROVE  StepOK
<1> DEFINE o == Arg(t)
<1>1. /\ At(t, "register") /\ native' = native \cup {o} /\ Then(t, <<>>)
      /\ hdr' = [hdr EXCEPT ![o].Registered = TRUE]
      /\ UNCHANGED <<table, free, tables, drive, held, leaked, fault>>
  BY DEF RegisterXboxObject
<1>2. /\ Head(work[t]).op = "register" /\ Head(work[t]).arg = o
      /\ 1 \in DOMAIN work[t] /\ work[t][1] = Head(work[t]) /\ ShapeAt(work[t], 1)
  BY <1>1, HeadIs
<1>3. IsNew(work[t][1]) /\ work[t][1].arg = o
  BY <1>2 DEF IsNew
<1>4. o \in Objects /\ hdr[o].PointerCount = 1
  BY <1>2, <1>3 DEF ShapeAt, Objects, IInv, NewOK
<1>5. TypeOK /\ hdr \in [Objects -> Headers] /\ hdr[o] \in Headers
  BY <1>4 DEF IInv, TypeOK
<1>6. ~Pending(t, o)
  <2> SUFFICES ASSUME NEW u \in Threads, NEW i \in DOMAIN work[u], Stays(t, u, i),
                      work[u][i].op \in {"insert", "register", "open", "free"}, work[u][i].arg = o
               PROVE  FALSE
    BY DEF Pending
  <2>1. CASE work[u][i].op = "free"
    BY <1>4, <2>1 DEF IInv, FreeOK
  <2>2. CASE IsNew(work[u][i])
    <3>1. t = u /\ 1 = i
      BY <1>2, <1>3, <2>2, NewOnce
    <3> QED
      BY <3>1 DEF Stays
  <2> QED
    BY <2>1, <2>2 DEF IsNew
<1>7. hdr[o].Type # "free"
  <2>1. Unused.PointerCount = 0
    BY DEF Unused
  <2> QED
    BY <1>4, <2>1 DEF IInv, HeadersOK, HeaderOK
<1>8. hdr'[o] = [hdr[o] EXCEPT !.Registered = TRUE] /\ \A c \in Objects : c # o => hdr'[c] = hdr[c]
  BY <1>1, <1>4, <1>5
<1> HIDE DEF o
<1>9. hdr'[o] \in Headers /\ SameButNative(hdr'[o], hdr[o]) /\ hdr'[o].Registered
  <2> DEFINE new == hdr'[o]
             old == hdr[o]
  <2>1. old \in Headers /\ new = [old EXCEPT !.Registered = TRUE]
    BY <1>5, <1>8
  <2> HIDE DEF new, old
  <2>2. new \in Headers /\ SameButNative(new, old) /\ new.Registered
    BY <2>1 DEF Headers, SameButNative
  <2> QED
    BY <2>2 DEF new, old
<1>10. hdr' \in [Objects -> Headers] /\ native' \in SUBSET Objects
  BY <1>1, <1>4, <1>5, <1>8, <1>9 DEF TypeOK
<1>11. \A c \in Objects : SameButNative(hdr'[c], hdr[c])
  BY <1>8, <1>9 DEF SameButNative
<1>12. \A x \in native' : \/ hdr'[x].Registered
                          \/ /\ x \in native /\ ~hdr[x].Registered
                             /\ Head(work[t]) # Item("unregister", x)
  BY <1>1, <1>2, <1>5, <1>8, <1>9 DEF Item, TypeOK
<1>13. \A c \in Objects : hdr'[c] = hdr[c] \/ (~Pending(t, c) /\ hdr[c].Type # "free")
  BY <1>6, <1>7, <1>8
<1>14. /\ At(t, "register") /\ Then(t, <<>>)
       /\ UNCHANGED <<table, free, tables, drive, held, leaked, fault>>
  BY <1>1
<1> QED
  BY <1>10, <1>11, <1>12, <1>13, <1>14, NativeStep

(* ObCreateObject: the new object has the reference of the call that creates it. *)
LEMMA CreateStep ==
    ASSUME IInv, NEW t \in Threads, NEW items, Replaced(t, items),
           NEW o \in Slots, NEW type \in {"Directory", "SymbolicLink", "File"},
           NEW link \in Objects \cup {Null}, ObCreateObject(o, type, link),
           type = "SymbolicLink" <=> link # Null, link # o,
           UNCHANGED <<table, free, tables, drive, native, held, leaked, fault>>,
           Shaped(t, items),
           \A i \in 1..Len(items) : items[i].op \notin Closes \cup {"free"},
           \A i \in 1..Len(items) : IsNew(items[i]) => items[i].arg = o,
           work[t] = <<>> \/ Head(work[t]).op # "unregister",
           \A x \in Objects : One(x = o) + Loses(t, x) = One(link = x) + Gains(items, x)
    PROVE  StepOK
<1> DEFINE new == Created(type, link)
<1>1. o \in Objects /\ hdr[o].Type = "free" /\ hdr' = [hdr EXCEPT ![o] = new]
  BY DEF ObCreateObject, Objects
<1>2. TypeOK /\ hdr \in [Objects -> Headers]
  BY DEF IInv, TypeOK
<1>3. /\ hdr[o] = Unused
      /\ hdr[o].PointerCount = 0 /\ hdr[o].HandleCount = 0 /\ hdr[o].Directory = Null
      /\ hdr[o].LinkTarget = Null
  <2>1. hdr[o] = Unused
    BY <1>1 DEF IInv, HeadersOK, HeaderOK
  <2> QED
    BY <2>1 DEF Unused
<1>4. /\ new \in Headers /\ new.Type = type /\ new.PointerCount = 1 /\ new.HandleCount = 0
      /\ new.Directory = Null /\ new.LinkTarget = link /\ ~new.Registered
  BY DEF Created, Unused, Headers
<1> HIDE DEF new
<1>5. hdr'[o] = new /\ \A c \in Objects : c # o => hdr'[c] = hdr[c]
  BY <1>1, <1>2
<1>6. hdr' \in [Objects -> Headers]
  BY <1>1, <1>2, <1>4
<1>7. ~Pending(t, o)
  BY <1>1, FreeNotPending
<1>8. \A c \in Objects : hdr'[c] = hdr[c] \/ ~Pending(t, c)
  BY <1>5, <1>7
<1>9. TypeOK'
  <2>1. work' \in [Threads -> Seq(Items)]
    BY <1>2, Positions
  <2> QED
    BY <1>2, <1>6, <2>1 DEF TypeOK
<1>10. ShapeOK'
  BY ShapeKept DEF Shaped
<1>11. NewOK'
  <2>1. \A i \in 1..Len(items) : IsNew(items[i]) => /\ hdr'[items[i].arg].PointerCount = 1
                                                    /\ ~hdr'[items[i].arg].Registered
    BY <1>4, <1>5
  <2> QED
    BY <1>8, <2>1, NewKept
<1>12. FreeOK'
  BY <1>8, FreeKept
<1>13. CloseOK'
  BY NoCloses
<1>14. HeadersOK'
  <2>1. \A c \in Objects : HeaderOK(hdr[c])
    BY DEF IInv, HeadersOK
  <2>2. HeaderOK(new)
    BY <1>4 DEF HeaderOK
  <2>3. \A c \in Objects : HeaderOK(hdr'[c])
    BY <1>5, <2>1, <2>2
  <2> QED
    BY <2>3 DEF HeadersOK
<1>15. NativeOK'
  <2>1. ~hdr[o].Registered
    BY <1>3 DEF Unused
  <2>2. \A x \in native' : hdr'[x].Registered \/ (x \in native /\ ~hdr[x].Registered)
    BY <1>2, <1>5, <2>1 DEF TypeOK
  <2>3. \A x : work[t] = <<>> \/ Head(work[t]) # Item("unregister", x)
    BY DEF Item
  <2> QED
    BY <2>2, <2>3, NativeKept
<1>16. NamesSound' /\ DriveMapFresh'
  <2>1. SameNames(hdr, hdr')
    BY <1>3, <1>4, <1>5 DEF SameNames
  <2>2. \A c \in Objects : hdr[c].Directory # Null =>
           /\ hdr'[c].Type = hdr[c].Type /\ hdr'[c].LinkTarget = hdr[c].LinkTarget
           /\ hdr'[c].HandleCount >= hdr[c].HandleCount
           /\ hdr[c].Flags \subseteq hdr'[c].Flags
    BY <1>2, <1>3, <1>5 DEF Headers
  <2>3. ~InUse(o)
    BY <1>1, InUseCounted
  <2>4. \A d \in Objects : InUse(d) => hdr'[d].Type = hdr[d].Type
    BY <1>5, <2>3
  <2> QED
    BY <1>6, <2>1, <2>2, <2>4, NamesStay
<1>17. HandleTableSound'
  <2>1. \A c \in Objects : hdr'[c].HandleCount = hdr[c].HandleCount
    BY <1>3, <1>4, <1>5
  <2> QED
    BY <2>1, TableStays
<1>18. ASSUME NEW x \in Objects PROVE Balanced(t, items, o, x)
  <2> DEFINE p == hdr[x].PointerCount
             p1 == hdr'[x].PointerCount
             h == hdr[x].HandleCount
             n == Count(hdr[x].Directory # Null)
             l == One(link = x)
             i == One(x = o)
             lose == Loses(t, x)
             gain == Gains(items, x)
  <2>1. x # Null
    BY ObAssumption
  <2>2. hdr'[x].HandleCount = h /\ Count(hdr'[x].Directory # Null) = n
    BY <1>3, <1>4, <1>5
  <2>3. Weight(hdr, o, x) = h + n + 0 + 0
    BY <1>3, <2>1 DEF Weight, One
  <2>4. Weight(hdr', o, x) = h + n + 0 + l
    BY <1>4, <1>5, <2>1, <2>2 DEF Weight, One
  <2>5. i + lose = l + gain
    OBVIOUS
  <2>6. p1 = p + i
    <3>1. CASE x = o
      BY <1>3, <1>4, <1>5, <3>1 DEF One
    <3>2. CASE x # o
      <4>1. p1 = p /\ p \in Nat
        BY <1>2, <1>5, <3>2 DEF Headers
      <4>2. i = 0
        BY <3>2 DEF One
      <4> QED
        BY <4>1, <4>2
    <3> QED
      BY <3>1, <3>2
  <2>7. p \in Nat /\ h \in Nat /\ n \in Nat /\ l \in Nat /\ i \in Nat /\ lose \in Nat
    BY <1>2 DEF Headers, Count, One, Loses
  <2>8. gain \in Nat
    <3>1. items \in Seq(Items)
      BY DEF Replaced
    <3> QED
      BY <3>1, OccursFinite DEF Gains
  <2> HIDE DEF p, p1, h, n, l, i, lose, gain
  <2>9. p1 + (h + n + 0 + 0) + lose = p + (h + n + 0 + l) + gain
    BY <2>5, <2>6, <2>7, <2>8
  <2> QED
    BY <2>3, <2>4, <2>9 DEF Balanced, p, p1, lose, gain
<1>19. \A x \in Objects : Lives(x)
  BY <1>1, <1>3, <1>4, <1>5 DEF Lives
<1>20. /\ \A c \in Objects \ {o} : hdr'[c].Directory = hdr[c].Directory
       /\ \A c \in Objects \ {o} : hdr'[c].LinkTarget = hdr[c].LinkTarget
  BY <1>5
<1>21. UNCHANGED <<held, leaked>>
  OBVIOUS
<1> QED
  BY <1>1, <1>9, <1>10, <1>11, <1>12, <1>13, <1>14, <1>15, <1>16, <1>17, <1>18, <1>19, <1>20, <1>21,
     ObjectStep

Inserts(items, o, path, attrs) == items = Insert(o, path, attrs) \o Deref(o)

(* A new object that is inserted and then dereferenced. *)
LEMMA InsertItems ==
    ASSUME IInv, NEW t \in Threads, NEW o \in Slots, NEW path \in Paths, NEW attrs \in Attributes,
           NEW items, Inserts(items, o, path, attrs)
    PROVE  /\ items \in Seq(Items)
           /\ \A x \in Objects : Gains(items, x) = One(x = o)
           /\ \A i \in 1..Len(items) : items[i].op \notin Closes \cup {"free"}
           /\ \A i \in 1..Len(items) : IsNew(items[i]) => items[i].arg = o
           /\ Replaced(t, items) => Shaped(t, items)
<1> DEFINE a == [op |-> "insert", arg |-> o, path |-> path, attrs |-> attrs]
           b == Item("deref", o)
<1>1. o \in Objects
  BY DEF Objects
<1>2. a \in Items /\ a.op = "insert" /\ a.arg = o /\ \A y : ~Holds(a, y)
  BY <1>1, PathItemIs
<1>3. b \in Items /\ b.op = "deref" /\ b.arg = o /\ \A y : Holds(b, y) <=> o = y
  BY <1>1, ItemIs
<1>4. items = <<a>> \o <<b>>
  BY DEF Inserts, Insert, Deref
<1> HIDE DEF a, b
<1>5. IsPair(items, a, b)
  BY <1>2, <1>3, <1>4, PairIs
<1>6. items \in Seq(Items) /\ Len(items) = 2 /\ items[1] = a /\ items[2] = b
  BY <1>5 DEF IsPair
<1>7. \A i \in 1..Len(items) : i = 1 \/ i = 2
  BY <1>6
<1>8. /\ \A i \in 1..Len(items) : items[i].op \notin Closes \cup {"free"}
      /\ \A i \in 1..Len(items) : IsNew(items[i]) => items[i].arg = o
  BY <1>2, <1>3, <1>6, <1>7 DEF Closes
<1>9. \A x \in Objects : Gains(items, x) = One(x = o)
  <2> TAKE x \in Objects
  <2>1. Gains(items, x) = One(Holds(a, x)) + One(Holds(b, x))
    BY <1>5 DEF IsPair
  <2> QED
    BY <1>2, <1>3, <2>1 DEF One
<1>10. ASSUME Replaced(t, items) PROVE Shaped(t, items)
  <2>1. \A i \in 1..Len(items) : i \in DOMAIN work'[t] /\ work'[t][i] = items[i]
    BY <1>10, NewThere DEF IInv
  <2>2. /\ 2 \in DOMAIN work'[t] /\ work'[t][2] = b
        /\ work'[t][1] = a
    BY <1>6, <2>1
  <2>3. ShapeAt(work'[t], 1)
    BY <1>2, <2>2, 1 + 1 = 2 DEF ShapeAt, b
  <2>4. ShapeAt(work'[t], 2)
    BY <1>3, <2>2 DEF ShapeAt
  <2> QED
    BY <1>7, <2>3, <2>4 DEF Shaped
<1> QED
  BY <1>6, <1>8, <1>9, <1>10

(* NtCreateDirectoryObject *)
LEMMA DirectoryCallOK ==
    ASSUME IInv, NEW t \in Threads, NtCreateDirectoryObject(t)
    PROVE  StepOK
<1>1. PICK o \in Slots, path \in Paths, attrs \in Attributes :
          /\ ObCreateObject(o, "Directory", Null)
          /\ Call(t, "NtCreateDirectoryObject", Insert(o, path, attrs) \o Deref(o))
  BY DEF NtCreateDirectoryObject
<1> DEFINE items == Insert(o, path, attrs) \o Deref(o)
<1>2. UNCHANGED <<table, free, tables, drive, native, held, leaked, fault>>
  BY DEF NtCreateDirectoryObject
<1>3. /\ items \in Seq(Items)
      /\ \A x \in Objects : Gains(items, x) = One(x = o)
      /\ \A i \in 1..Len(items) : items[i].op \notin Closes \cup {"free"}
      /\ \A i \in 1..Len(items) : IsNew(items[i]) => items[i].arg = o
      /\ Replaced(t, items) => Shaped(t, items)
  <2>1. Inserts(items, o, path, attrs)
    BY DEF Inserts
  <2> HIDE DEF items
  <2> QED
    BY <2>1, InsertItems
<1>4. Call(t, "NtCreateDirectoryObject", items)
  BY <1>1
<1> HIDE DEF items
<1>5. Replaced(t, items) /\ work[t] = <<>>
  BY <1>3, <1>4, CallReplaces DEF IInv
<1>6. Null # o
  BY ObAssumption DEF Objects
<1>7. \A x \in Objects : One(x = o) + Loses(t, x) = One(Null = x) + Gains(items, x)
  <2> TAKE x \in Objects
  <2>1. Loses(t, x) = 0 /\ Gains(items, x) = One(x = o)
    BY <1>3, <1>5, LosesNone
  <2>2. x # Null
    BY ObAssumption
  <2>3. One(Null = x) = 0 /\ One(x = o) \in Nat
    BY <2>2 DEF One
  <2> QED
    BY <2>1, <2>3
<1> QED
  BY <1>1, <1>2, <1>3, <1>5, <1>6, <1>7, CreateStep

(* The rest of NtCreateSymbolicLinkObject *)
LEMMA CreateLinkOK ==
    ASSUME IInv, NEW t \in Threads, CreateLink(t)
    PROVE  StepOK
<1> DEFINE a == Head(work[t])
           link == a.arg
<1>1. /\ At(t, "link")
      /\ UNCHANGED <<table, free, tables, drive, native, held, leaked, fault>>
      /\ \/ \E o \in Slots : /\ ObCreateObject(o, "SymbolicLink", link)
                             /\ Then(t, Insert(o, a.path, a.attrs) \o Deref(o))
         \/ Then(t, Deref(link)) /\ UNCHANGED hdr
  BY DEF CreateLink
<1>2. /\ work[t] # <<>> /\ a \in Items /\ a.op = "link" /\ link = Arg(t)
      /\ \A x : Loses(t, x) = One("link" \in {"deref", "handle", "duplicate", "link", "parse"} /\ Arg(t) = x)
  BY <1>1, HeadIs
<1>3. a.path \in Paths /\ a.attrs \in Attributes
  BY <1>2, ItemArgs
<1>4. InUse(link)
  BY <1>2, HeadInUse
<1>5. link \in Objects /\ hdr[link].Type # "free"
  BY <1>4, InUseCounted
<1>6. CASE Then(t, Deref(link)) /\ UNCHANGED hdr
  BY <1>1, <1>2, <1>6, GiveUp
<1>7. CASE \E o \in Slots : /\ ObCreateObject(o, "SymbolicLink", link)
                            /\ Then(t, Insert(o, a.path, a.attrs) \o Deref(o))
  <2>1. PICK o \in Slots : /\ ObCreateObject(o, "SymbolicLink", link)
                           /\ Then(t, Insert(o, a.path, a.attrs) \o Deref(o))
    BY <1>7
  <2> DEFINE items == Insert(o, a.path, a.attrs) \o Deref(o)
  <2>2. /\ items \in Seq(Items)
        /\ \A x \in Objects : Gains(items, x) = One(x = o)
        /\ \A i \in 1..Len(items) : items[i].op \notin Closes \cup {"free"}
        /\ \A i \in 1..Len(items) : IsNew(items[i]) => items[i].arg = o
        /\ Replaced(t, items) => Shaped(t, items)
    <3> DEFINE p == a.path
               q == a.attrs
    <3>1. p \in Paths /\ q \in Attributes /\ Inserts(items, o, p, q)
      BY <1>3 DEF Inserts
    <3> HIDE DEF p, q, items
    <3> QED
      BY <3>1, InsertItems
  <2>3. Then(t, items)
    BY <2>1
  <2> HIDE DEF items
  <2>4. Replaced(t, items)
    BY <1>2, <2>2, <2>3, ThenReplaces DEF IInv
  <2>5. link # o /\ link # Null
    BY <1>5, <2>1, ObAssumption DEF ObCreateObject
  <2>6. \A x \in Objects : One(x = o) + Loses(t, x) = One(link = x) + Gains(items, x)
    <3> TAKE x \in Objects
    <3>1. Loses(t, x) = One(link = x) /\ Gains(items, x) = One(x = o)
      BY <1>2, <2>2 DEF One
    <3>2. One(link = x) \in Nat /\ One(x = o) \in Nat
      BY DEF One
    <3> HIDE DEF link
    <3> QED
      BY <3>1, <3>2
  <2>7. Head(work[t]).op # "unregister"
    BY <1>2
  <2>8. UNCHANGED <<table, free, tables, drive, native, held, leaked, fault>>
    BY <1>1
  <2>9. ObCreateObject(o, "SymbolicLink", link)
    BY <2>1
  <2> HIDE DEF link
  <2> QED
    BY <1>5, <2>2, <2>4, <2>5, <2>6, <2>7, <2>8, <2>9, CreateStep
<1> QED
  BY <1>1, <1>6, <1>7

(* IopParseDevice *)
LEMMA ParseOK ==
    ASSUME IInv, NEW t \in Threads, IopParseDevice(t)
    PROVE  StepOK
<1>1. /\ At(t, "parse")
      /\ UNCHANGED <<table, free, tables, drive, native, held, leaked, fault>>
      /\ \/ \E o \in Slots : ObCreateObject(o, "File", Null) /\ Then(t, <<Item("open", o)>>)
         \/ Then(t, Deref(Dev)) /\ UNCHANGED hdr
  BY DEF IopParseDevice
<1>2. /\ work[t] # <<>> /\ Head(work[t]).op = "parse"
      /\ Head(work[t]).arg = Arg(t) /\ work[t][1] = Head(work[t]) /\ ShapeAt(work[t], 1)
      /\ \A x : Loses(t, x) = One("parse" \in {"deref", "handle", "duplicate", "link", "parse"} /\ Arg(t) = x)
  BY <1>1, HeadIs
<1>3. Len(work[t]) = 1 /\ Arg(t) = Dev
  BY <1>2 DEF ShapeAt
<1>4. CASE Then(t, Deref(Dev)) /\ UNCHANGED hdr
  BY <1>1, <1>3, <1>4, GiveUp
<1>5. CASE \E o \in Slots : ObCreateObject(o, "File", Null) /\ Then(t, <<Item("open", o)>>)
  <2>1. PICK o \in Slots : ObCreateObject(o, "File", Null) /\ Then(t, <<Item("open", o)>>)
    BY <1>5
  <2> DEFINE a == Item("open", o)
             items == <<a>>
  <2>2. o \in Objects /\ o # Dev /\ Null # o
    BY ObAssumption DEF Objects
  <2>3. a \in Items /\ a.op = "open" /\ a.arg = o /\ \A y : Holds(a, y) <=> o = y \/ y = Dev
    BY <2>2, ItemIs
  <2>4. Then(t, items)
    BY <2>1
  <2> HIDE DEF a
  <2>5. items \in Seq(Items) /\ Len(items) = 1 /\ items[1] = a
    BY <2>3
  <2>6. \A x \in Objects : Gains(items, x) = One(Holds(a, x))
    BY <2>3, GainsOne
  <2> HIDE DEF items
  <2>7. Replaced(t, items)
    BY <1>2, <2>4, <2>5, ThenReplaces DEF IInv
  <2>8. \A i \in 1..Len(items) : i = 1
    BY <2>5
  <2>9. /\ \A i \in 1..Len(items) : items[i].op \notin Closes \cup {"free"}
        /\ \A i \in 1..Len(items) : IsNew(items[i]) => items[i].arg = o
    BY <2>3, <2>5, <2>8 DEF Closes
  <2>10. Shaped(t, items)
    <3>1. \A i \in 1..Len(items) : work'[t][i] = items[i]
      BY <2>7, NewThere DEF IInv
    <3>2. Len(work'[t]) = 1
      <4>1. Len(work'[t]) = Len(items) + Len(Drop(work[t]))
        BY <2>7, Positions DEF IInv
      <4>2. work[t] \in Seq(Items)
        BY DEF IInv, TypeOK
      <4>3. Len(Drop(work[t])) = 0
        BY <1>2, <1>3, <4>2 DEF Drop
      <4> QED
        BY <2>5, <4>1, <4>3
    <3>3. 1 \in 1..Len(items) /\ work'[t][1] = a
      BY <2>5, <3>1
    <3>4. ShapeAt(work'[t], 1)
      BY <2>3, <3>2, <3>3 DEF ShapeAt
    <3> QED
      BY <2>8, <3>4 DEF Shaped
  <2>11. \A x \in Objects : One(x = o) + Loses(t, x) = One(Null = x) + Gains(items, x)
    <3> TAKE x \in Objects
    <3>1. Gains(items, x) = One(o = x \/ x = Dev)
      BY <2>3, <2>6 DEF One
    <3>2. Loses(t, x) = One(Dev = x)
      BY <1>2, <1>3 DEF One
    <3>3. One(Null = x) = 0
      BY ObAssumption DEF One
    <3>4. One(x = o) + One(Dev = x) = 0 + One(o = x \/ x = Dev)
      BY <2>2 DEF One
    <3> QED
      BY <3>1, <3>2, <3>3, <3>4
  <2>12. Head(work[t]).op # "unregister"
    BY <1>2
  <2> QED
    BY <1>1, <2>1, <2>2, <2>7, <2>9, <2>10, <2>11, <2>12, CreateStep
<1> QED
  BY <1>1, <1>4, <1>5

(* A FileObject that is being opened has its reference and no other user. *)
LEMMA OpenedIs ==
    ASSUME IInv, NEW t \in Threads, At(t, "open"), NEW o, o = Arg(t)
    PROVE  /\ work[t] # <<>> /\ Head(work[t]).op = "open" /\ work[t] \in Seq(Items)
           /\ Len(work[t]) = 1
           /\ o \in Slots /\ o \in Objects /\ Dev \in Objects /\ o # Dev
           /\ Refs(o) > 0
           /\ hdr[o].PointerCount = 1 /\ ~hdr[o].Registered
           /\ \A x : Loses(t, x) = One(o = x \/ x = Dev)
<1>1. /\ work[t] # <<>> /\ Head(work[t]).op = "open" /\ Head(work[t]).arg = o
      /\ 1 \in DOMAIN work[t] /\ work[t][1] = Head(work[t]) /\ ShapeAt(work[t], 1)
      /\ \A x : Loses(t, x) = One(o = x \/ x = Dev)
  BY HeadIs
<1>2. Len(work[t]) = 1 /\ o \in Slots
  BY <1>1 DEF ShapeAt
<1>3. o \in Objects /\ Dev \in Objects /\ o # Dev
  BY <1>2, ObAssumption DEF Objects
<1>4. IsNew(work[t][1]) /\ work[t][1].arg = o
  BY <1>1 DEF IsNew
<1>5. hdr[o].PointerCount = 1 /\ ~hdr[o].Registered
  BY <1>1, <1>4 DEF IInv, NewOK
<1>6. leaked[o] = 0
  BY <1>1, <1>4, Alone
<1>7. Refs(o) \in Nat
  BY <1>3, Parts DEF IInv
<1>8. Refs(o) > 0
  BY <1>3, <1>5, <1>6, <1>7 DEF IInv, RefCountExact
<1>9. work[t] \in Seq(Items)
  BY DEF IInv, TypeOK
<1> QED
  BY <1>1, <1>2, <1>3, <1>5, <1>8, <1>9

(* The host opens the file: its two references go to the items that are left. *)
LEMMA HostOpensOK ==
    ASSUME IInv, NEW t \in Threads, NEW o, o = Arg(t), At(t, "open"),
           Then(t, <<Item("register", o)>> \o Deref(Dev) \o <<Item("handle", o)>>),
           UNCHANGED <<hdr, table, free, tables, drive, native, held, leaked, fault>>
    PROVE  StepOK
<1>1. /\ work[t] # <<>> /\ Head(work[t]).op = "open" /\ work[t] \in Seq(Items)
      /\ Len(work[t]) = 1
      /\ o \in Slots /\ o \in Objects /\ Dev \in Objects /\ o # Dev
      /\ hdr[o].PointerCount = 1 /\ ~hdr[o].Registered
      /\ \A x : Loses(t, x) = One(o = x \/ x = Dev)
  BY OpenedIs
<1> DEFINE a == Item("register", o)
           b == Item("deref", Dev)
           c == Item("handle", o)
           items == (<<a>> \o <<b>>) \o <<c>>
<1>2. a \in Items /\ a.op = "register" /\ a.arg = o /\ \A y : ~Holds(a, y)
  BY <1>1, ItemIs
<1>3. b \in Items /\ b.op = "deref" /\ \A y : Holds(b, y) <=> Dev = y
  BY <1>1, ItemIs
<1>4. c \in Items /\ c.op = "handle" /\ \A y : Holds(c, y) <=> o = y
  BY <1>1, ItemIs
<1>5. Then(t, items)
  BY DEF Deref
<1> HIDE DEF a, b, c
<1>6. IsTriple(items, a, b, c)
  BY <1>2, <1>3, <1>4, TripleIs
<1> HIDE DEF items
<1>7. items \in Seq(Items) /\ Len(items) = 3 /\ items[1] = a /\ items[2] = b /\ items[3] = c
  BY <1>6 DEF IsTriple
<1>8. Replaced(t, items)
  BY <1>1, <1>5, <1>7, ThenReplaces DEF IInv
<1>9. \A i \in 1..Len(items) : i = 1 \/ i = 2 \/ i = 3
  BY <1>7
<1>10. \A i \in 1..Len(items) :
          /\ items[i].op \notin Closes /\ items[i].op # "free"
          /\ IsNew(items[i]) => items[i].arg = o
  BY <1>2, <1>3, <1>4, <1>7, <1>9 DEF Closes, IsNew
<1>11. Shaped(t, items)
  <2>1. \A i \in 1..Len(items) : i \in DOMAIN work'[t] /\ work'[t][i] = items[i]
    BY <1>8, NewThere DEF IInv
  <2>2. work'[t][1] = a /\ work'[t][2] = b /\ work'[t][3] = c
    BY <1>7, <2>1
  <2>3. Len(work'[t]) = 3
    <3>1. Len(work'[t]) = Len(items) + Len(Drop(work[t]))
      BY <1>8, Positions DEF IInv
    <3>2. Len(Drop(work[t])) = 0
      BY <1>1 DEF Drop
    <3> QED
      BY <1>7, <3>1, <3>2
  <2>4. ShapeAt(work'[t], 1)
    BY <1>1, <1>2, <2>2, <2>3 DEF ShapeAt, b, c
  <2>5. ShapeAt(work'[t], 2)
    BY <1>3, <2>2 DEF ShapeAt
  <2>6. ShapeAt(work'[t], 3)
    BY <1>4, <2>2 DEF ShapeAt
  <2> QED
    BY <1>9, <2>4, <2>5, <2>6 DEF Shaped
<1>12. CloseOK'
  BY <1>8, <1>10, NoCloses
<1>13. /\ hdr' \in [Objects -> Headers]
       /\ held' \in [Threads -> Seq(Objects)]
       /\ leaked' \in [Objects -> Nat]
       /\ fault' \in BOOLEAN
  BY DEF IInv, TypeOK
<1>14. \A k \in Objects : SameButCount(hdr'[k], hdr[k]) /\ hdr'[k] = hdr[k] /\ leaked'[k] = leaked[k]
  BY DEF SameButCount
<1>15. NewItemsOK(items)
  BY <1>1, <1>10 DEF NewItemsOK
<1>16. ASSUME NEW x \in Objects
       PROVE  hdr'[x].PointerCount + leaked[x] + Loses(t, x) + FromThreads(x)
              = hdr[x].PointerCount + leaked'[x] + Gains(items, x) + FromThreads(x)'
  <2>1. Gains(items, x) = One(Holds(a, x)) + One(Holds(b, x)) + One(Holds(c, x))
    BY <1>6, <1>16 DEF IsTriple
  <2>2. Gains(items, x) = 0 + One(Dev = x) + One(o = x)
    BY <1>2, <1>3, <1>4, <2>1 DEF One
  <2>3. Gains(items, x) = Loses(t, x)
    BY <1>1, <2>2 DEF One
  <2>4. FromThreads(x)' = FromThreads(x)
    BY OthersSame
  <2> QED
    BY <2>3, <2>4
<1>17. Moves(t, items)
  BY <1>16 DEF Moves
<1> QED
  BY <1>1, <1>8, <1>11, <1>12, <1>13, <1>14, <1>15, <1>17, QuietStep

(* The host does not open the file: the reference to the FileObject is lost. *)
LEMMA HostRefusesOK ==
    ASSUME IInv, NEW t \in Threads, NEW o, o = Arg(t), At(t, "open"),
           Then(t, NotOpened(o)), leaked' = [leaked EXCEPT ![o] = @ + 1],
           UNCHANGED <<hdr, table, free, tables, drive, native, held, fault>>
    PROVE  StepOK
<1>1. /\ work[t] # <<>> /\ Head(work[t]).op = "open"
      /\ o \in Objects /\ Dev \in Objects /\ o # Dev /\ Refs(o) > 0
      /\ \A x : Loses(t, x) = One(o = x \/ x = Dev)
  BY OpenedIs
<1> DEFINE items == Deref(Dev)
<1>2. Then(t, items)
  BY DEF NotOpened
<1>3. items \in Seq(Items) /\ Len(items) = 1 /\ items[1] = Item("deref", Dev)
      /\ \A x : Gains(items, x) = One(x = Dev)
  BY <1>1, GainsDeref
<1> HIDE DEF items
<1>4. Replaced(t, items)
  BY <1>1, <1>2, <1>3, ThenReplaces DEF IInv
<1>5. Plain(items)
  BY <1>3 DEF Plain, Item
<1>6. Shaped(t, items) /\ Harmless(items)
  BY <1>4, <1>5, PlainFits
<1>7. NewItemsOK(items)
  BY <1>6 DEF Harmless, IsNew, NewItemsOK
<1>8. CloseOK'
  BY <1>4, <1>5, NoCloses DEF Plain, Closes
<1>9. TypeOK /\ leaked \in [Objects -> Nat] /\ hdr \in [Objects -> Headers]
  BY DEF IInv, TypeOK
<1>10. /\ leaked' \in [Objects -> Nat]
       /\ \A k \in Objects : leaked'[k] = leaked[k] + One(o = k)
  BY <1>1, <1>9 DEF One
<1>11. \A k \in Objects : /\ SameButCount(hdr'[k], hdr[k])
                          /\ hdr'[k] = hdr[k] /\ (leaked'[k] = leaked[k] \/ Refs(k) > 0)
  BY <1>1, <1>9, <1>10 DEF SameButCount, One
<1>12. hdr' \in [Objects -> Headers] /\ held' \in [Threads -> Seq(Objects)] /\ fault' \in BOOLEAN
  BY <1>9 DEF TypeOK
<1>13. ASSUME NEW x \in Objects
       PROVE  hdr'[x].PointerCount + leaked[x] + Loses(t, x) + FromThreads(x)
              = hdr[x].PointerCount + leaked'[x] + Gains(items, x) + FromThreads(x)'
  <2> DEFINE p == hdr[x].PointerCount
             k == leaked[x]
             f == FromThreads(x)
             i == One(o = x)
             j == One(x = Dev)
  <2>1. hdr'[x].PointerCount = p /\ FromThreads(x)' = f /\ leaked'[x] = k + i
    BY <1>10, OthersSame
  <2>2. Loses(t, x) = i + j /\ Gains(items, x) = j
    BY <1>1, <1>3 DEF One
  <2>3. p \in Nat /\ k \in Nat /\ i \in Nat /\ j \in Nat
    BY <1>9 DEF Headers, One
  <2>4. f \in Nat
    BY <1>9, PartsNow DEF PartsOf
  <2> HIDE DEF p, k, f, i, j
  <2>5. p + k + (i + j) + f = p + (k + i) + j + f
    BY <2>3, <2>4
  <2> QED
    BY <2>1, <2>2, <2>5 DEF p, k, f
<1>14. Moves(t, items)
  BY <1>13 DEF Moves
<1> QED
  BY <1>1, <1>4, <1>6, <1>7, <1>8, <1>10, <1>11, <1>12, <1>14, QuietStep

(* The rest of IopParseDevice and IoCreateFile, with a host handle to open files below. *)
LEMMA OpenHostFileOK ==
    ASSUME IInv, HostHandle, NEW t \in Threads, OpenHostFile(t)
    PROVE  StepOK
<1> DEFINE o == Arg(t)
<1>1. /\ At(t, "open")
      /\ UNCHANGED <<hdr, table, free, tables, drive, native, held, fault>>
      /\ \/ /\ Then(t, <<Item("register", o)>> \o Deref(Dev) \o <<Item("handle", o)>>)
            /\ UNCHANGED leaked
         \/ Then(t, NotOpened(o)) /\ leaked' = [leaked EXCEPT ![o] = @ + 1]
  BY DEF OpenHostFile
<1>2. CASE /\ Then(t, <<Item("register", o)>> \o Deref(Dev) \o <<Item("handle", o)>>)
           /\ UNCHANGED leaked
  BY <1>1, <1>2, HostOpensOK
<1>3. CASE Then(t, NotOpened(o)) /\ leaked' = [leaked EXCEPT ![o] = @ + 1]
  BY <1>1, <1>3, HostRefusesOK
<1> QED
  BY <1>1, <1>2, <1>3

(* ObInsertObject opens the object that has the name. *)
LEMMA OpenExistingOK ==
    ASSUME IInv, NEW t \in Threads, At(t, "insert"), NEW f, InUse(f), NEW perm \in SUBSET {"PERMANENT"},
           HandlesLeft, ObpCreateObjectHandle(f),
           hdr' = [hdr EXCEPT ![f].HandleCount = @ + 1, ![f].PointerCount = @ + 1,
                              ![f].Flags = @ \cup perm],
           Then(t, <<>>), UNCHANGED <<drive, native, held, leaked, fault>>
    PROVE  StepOK
<1> DEFINE items == <<>>
<1>1. TypeOK /\ hdr \in [Objects -> Headers]
  BY DEF IInv, TypeOK
<1>2. /\ work[t] # <<>> /\ Head(work[t]).op = "insert"
      /\ \A x : Loses(t, x) = One("insert" \in {"deref", "handle", "duplicate", "link", "parse"} /\ Arg(t) = x)
  BY HeadIs
<1>3. f \in Objects /\ hdr[f].Type # "free" /\ hdr[f].PointerCount > 0 /\ hdr[f] \in Headers
  BY <1>1, InUseCounted
<1>4. Then(t, items)
  OBVIOUS
<1>5. items \in Seq(Items) /\ Len(items) = 0 /\ \A x : Gains(items, x) = 0
  BY GainsNone
<1> HIDE DEF items
<1>6. Replaced(t, items)
  BY <1>1, <1>2, <1>4, <1>5, ThenReplaces
<1>7. hdr'[f] = [hdr[f] EXCEPT !.HandleCount = @ + 1, !.PointerCount = @ + 1, !.Flags = @ \cup perm]
      /\ \A c \in Objects : c # f => hdr'[c] = hdr[c]
  BY <1>1, <1>3
<1>8. /\ hdr'[f] \in Headers
      /\ hdr'[f].HandleCount = hdr[f].HandleCount + 1
      /\ hdr'[f].PointerCount = hdr[f].PointerCount + 1
      /\ hdr'[f].Flags = hdr[f].Flags \cup perm
      /\ hdr'[f].Type = hdr[f].Type /\ hdr'[f].Directory = hdr[f].Directory
      /\ hdr'[f].Name = hdr[f].Name /\ hdr'[f].LinkTarget = hdr[f].LinkTarget
      /\ hdr'[f].Registered = hdr[f].Registered
  <2> DEFINE new == hdr'[f]
             old == hdr[f]
  <2>1. /\ old \in Headers
        /\ new = [old EXCEPT !.HandleCount = @ + 1, !.PointerCount = @ + 1, !.Flags = @ \cup perm]
    BY <1>3, <1>7
  <2> HIDE DEF new, old
  <2>2. /\ old.Flags \cup perm \in SUBSET {"PERMANENT", "ATTACHED"}
        /\ old.HandleCount + 1 \in Nat /\ old.PointerCount + 1 \in Nat
    BY <2>1 DEF Headers
  <2>3. /\ new \in Headers
        /\ new.HandleCount = old.HandleCount + 1
        /\ new.PointerCount = old.PointerCount + 1
        /\ new.Flags = old.Flags \cup perm
        /\ new.Type = old.Type /\ new.Directory = old.Directory
        /\ new.Name = old.Name /\ new.LinkTarget = old.LinkTarget
        /\ new.Registered = old.Registered
    BY <2>1, <2>2 DEF Headers
  <2> QED
    BY <2>3 DEF new, old
<1>9. hdr' \in [Objects -> Headers]
  BY <1>1, <1>3, <1>7, <1>8
<1>10. ASSUME NEW c \in Objects
       PROVE  /\ hdr'[c].HandleCount = hdr[c].HandleCount + One(c = f)
              /\ hdr'[c].PointerCount = hdr[c].PointerCount + One(c = f)
              /\ hdr[c].HandleCount \in Nat /\ hdr[c].PointerCount \in Nat
  <2>1. hdr[c].HandleCount \in Nat /\ hdr[c].PointerCount \in Nat
    BY <1>1 DEF Headers
  <2>2. CASE c = f
    BY <1>8, <2>1, <2>2 DEF One
  <2>3. CASE c # f
    <3>1. hdr'[c] = hdr[c]
      BY <1>7, <2>3
    <3>2. /\ hdr[c].HandleCount = hdr[c].HandleCount + One(c = f)
          /\ hdr[c].PointerCount = hdr[c].PointerCount + One(c = f)
      BY <2>1, <2>3 DEF One
    <3> QED
      BY <2>1, <3>1, <3>2
  <2> QED
    BY <2>2, <2>3
<1>11. \A c \in Objects :
         /\ hdr'[c].Type = hdr[c].Type
         /\ hdr[c].Flags \subseteq hdr'[c].Flags /\ hdr'[c].Directory = hdr[c].Directory
         /\ hdr'[c].Name = hdr[c].Name /\ hdr'[c].LinkTarget = hdr[c].LinkTarget
         /\ hdr'[c].Registered = hdr[c].Registered
  BY <1>7, <1>8
<1>12. /\ table' \in [Handles -> Objects \cup {Null}]
       /\ free' \in Seq(Handles)
       /\ tables' \in 0..MaxTables
       /\ HandleTableSound'
       /\ \A h \in Handles : table[h] # Null => table'[h] # Null
  BY <1>3, <1>9, <1>10, HandleMade
<1>13. TypeOK'
  <2>1. work' \in [Threads -> Seq(Items)]
    BY <1>1, <1>6, Positions
  <2> QED
    BY <1>1, <1>9, <1>12, <2>1 DEF TypeOK
<1>14. Harmless(items) /\ ShapeOK'
  <2>1. Harmless(items) /\ \A i \in 1..Len(items) : ShapeAt(work'[t], i)
    BY <1>5 DEF Harmless
  <2> QED
    BY <1>6, <2>1, ShapeKept
<1>15. NewOK' /\ FreeOK'
  BY <1>6, <1>7, <1>14, HarmlessKept, InUseNotPending
<1>16. CloseOK'
  BY <1>5, <1>6, <1>12, NoCloses
<1>17. HeadersOK'
  <2>1. \A c \in Objects : HeaderOK(hdr[c])
    BY DEF IInv, HeadersOK
  <2>2. HeaderOK(hdr'[f])
    BY <1>3, <1>8, <2>1 DEF HeaderOK
  <2>3. \A c \in Objects : HeaderOK(hdr'[c])
    BY <1>7, <2>1, <2>2
  <2> QED
    BY <2>3 DEF HeadersOK
<1>18. NativeOK'
  <2>1. \A x \in native' : hdr'[x].Registered \/ (x \in native /\ ~hdr[x].Registered)
    BY <1>1, <1>11 DEF TypeOK
  <2>2. \A x : Head(work[t]) # Item("unregister", x)
    BY <1>2 DEF Item
  <2> QED
    BY <1>6, <2>1, <2>2, NativeKept
<1>19. NamesSound' /\ DriveMapFresh'
  <2>1. \A c \in Objects : hdr'[c].HandleCount >= hdr[c].HandleCount
    BY <1>1, <1>7, <1>8 DEF Headers
  <2>2. SameNames(hdr, hdr')
    BY <1>11 DEF SameNames
  <2> QED
    BY <1>9, <1>11, <2>1, <2>2, NamesStay
<1>20. ASSUME NEW x \in Objects PROVE Balanced(t, items, f, x)
  <2> DEFINE p == hdr[x].PointerCount
             h == hdr[x].HandleCount
             n == Count(hdr[x].Directory # Null)
             d == One(hdr[f].Directory = x)
             l == One(hdr[f].LinkTarget = x)
             i == One(x = f)
  <2>1. Weight(hdr, f, x) = h + n + d + l
    BY DEF Weight
  <2>2. Weight(hdr', f, x) = (h + i) + n + d + l
    BY <1>3, <1>10, <1>11 DEF Weight
  <2>3. Loses(t, x) = 0 /\ Gains(items, x) = 0
    BY <1>2, <1>5 DEF One
  <2>4. p \in Nat /\ h \in Nat /\ n \in Nat /\ d \in Nat /\ l \in Nat /\ i \in Nat
    BY <1>1 DEF Headers, Count, One
  <2>5. hdr'[x].PointerCount = p + i
    BY <1>10
  <2> HIDE DEF p, h, n, d, l, i
  <2>6. (p + i) + (h + n + d + l) + 0 = p + ((h + i) + n + d + l) + 0
    BY <2>4
  <2> QED
    BY <2>1, <2>2, <2>3, <2>5, <2>6 DEF Balanced, p
<1>21. \A x \in Objects : Lives(x)
  BY <1>3, <1>7, <1>8 DEF Lives, InUse
<1>22. UNCHANGED <<held, leaked>>
  OBVIOUS
<1> QED
  BY <1>3, <1>6, <1>11, <1>12, <1>13, <1>14, <1>15, <1>16, <1>17, <1>18, <1>19, <1>20, <1>21, <1>22, ObjectStep

(* The object that the first item of t's list makes known. *)
LEMMA HeadNew ==
    ASSUME IInv, NEW t \in Threads, At(t, "insert"), NEW o, o = Arg(t)
    PROVE  /\ o \in Slots /\ o \in Objects /\ NewObject(o) /\ ~Pending(t, o)
           /\ hdr[o].PointerCount = 1 /\ hdr[o].Type # "free" /\ Refs(o) > 0
           /\ hdr[o].Directory = Null
<1>1. /\ Head(work[t]).op = "insert" /\ Head(work[t]).arg = o
      /\ 1 \in DOMAIN work[t] /\ work[t][1] = Head(work[t])
  BY HeadIs
<1>2. IsNew(work[t][1]) /\ work[t][1].arg = o
  BY <1>1 DEF IsNew
<1>3. o \in Slots /\ o \in Objects /\ leaked[o] = 0 /\ hdr[o].Directory = Null
  BY <1>1, <1>2, Alone
<1>4. hdr[o].PointerCount = 1
  BY <1>1, <1>2 DEF IInv, NewOK
<1>5. ~Pending(t, o)
  <2> SUFFICES ASSUME NEW u \in Threads, NEW i \in DOMAIN work[u], Stays(t, u, i),
                      work[u][i].op \in {"insert", "register", "open", "free"}, work[u][i].arg = o
               PROVE  FALSE
    BY DEF Pending
  <2>1. CASE work[u][i].op = "free"
    BY <1>4, <2>1 DEF IInv, FreeOK
  <2>2. CASE IsNew(work[u][i])
    <3>1. t = u /\ 1 = i
      BY <1>1, <1>2, <2>2, NewOnce
    <3> QED
      BY <3>1 DEF Stays
  <2> QED
    BY <2>1, <2>2 DEF IsNew
<1>6. hdr[o].Type # "free"
  <2>1. Unused.PointerCount = 0
    BY DEF Unused
  <2> QED
    BY <1>3, <1>4, <2>1 DEF IInv, HeadersOK, HeaderOK
<1>7. Refs(o) > 0
  <2>1. 1 = Refs(o) + 0
    BY <1>3, <1>4 DEF IInv, RefCountExact
  <2>2. Refs(o) \in Nat
    BY <1>3, PartsNow DEF IInv, PartsOf
  <2> QED
    BY <2>1, <2>2
<1>8. NewObject(o)
  BY <1>1, <1>2 DEF NewObject
<1> QED
  BY <1>3, <1>4, <1>5, <1>6, <1>7, <1>8

(* The header of an object that gets a name and a handle. *)
Entered(new, old, d, n, perm) ==
    /\ new \in Headers
    /\ new.HandleCount = old.HandleCount + 1
    /\ new.PointerCount = old.PointerCount + 2
    /\ new.Directory = d /\ new.Name = n
    /\ new.Flags = (old.Flags \cup {"ATTACHED"}) \cup perm
    /\ new.Type = old.Type /\ new.LinkTarget = old.LinkTarget
    /\ new.Registered = old.Registered

(* ObInsertObject enters a new name. *)
LEMMA AttachOK ==
    ASSUME IInv, NEW t \in Threads, At(t, "insert"), NEW o, o = Arg(t), NEW d \in Objects, InUse(d),
           hdr[d].Type = "Directory", NEW n \in Names, Entries(d, n) = {},
           NEW perm \in SUBSET {"PERMANENT"}, HandlesLeft, ObpCreateObjectHandle(o),
           hdr' \in [Objects -> Headers],
           Entered(hdr'[o], hdr[o], d, n, perm),
           hdr'[d] = [hdr[d] EXCEPT !.PointerCount = @ + 1],
           \A c \in Objects : c # o /\ c # d => hdr'[c] = hdr[c],
           drive' = IF d = Dos /\ n \in DriveNames THEN [drive EXCEPT ![n] = Target(o)] ELSE drive,
           Then(t, <<>>), UNCHANGED <<native, held, leaked, fault>>
    PROVE  StepOK
<1> DEFINE items == <<>>
<1>1. TypeOK /\ hdr \in [Objects -> Headers] /\ drive \in [DriveNames -> Objects \cup {Null}]
  BY DEF IInv, TypeOK
<1>2. /\ work[t] # <<>> /\ Head(work[t]).op = "insert"
      /\ \A x : Loses(t, x) = One("insert" \in {"deref", "handle", "duplicate", "link", "parse"} /\ Arg(t) = x)
  BY HeadIs
<1>3. /\ o \in Objects /\ NewObject(o) /\ ~Pending(t, o)
      /\ hdr[o].PointerCount = 1 /\ hdr[o].Type # "free" /\ Refs(o) > 0
      /\ hdr[o].Directory = Null
  BY HeadNew
<1>4. d # o /\ d # Null /\ o # Null
  BY <1>3, ObAssumption DEF InUse
<1>5. Then(t, items)
  OBVIOUS
<1>6. items \in Seq(Items) /\ Len(items) = 0 /\ \A x : Gains(items, x) = 0
  BY GainsNone
<1> HIDE DEF items
<1>7. Replaced(t, items)
  BY <1>1, <1>2, <1>5, <1>6, ThenReplaces
<1>8. SameButCount(hdr'[d], hdr[d]) /\ hdr'[d].PointerCount = hdr[d].PointerCount + 1
  <2> DEFINE new == hdr'[d]
             old == hdr[d]
  <2>1. old \in Headers /\ new = [old EXCEPT !.PointerCount = @ + 1]
    BY <1>1
  <2> HIDE DEF new, old
  <2>2. SameButCount(new, old) /\ new.PointerCount = old.PointerCount + 1
    BY <2>1 DEF Headers, SameButCount
  <2> QED
    BY <2>2 DEF new, old
<1>9. \A c \in Objects : /\ hdr'[c].Type = hdr[c].Type /\ hdr'[c].LinkTarget = hdr[c].LinkTarget
                         /\ hdr'[c].Registered = hdr[c].Registered
  <2> TAKE c \in Objects
  <2>1. CASE c = o
    BY <2>1 DEF Entered
  <2>2. CASE c = d
    BY <1>8, <2>2 DEF SameButCount
  <2>3. CASE c # o /\ c # d
    BY <2>3
  <2> QED
    BY <2>1, <2>2, <2>3
<1>10. \A c \in Objects \ {o} : /\ hdr'[c].Directory = hdr[c].Directory
                                /\ hdr'[c].Name = hdr[c].Name
                                /\ hdr'[c].HandleCount = hdr[c].HandleCount
                                /\ hdr'[c].Flags = hdr[c].Flags
  <2> TAKE c \in Objects \ {o}
  <2>1. CASE c = d
    BY <1>8, <2>1 DEF SameButCount
  <2>2. CASE c # d
    BY <2>2
  <2> QED
    BY <2>1, <2>2
<1>11. \A c \in Objects : hdr'[c].HandleCount = hdr[c].HandleCount + One(c = o)
  <2> TAKE c \in Objects
  <2>1. hdr[c].HandleCount \in Nat
    BY <1>1 DEF Headers
  <2>2. CASE c = o
    BY <2>1, <2>2 DEF One, Entered
  <2>3. CASE c # o
    <3>1. hdr'[c].HandleCount = hdr[c].HandleCount
      BY <1>10, <2>3
    <3>2. hdr[c].HandleCount = hdr[c].HandleCount + One(c = o)
      BY <2>1, <2>3 DEF One
    <3> QED
      BY <3>1, <3>2
  <2> QED
    BY <2>2, <2>3
<1>12. /\ table' \in [Handles -> Objects \cup {Null}]
       /\ free' \in Seq(Handles)
       /\ tables' \in 0..MaxTables
       /\ HandleTableSound'
       /\ \A h \in Handles : table[h] # Null => table'[h] # Null
  BY <1>3, <1>11, HandleMade
<1>13. Attached(hdr, hdr', o, d, n)
  <2>1. EntriesIn(hdr, d, n) = {}
    BY DEF Entries, EntriesIn
  <2>2. hdr'[o].Directory = d /\ hdr'[o].Name = n /\ hdr'[o].HandleCount > 0
    <3>1. hdr[o].HandleCount \in Nat
      BY <1>1, <1>3 DEF Headers
    <3> QED
      BY <3>1 DEF Entered
  <2> QED
    BY <1>3, <1>9, <1>10, <2>1, <2>2 DEF Attached
<1>14. NamesSound'
  <2>1. NamesIn(hdr)
    BY NamesAre DEF IInv
  <2>2. NamesIn(hdr')
    BY <1>1, <1>13, <2>1, NamesAttached
  <2> QED
    BY <2>2, NamesAre
<1>15. drive' \in [DriveNames -> Objects \cup {Null}] /\ DriveMapFresh'
  <2>1. DriveIn(hdr, drive)
    BY NamesAre DEF IInv
  <2>2. Target(o) = TargetIn(hdr, o) /\ TargetIn(hdr, o) \in Objects \cup {Null}
    BY <1>1, <1>3 DEF Target, TargetIn, Headers
  <2>3. drive' = IF d = Dos /\ n \in DriveNames THEN [drive EXCEPT ![n] = TargetIn(hdr, o)] ELSE drive
    BY <2>2
  <2>4. drive' \in [DriveNames -> Objects \cup {Null}] /\ DriveIn(hdr', drive')
    BY <1>1, <1>13, <2>1, <2>2, <2>3, DriveAttached
  <2> QED
    BY <2>4, NamesAre
<1>16. TypeOK'
  <2>1. work' \in [Threads -> Seq(Items)]
    BY <1>1, <1>7, Positions
  <2> QED
    BY <1>1, <1>12, <1>15, <2>1 DEF TypeOK
<1>17. Harmless(items) /\ ShapeOK'
  <2>1. Harmless(items) /\ \A i \in 1..Len(items) : ShapeAt(work'[t], i)
    BY <1>6 DEF Harmless
  <2> QED
    BY <1>7, <2>1, ShapeKept
<1>18. NewOK' /\ FreeOK'
  BY <1>3, <1>7, <1>17, HarmlessKept, InUseNotPending
<1>19. CloseOK'
  BY <1>6, <1>7, <1>12, NoCloses
<1>20. HeadersOK'
  <2>1. \A c \in Objects : HeaderOK(hdr[c])
    BY DEF IInv, HeadersOK
  <2>2. HeaderOK(hdr'[o])
    <3>1. HeaderOK(hdr[o])
      BY <1>3, <2>1
    <3> QED
      BY <1>3, <3>1 DEF HeaderOK, Entered
  <2>3. HeaderOK(hdr'[d])
    <3>1. HeaderOK(hdr[d]) /\ hdr[d].Type # "free"
      BY <2>1
    <3> QED
      BY <1>8, <3>1 DEF HeaderOK, SameButCount
  <2>4. \A c \in Objects : HeaderOK(hdr'[c])
    BY <2>1, <2>2, <2>3
  <2> QED
    BY <2>4 DEF HeadersOK
<1>21. NativeOK'
  <2>1. \A x \in native' : hdr'[x].Registered \/ (x \in native /\ ~hdr[x].Registered)
    BY <1>1, <1>9 DEF TypeOK
  <2>2. \A x : Head(work[t]) # Item("unregister", x)
    BY <1>2 DEF Item
  <2> QED
    BY <1>7, <2>1, <2>2, NativeKept
<1>22. ASSUME NEW x \in Objects PROVE Balanced(t, items, o, x)
  <2> DEFINE p == hdr[x].PointerCount
             h == hdr[x].HandleCount
             n0 == Count(hdr[x].Directory # Null)
             l == One(hdr[o].LinkTarget = x)
             i == One(x = o)
             j == One(x = d)
  <2>1. x # Null
    BY ObAssumption
  <2>2. Weight(hdr, o, x) = h + n0 + 0 + l
    BY <1>3, <2>1 DEF Weight, One
  <2>3. hdr'[o].LinkTarget = hdr[o].LinkTarget /\ hdr'[o].Directory = d
    BY DEF Entered
  <2>4. hdr'[x].HandleCount = h + i
    BY <1>11
  <2>5. Count(hdr'[x].Directory # Null) = n0 + i
    <3>1. CASE x = o
      BY <1>3, <1>4, <2>3, <3>1 DEF Count, One
    <3>2. CASE x # o
      <4>1. hdr'[x].Directory = hdr[x].Directory
        BY <1>10, <3>2
      <4>2. i = 0 /\ n0 \in Nat
        BY <3>2 DEF One, Count
      <4> QED
        BY <4>1, <4>2
    <3> QED
      BY <3>1, <3>2
  <2>6. One(hdr'[o].Directory = x) = j
    BY <2>3 DEF One
  <2>7. Weight(hdr', o, x) = (h + i) + (n0 + i) + j + l
    BY <2>3, <2>4, <2>5, <2>6 DEF Weight
  <2>8. Loses(t, x) = 0 /\ Gains(items, x) = 0
    BY <1>2, <1>6 DEF One
  <2>9. p \in Nat /\ h \in Nat /\ n0 \in Nat /\ l \in Nat /\ i \in Nat /\ j \in Nat
    BY <1>1 DEF Headers, Count, One
  <2>10. hdr'[x].PointerCount = p + i + i + j
    <3>1. CASE x = o
      <4>1. hdr'[x].PointerCount = p + 2 /\ i = 1 /\ j = 0
        BY <1>4, <3>1 DEF One, Entered
      <4> QED
        BY <2>9, <4>1
    <3>2. CASE x = d
      <4>1. hdr'[x].PointerCount = p + 1 /\ i = 0 /\ j = 1
        BY <1>4, <1>8, <3>2 DEF One
      <4> QED
        BY <2>9, <4>1
    <3>3. CASE x # o /\ x # d
      <4>1. hdr'[x].PointerCount = p /\ i = 0 /\ j = 0
        BY <3>3 DEF One
      <4> QED
        BY <2>9, <4>1
    <3> QED
      BY <3>1, <3>2, <3>3
  <2> HIDE DEF p, h, n0, l, i, j
  <2>11. (p + i + i + j) + (h + n0 + 0 + l) + 0 = p + ((h + i) + (n0 + i) + j + l) + 0
    BY <2>9
  <2> QED
    BY <2>2, <2>7, <2>8, <2>10, <2>11 DEF Balanced, p
<1>23. \A x \in Objects : Lives(x)
  <2> TAKE x \in Objects
  <2>1. CASE x = o
    BY <1>3, <1>9, <2>1 DEF Lives
  <2>2. CASE x = d
    BY <1>9, <2>2, InUseCounted DEF Lives, InUse
  <2>3. CASE x # o /\ x # d
    BY <2>3 DEF Lives
  <2> QED
    BY <2>1, <2>2, <2>3
<1>24. UNCHANGED <<held, leaked>>
  OBVIOUS
<1> QED
  BY <1>3, <1>7, <1>9, <1>10, <1>12, <1>14, <1>15, <1>16, <1>17, <1>18, <1>19, <1>20, <1>21, <1>22,
     <1>23, <1>24, ObjectStep

(* ObInsertObject *)
LEMMA InsertOK ==
    ASSUME IInv, NEW t \in Threads, ObInsertObject(t)
    PROVE  StepOK
<1> DEFINE o == Arg(t)
           a == Head(work[t])
           d == Parent(a.path)
           n == Last(a.path)
           found == Find(a.path, TRUE)
           perm == a.attrs \cap {"PERMANENT"}
<1>1. At(t, "insert") /\ Then(t, <<>>) /\ UNCHANGED <<native, held, leaked, fault>>
  BY DEF ObInsertObject
<1>2. a.path \in Paths
  <2>1. a \in Items /\ a.op = "insert"
    BY <1>1, HeadIs
  <2> QED
    BY <2>1, ItemArgs
<1>3. d \in Objects \cup {Null} /\ Found(d) /\ n \in Names
  BY <1>2, ParentSafe
<1>4. /\ Found(found)
      /\ IsDirectory(d) /\ found = Null => Entries(d, n) = {}
  BY <1>2, FindSafe
<1>5. perm \in SUBSET {"PERMANENT"}
  OBVIOUS
<1>6. \/ found # Null /\ OpenExisting(t, o, found, a)
      \/ IsDirectory(d) /\ found = Null /\ Attach(t, o, d, a)
      \/ UNCHANGED <<hdr, table, free, tables, drive>>
  BY DEF ObInsertObject
<1>7. CASE found # Null /\ OpenExisting(t, o, found, a)
  <2>1. InUse(found)
    BY <1>4, <1>7 DEF Found
  <2>2. /\ HandlesLeft /\ ObpCreateObjectHandle(found) /\ UNCHANGED drive
        /\ hdr' = [hdr EXCEPT ![found].HandleCount = @ + 1, ![found].PointerCount = @ + 1,
                              ![found].Flags = @ \cup perm]
    BY <1>7 DEF OpenExisting
  <2> HIDE DEF found, perm
  <2> QED
    BY <1>1, <1>5, <2>1, <2>2, OpenExistingOK
<1>8. CASE IsDirectory(d) /\ found = Null /\ Attach(t, o, d, a)
  <2>1. d \in Objects /\ InUse(d) /\ hdr[d].Type = "Directory" /\ Entries(d, n) = {}
    BY <1>3, <1>4, <1>8 DEF Found, IsDirectory
  <2>2. o \in Objects /\ NewObject(o)
    BY <1>1, HeadNew
  <2>3. d # o
    BY <2>1, <2>2 DEF InUse
  <2>4. hdr \in [Objects -> Headers]
    BY DEF IInv, TypeOK
  <2> DEFINE entered == Inserted(o, d, a)
  <2>5. /\ HandlesLeft /\ ObpCreateObjectHandle(o)
        /\ drive' = IF d = Dos /\ n \in DriveNames THEN [drive EXCEPT ![n] = Target(o)] ELSE drive
        /\ hdr' = [hdr EXCEPT ![o] = entered, ![d].PointerCount = @ + 1]
        /\ entered = [hdr[o] EXCEPT !.HandleCount = @ + 1, !.PointerCount = @ + 2, !.Directory = d,
                                    !.Name = n, !.Flags = @ \cup {"ATTACHED"} \cup perm]
    BY <1>8 DEF Attach, Inserted
  <2> HIDE DEF o, d, n, perm, entered
  <2>6. /\ hdr'[o] = entered
        /\ hdr'[d] = [hdr[d] EXCEPT !.PointerCount = @ + 1]
        /\ \A c \in Objects : c # o /\ c # d => hdr'[c] = hdr[c]
        /\ DOMAIN hdr' = Objects
        /\ hdr' = [x \in Objects |-> hdr'[x]]
    <3>1. hdr' = [hdr EXCEPT ![o] = entered, ![d].PointerCount = @ + 1]
      BY <2>5
    <3> QED
      BY <2>1, <2>2, <2>3, <2>4, <3>1
  <2>7. Entered(hdr'[o], hdr[o], d, n, perm)
    <3> DEFINE new == hdr'[o]
               old == hdr[o]
    <3>1. /\ old \in Headers
          /\ new = [old EXCEPT !.HandleCount = @ + 1, !.PointerCount = @ + 2, !.Directory = d,
                               !.Name = n, !.Flags = @ \cup {"ATTACHED"} \cup perm]
      BY <2>2, <2>4, <2>5, <2>6
    <3> HIDE DEF new, old
    <3>2. /\ old.HandleCount + 1 \in Nat /\ old.PointerCount + 2 \in Nat
          /\ (old.Flags \cup {"ATTACHED"}) \cup perm \in SUBSET {"PERMANENT", "ATTACHED"}
      BY <1>5, <3>1 DEF Headers
    <3>3. Entered(new, old, d, n, perm)
      BY <1>3, <2>1, <3>1, <3>2 DEF Headers, Entered
    <3> QED
      BY <3>3 DEF new, old
  <2>8. hdr'[d] \in Headers
    <3> DEFINE new == hdr'[d]
               old == hdr[d]
    <3>1. old \in Headers /\ new = [old EXCEPT !.PointerCount = @ + 1]
      BY <2>1, <2>4, <2>6
    <3> HIDE DEF new, old
    <3>2. new \in Headers
      BY <3>1 DEF Headers
    <3> QED
      BY <3>2 DEF new
  <2>9. hdr' \in [Objects -> Headers]
    <3>1. \A c \in Objects : hdr'[c] \in Headers
      BY <2>4, <2>6, <2>7, <2>8 DEF Entered
    <3> QED
      BY <2>6, <3>1
  <2>10. o = Arg(t)
    BY DEF o
  <2> QED
    BY <1>1, <1>3, <1>5, <2>1, <2>5, <2>6, <2>7, <2>9, <2>10, AttachOK, ZenonT(60)
<1>9. CASE UNCHANGED <<hdr, table, free, tables, drive>>
  BY <1>1, <1>9, NothingDone
<1> QED
  BY <1>6, <1>7, <1>8, <1>9

-----------------------------------------------------------------------------
(* Closing a handle, and making an object temporary *)

(* The header of an object that may lose its name. *)
Unnamed(new, old, detach) ==
    /\ new \in Headers
    /\ detach <=> (new.HandleCount = 0 /\ "ATTACHED" \in new.Flags /\ "PERMANENT" \notin new.Flags)
    /\ "ATTACHED" \in old.Flags => "ATTACHED" \in new.Flags
    /\ new.Type = old.Type /\ new.PointerCount = old.PointerCount
    /\ new.LinkTarget = old.LinkTarget /\ new.Registered = old.Registered
    /\ detach => new.Directory = Null
    /\ ~detach => new.Directory = old.Directory /\ new.Name = old.Name

(* A named object keeps its name exactly as long as it is open or permanent. *)
LEMMA NamesUnnamed ==
    ASSUME IInv, NEW o \in Objects, NEW detach, Unnamed(hdr'[o], hdr[o], detach),
           hdr' \in [Objects -> Headers], \A c \in Objects \ {o} : hdr'[c] = hdr[c],
           drive' = IF detach THEN DetachedDrive(o) ELSE drive
    PROVE  NamesSound' /\ DriveMapFresh' /\ drive' \in [DriveNames -> Objects \cup {Null}]
<1>1. hdr \in [Objects -> Headers] /\ drive \in [DriveNames -> Objects \cup {Null}]
  BY DEF IInv, TypeOK
<1>2. NamesIn(hdr) /\ DriveIn(hdr, drive)
  BY NamesAre DEF IInv
<1>3. hdr'[o].Type = hdr[o].Type
  BY DEF Unnamed
<1>4. CASE detach
  <2>1. hdr'[o].Directory = Null
    BY <1>4 DEF Unnamed
  <2>2. NamesIn(hdr')
    BY <1>1, <1>2, <1>3, <2>1, NamesDetached
  <2>3. drive' = IF hdr[o].Directory = Dos /\ hdr[o].Name \in DriveNames
                 THEN [drive EXCEPT ![hdr[o].Name] = Null] ELSE drive
    BY <1>4 DEF DetachedDrive
  <2>4. drive' \in [DriveNames -> Objects \cup {Null}] /\ DriveIn(hdr', drive')
    BY <1>1, <1>2, <2>1, <2>3, DriveDetached
  <2> QED
    BY <2>2, <2>4, NamesAre
<1>5. CASE ~detach
  <2>1. hdr'[o].Directory = hdr[o].Directory /\ hdr'[o].Name = hdr[o].Name
    BY <1>5 DEF Unnamed
  <2>2. SameNames(hdr, hdr')
    BY <2>1 DEF SameNames
  <2>3. \A c \in Objects : hdr'[c].Type = hdr[c].Type /\ hdr'[c].LinkTarget = hdr[c].LinkTarget
    BY DEF Unnamed
  <2>4. \A c \in Objects : hdr[c].Directory # Null => hdr'[hdr[c].Directory].Type = "Directory"
    <3> SUFFICES ASSUME NEW c \in Objects, hdr[c].Directory # Null
                 PROVE  hdr'[hdr[c].Directory].Type = "Directory"
      OBVIOUS
    <3>1. hdr[c].Directory \in Objects
      BY <1>1 DEF Headers
    <3>2. hdr[hdr[c].Directory].Type = "Directory"
      BY <1>2 DEF NamesIn, NameIn
    <3> QED
      BY <2>3, <3>1, <3>2
  <2>5. \A c \in Objects :
           hdr[c].Directory # Null => hdr'[c].HandleCount > 0 \/ "PERMANENT" \in hdr'[c].Flags
    <3> SUFFICES ASSUME NEW c \in Objects, hdr[c].Directory # Null
                 PROVE  hdr'[c].HandleCount > 0 \/ "PERMANENT" \in hdr'[c].Flags
      OBVIOUS
    <3>1. CASE c = o
      <4>1. "ATTACHED" \in hdr[c].Flags
        BY DEF IInv, HeadersOK, HeaderOK
      <4>2. ~(hdr'[c].HandleCount = 0) \/ "PERMANENT" \in hdr'[c].Flags
        BY <1>5, <3>1, <4>1 DEF Unnamed
      <4>3. hdr'[c].HandleCount \in Nat
        BY DEF Headers
      <4> QED
        BY <4>2, <4>3
    <3>2. CASE c # o
      <4>1. hdr[c].HandleCount > 0 \/ "PERMANENT" \in hdr[c].Flags
        BY <1>2 DEF NamesIn, NameIn
      <4> QED
        BY <3>2, <4>1
    <3> QED
      BY <3>1, <3>2
  <2>6. NamesIn(hdr')
    BY <1>1, <1>2, <2>2, <2>4, <2>5, NamesKept
  <2>7. DriveIn(hdr', drive)
    BY <1>2, <2>2, <2>3, DriveKept
  <2> QED
    BY <1>1, <1>5, <2>6, <2>7, NamesAre
<1> QED
  BY <1>4, <1>5

(* Each handle and each name that goes leaves its reference to the rest of the call. *)
LEMMA UnnamedStep ==
    ASSUME IInv, NEW t \in Threads, NEW op \in {"close", "temporary"}, At(t, op),
           NEW o, InUse(o), NEW detach, Unnamed(hdr'[o], hdr[o], detach),
           hdr' \in [Objects -> Headers], \A c \in Objects \ {o} : hdr'[c] = hdr[c],
           drive' = IF detach THEN DetachedDrive(o) ELSE drive,
           NEW items, Replaced(t, items), Plain(items),
           \A x \in Objects :
              Gains(items, x) + hdr'[x].HandleCount
                = hdr[x].HandleCount + One(detach /\ hdr[o].Directory = x)
                  + One(detach /\ hdr[o].Directory # Null /\ x = o),
           table' \in [Handles -> Objects \cup {Null}], free' \in Seq(Handles),
           tables' \in 0..MaxTables, HandleTableSound',
           \A h \in Handles : table[h] # Null => table'[h] # Null \/ ~ClosedBy(t, h),
           UNCHANGED <<native, held, leaked>>, fault' \in BOOLEAN
    PROVE  StepOK
<1>1. TypeOK /\ hdr \in [Objects -> Headers]
  BY DEF IInv, TypeOK
<1>2. /\ work[t] # <<>> /\ Head(work[t]).op = op
      /\ \A x : Loses(t, x) = One(op \in {"deref", "handle", "duplicate", "link", "parse"} /\ Arg(t) = x)
  BY HeadIs
<1>3. o \in Objects /\ hdr[o].Type # "free" /\ o # Null
  BY InUseCounted, ObAssumption
<1>4. \A c \in Objects : /\ hdr'[c].Type = hdr[c].Type /\ hdr'[c].LinkTarget = hdr[c].LinkTarget
                         /\ hdr'[c].PointerCount = hdr[c].PointerCount
                         /\ hdr'[c].Registered = hdr[c].Registered
  BY DEF Unnamed
<1>5. NamesSound' /\ DriveMapFresh' /\ drive' \in [DriveNames -> Objects \cup {Null}]
  BY <1>3, NamesUnnamed
<1>6. TypeOK'
  <2>1. work' \in [Threads -> Seq(Items)]
    BY <1>1, Positions
  <2> QED
    BY <1>1, <1>5, <2>1 DEF TypeOK
<1>7. Harmless(items) /\ ShapeOK'
  <2>1. Shaped(t, items) /\ Harmless(items)
    BY PlainFits
  <2> QED
    BY <2>1, ShapeKept DEF Shaped
<1>8. NewOK' /\ FreeOK'
  BY <1>7, HarmlessKept, InUseNotPending
<1>9. CloseOK'
  <2>1. \A i \in 1..Len(items) : items[i].op \notin Closes
    BY DEF Plain, Closes
  <2> QED
    BY <2>1, CloseKept
<1>10. HeadersOK'
  <2>1. \A c \in Objects : HeaderOK(hdr[c])
    BY DEF IInv, HeadersOK
  <2>2. HeaderOK(hdr'[o])
    <3>1. HeaderOK(hdr[o])
      BY <1>3, <2>1
    <3> QED
      BY <1>3, <3>1 DEF HeaderOK, Unnamed
  <2>3. \A c \in Objects : HeaderOK(hdr'[c])
    BY <2>1, <2>2
  <2> QED
    BY <2>3 DEF HeadersOK
<1>11. NativeOK'
  <2>1. \A x \in native' : hdr'[x].Registered \/ (x \in native /\ ~hdr[x].Registered)
    BY <1>1, <1>4 DEF TypeOK
  <2>2. \A x : Head(work[t]) # Item("unregister", x)
    BY <1>2 DEF Item
  <2> QED
    BY <2>1, <2>2, NativeKept
<1>12. ASSUME NEW x \in Objects PROVE Balanced(t, items, o, x)
  <2> DEFINE p == hdr[x].PointerCount
             h == hdr[x].HandleCount
             h1 == hdr'[x].HandleCount
             n == Count(hdr[x].Directory # Null)
             n1 == Count(hdr'[x].Directory # Null)
             d == One(hdr[o].Directory = x)
             d1 == One(hdr'[o].Directory = x)
             l == One(hdr[o].LinkTarget = x)
             a == One(detach /\ hdr[o].Directory = x)
             b == One(detach /\ hdr[o].Directory # Null /\ x = o)
             g == Gains(items, x)
  <2>1. x # Null
    BY ObAssumption
  <2>2. Weight(hdr, o, x) = h + n + d + l
    BY DEF Weight
  <2>3. Weight(hdr', o, x) = h1 + n1 + d1 + l
    BY <1>3, <1>4 DEF Weight
  <2>4. Loses(t, x) = 0
    BY <1>2 DEF One
  <2>5. g + h1 = h + a + b
    OBVIOUS
  <2>6. n = n1 + b
    <3>1. CASE x = o /\ detach
      <4>1. n1 = 0
        BY <3>1 DEF Unnamed, Count
      <4>2. n = b /\ b \in Nat
        BY <3>1 DEF Count, One
      <4> QED
        BY <4>1, <4>2
    <3>2. CASE ~(x = o /\ detach)
      <4>1. hdr'[x].Directory = hdr[x].Directory
        BY <3>2 DEF Unnamed
      <4>2. b = 0 /\ n \in Nat
        BY <3>2 DEF One, Count
      <4> QED
        BY <4>1, <4>2
    <3> QED
      BY <3>1, <3>2
  <2>7. d = d1 + a
    <3>1. CASE detach
      <4>1. d1 = 0
        BY <2>1, <3>1 DEF Unnamed, One
      <4>2. d = a /\ a \in Nat
        BY <3>1 DEF One
      <4> QED
        BY <4>1, <4>2
    <3>2. CASE ~detach
      <4>1. d1 = d
        BY <3>2 DEF Unnamed, One
      <4>2. a = 0 /\ d \in Nat
        BY <3>2 DEF One
      <4> QED
        BY <4>1, <4>2
    <3> QED
      BY <3>1, <3>2
  <2>8. /\ p \in Nat /\ h \in Nat /\ h1 \in Nat
        /\ n1 \in Nat /\ d1 \in Nat /\ l \in Nat /\ a \in Nat /\ b \in Nat
    BY <1>1 DEF Headers, Count, One
  <2>9. g \in Nat
    <3>1. items \in Seq(Items)
      BY DEF Replaced
    <3> QED
      BY <3>1, OccursFinite DEF Gains
  <2>10. hdr'[x].PointerCount = p
    BY <1>4
  <2> HIDE DEF p, h, h1, n, n1, d, d1, l, a, b, g
  <2>11. p + (h + n + d + l) + 0 = p + (h1 + n1 + d1 + l) + g
    BY <2>5, <2>6, <2>7, <2>8, <2>9
  <2> QED
    BY <2>2, <2>3, <2>4, <2>10, <2>11 DEF Balanced, p, g
<1>13. \A x \in Objects : Lives(x)
  BY <1>4 DEF Lives
<1>14. \A c \in Objects \ {o} : hdr'[c].Directory = hdr[c].Directory
  OBVIOUS
<1>15. UNCHANGED <<held, leaked>>
  OBVIOUS
<1> QED
  BY <1>3, <1>4, <1>5, <1>6, <1>7, <1>8, <1>9, <1>10, <1>11, <1>12, <1>13, <1>14, <1>15, ObjectStep

(* The pieces that drop the references of a name. *)
LEMMA DropNameItems ==
    ASSUME hdr \in [Objects -> Headers], NEW o \in Objects, hdr[o].Directory # Null
    PROVE  /\ DropName(o) \in Seq(Items) /\ Plain(DropName(o))
           /\ \A x : Gains(DropName(o), x) = One(hdr[o].Directory = x) + One(x = o)
           /\ DropName(o) \o Deref(o) \in Seq(Items) /\ Plain(DropName(o) \o Deref(o))
           /\ \A x : Gains(DropName(o) \o Deref(o), x) = One(hdr[o].Directory = x) + One(x = o) + One(x = o)
<1> DEFINE d == hdr[o].Directory
           a == Item("deref", d)
           b == Item("deref", o)
           two == <<a>> \o <<b>>
           three == (<<a>> \o <<b>>) \o <<b>>
<1>1. d \in Objects
  BY DEF Headers
<1>2. DropName(o) = two /\ DropName(o) \o Deref(o) = three
  BY DEF DropName, Deref
<1> HIDE DEF d
<1>3. /\ a \in Items /\ a.op = "deref" /\ \A x : Holds(a, x) <=> d = x
      /\ b \in Items /\ b.op = "deref" /\ \A x : Holds(b, x) <=> x = o
  BY <1>1, ItemIs
<1> HIDE DEF a, b
<1>4. IsPair(two, a, b) /\ IsTriple(three, a, b, b)
  BY <1>3, PairIs, TripleIs
<1> HIDE DEF two, three
<1>5. \A x : One(Holds(a, x)) = One(d = x) /\ One(Holds(b, x)) = One(x = o)
  BY <1>3 DEF One
<1>6. two \in Seq(Items) /\ Plain(two) /\ \A x : Gains(two, x) = One(d = x) + One(x = o)
  <2>1. Plain(two)
    BY <1>3, <1>4 DEF IsPair, Plain
  <2> QED
    BY <1>4, <1>5, <2>1 DEF IsPair
<1>7. /\ three \in Seq(Items) /\ Plain(three)
      /\ \A x : Gains(three, x) = One(d = x) + One(x = o) + One(x = o)
  <2>1. Plain(three)
    <3>1. \A i \in 1..3 : i = 1 \/ i = 2 \/ i = 3
      OBVIOUS
    <3> QED
      BY <1>3, <1>4, <3>1 DEF IsTriple, Plain
  <2> QED
    BY <1>4, <1>5, <2>1 DEF IsTriple
<1> QED
  BY <1>2, <1>6, <1>7 DEF d

(* ObMakeTemporaryObject *)
LEMMA TemporaryOK ==
    ASSUME IInv, NEW t \in Threads, ObMakeTemporaryObject(t)
    PROVE  StepOK
<1> DEFINE o == Arg(t)
           flags == hdr[o].Flags \ {"PERMANENT"}
           detach == CanDetach(o, hdr[o].HandleCount, flags)
           named == hdr[o].Directory # Null
           items == IF detach /\ named THEN DropName(o) ELSE <<>>
<1>1. /\ At(t, "temporary") /\ Then(t, items)
      /\ hdr' = [hdr EXCEPT ![o] = [(IF detach THEN Detached(o) ELSE hdr[o]) EXCEPT !.Flags = flags]]
      /\ drive' = IF detach THEN DetachedDrive(o) ELSE drive
      /\ fault' \in BOOLEAN
      /\ UNCHANGED <<table, free, tables, native, held, leaked>>
  BY DEF ObMakeTemporaryObject
<1>2. hdr \in [Objects -> Headers] /\ TypeOK /\ HandleTableSound
  BY DEF IInv, TypeOK
<1>3. work[t] # <<>> /\ Head(work[t]).op = "temporary" /\ Head(work[t]).arg = o
  BY <1>1, HeadIs
<1>4. InUse(o) /\ o \in Objects
  <2>1. InUse(Head(work[t]).arg)
    BY <1>3, HeadInUse
  <2> QED
    BY <1>3, <2>1 DEF InUse
<1> HIDE DEF o
<1>5. detach <=> hdr[o].HandleCount = 0 /\ "ATTACHED" \in flags /\ "PERMANENT" \notin flags
  BY DEF CanDetach
<1>6. /\ hdr'[o] = [(IF detach THEN Detached(o) ELSE hdr[o]) EXCEPT !.Flags = flags]
      /\ \A c \in Objects \ {o} : hdr'[c] = hdr[c]
      /\ hdr' = [x \in Objects |-> hdr'[x]]
  BY <1>1, <1>2, <1>4
<1>7. Unnamed(hdr'[o], hdr[o], detach) /\ hdr'[o].HandleCount = hdr[o].HandleCount
  <2> DEFINE new == hdr'[o]
             old == hdr[o]
  <2>1. /\ old \in Headers
        /\ detach => new = [[old EXCEPT !.Directory = Null, !.Name = Null] EXCEPT !.Flags = flags]
        /\ ~detach => new = [old EXCEPT !.Flags = flags]
        /\ detach <=> old.HandleCount = 0 /\ "ATTACHED" \in flags /\ "PERMANENT" \notin flags
        /\ flags = old.Flags \ {"PERMANENT"}
    BY <1>2, <1>4, <1>5, <1>6 DEF Detached
  <2> HIDE DEF new, old, detach, flags
  <2>2. flags \in SUBSET {"PERMANENT", "ATTACHED"} /\ ("ATTACHED" \in old.Flags => "ATTACHED" \in flags)
    BY <2>1 DEF Headers
  <2>3. /\ new \in Headers /\ new.Flags = flags /\ new.HandleCount = old.HandleCount
        /\ new.Type = old.Type /\ new.PointerCount = old.PointerCount
        /\ new.LinkTarget = old.LinkTarget /\ new.Registered = old.Registered
        /\ detach => new.Directory = Null
        /\ ~detach => new.Directory = old.Directory /\ new.Name = old.Name
    <3>1. CASE detach
      BY <2>1, <2>2, <3>1 DEF Headers
    <3>2. CASE ~detach
      BY <2>1, <2>2, <3>2 DEF Headers
    <3> QED
      BY <3>1, <3>2
  <2>4. Unnamed(new, old, detach) /\ new.HandleCount = old.HandleCount
    BY <2>1, <2>2, <2>3 DEF Unnamed
  <2> QED
    BY <2>4 DEF new, old
<1>8. hdr' \in [Objects -> Headers]
  <2>1. \A c \in Objects : hdr'[c] \in Headers
    BY <1>2, <1>6, <1>7 DEF Unnamed
  <2> QED
    BY <1>6, <2>1
<1>9. \A c \in Objects : hdr'[c].HandleCount = hdr[c].HandleCount
  BY <1>6, <1>7
<1>10. /\ table' \in [Handles -> Objects \cup {Null}] /\ free' \in Seq(Handles)
       /\ tables' \in 0..MaxTables /\ HandleTableSound'
  <2>1. HandleTableSound'
    BY <1>1, <1>9, TableStays
  <2> QED
    BY <1>1, <1>2, <2>1 DEF TypeOK
<1>11. /\ items \in Seq(Items) /\ Plain(items)
       /\ \A x \in Objects : Gains(items, x) = One(detach /\ hdr[o].Directory = x)
                                               + One(detach /\ hdr[o].Directory # Null /\ x = o)
  <2>1. CASE detach /\ named
    <3>1. items = DropName(o)
      BY <2>1
    <3>2. /\ DropName(o) \in Seq(Items) /\ Plain(DropName(o))
          /\ \A x : Gains(DropName(o), x) = One(hdr[o].Directory = x) + One(x = o)
      BY <1>2, <1>4, <2>1, DropNameItems
    <3> HIDE DEF items
    <3>3. \A x : /\ One(detach /\ hdr[o].Directory = x) = One(hdr[o].Directory = x)
                 /\ One(detach /\ hdr[o].Directory # Null /\ x = o) = One(x = o)
      BY <2>1 DEF One
    <3> QED
      BY <3>1, <3>2, <3>3
  <2>2. CASE ~(detach /\ named)
    <3>1. items = <<>>
      BY <2>2
    <3>2. \A x \in Objects : x # Null
      BY ObAssumption
    <3>3. \A x \in Objects : /\ One(detach /\ hdr[o].Directory = x) = 0
                             /\ One(detach /\ hdr[o].Directory # Null /\ x = o) = 0
      BY <2>2, <3>2 DEF One
    <3>4. <<>> \in Seq(Items) /\ Plain(<<>>) /\ \A x : Gains(<<>>, x) = 0
      BY GainsNone DEF Plain
    <3> HIDE DEF items, detach, named
    <3> QED
      BY <3>1, <3>3, <3>4
  <2> QED
    BY <2>1, <2>2
<1> HIDE DEF items, detach
<1>12. Replaced(t, items)
  BY <1>1, <1>2, <1>3, <1>11, ThenReplaces
<1>13. \A x \in Objects :
          Gains(items, x) + hdr'[x].HandleCount
            = hdr[x].HandleCount + One(detach /\ hdr[o].Directory = x)
              + One(detach /\ hdr[o].Directory # Null /\ x = o)
  <2> TAKE x \in Objects
  <2> DEFINE h == hdr[x].HandleCount
             a == One(detach /\ hdr[o].Directory = x)
             b == One(detach /\ hdr[o].Directory # Null /\ x = o)
  <2>1. Gains(items, x) = a + b /\ hdr'[x].HandleCount = h
    BY <1>9, <1>11
  <2>2. h \in Nat /\ a \in Nat /\ b \in Nat
    BY <1>2 DEF Headers, One
  <2> HIDE DEF h, a, b
  <2>3. Gains(items, x) + hdr'[x].HandleCount = h + a + b
    BY <2>1, <2>2
  <2> QED
    BY <2>3 DEF h, a, b
<1>14. \A h \in Handles : table[h] # Null => table'[h] # Null \/ ~ClosedBy(t, h)
  BY <1>1
<1>15. /\ At(t, "temporary") /\ drive' = (IF detach THEN DetachedDrive(o) ELSE drive)
       /\ UNCHANGED <<native, held, leaked>> /\ fault' \in BOOLEAN
       /\ \A c \in Objects \ {o} : hdr'[c] = hdr[c]
       /\ Plain(items)
  BY <1>1, <1>6, <1>11
<1> QED
  BY <1>4, <1>7, <1>8, <1>10, <1>12, <1>13, <1>14, <1>15, UnnamedStep

(* ObpClose *)
LEMMA ObpCloseOK ==
    ASSUME IInv, NEW t \in Threads, ObpClose(t)
    PROVE  StepOK
<1> DEFINE h == Arg(t)
           o == table[h]
           handles == hdr[o].HandleCount - 1
           detach == CanDetach(o, handles, hdr[o].Flags)
           named == hdr[o].Directory # Null
           items == (IF detach /\ named THEN DropName(o) ELSE <<>>) \o Deref(o)
<1>1. /\ At(t, "close") /\ ObpDestroyObjectHandle(h) /\ Then(t, items)
      /\ hdr' = [hdr EXCEPT ![o] = [(IF detach THEN Detached(o) ELSE hdr[o])
                                        EXCEPT !.HandleCount = handles]]
      /\ drive' = IF detach THEN DetachedDrive(o) ELSE drive
      /\ fault' \in BOOLEAN
      /\ UNCHANGED <<native, held, leaked>>
  BY DEF ObpClose
<1>2. hdr \in [Objects -> Headers] /\ TypeOK
  BY DEF IInv, TypeOK
<1>3. /\ work[t] # <<>> /\ Head(work[t]) \in Items
      /\ Head(work[t]).op = "close" /\ Head(work[t]).arg = h
      /\ 1 \in DOMAIN work[t] /\ work[t][1] = Head(work[t])
  BY <1>1, HeadIs
<1>4. h \in Handles
  BY <1>3, ItemArgs DEF Closes
<1>5. Open(h)
  BY <1>3 DEF IInv, CloseOK, Closes, Open
<1>6. ~ClosedBy(t, h)
  <2> SUFFICES ASSUME NEW u \in Threads, NEW i \in DOMAIN work[u], Stays(t, u, i),
                      work[u][i].op \in Closes, work[u][i].arg = h
               PROVE  FALSE
    BY DEF ClosedBy
  <2>1. Once(Closes)
    BY DEF IInv, CloseOK
  <2>2. u = t /\ i = 1
    BY <1>3, <2>1 DEF Once, Closes
  <2> QED
    BY <2>2 DEF Stays
<1> HIDE DEF h
<1>7. InUse(o) /\ o \in Objects
  BY <1>4, <1>5, OpenInUse
<1>8. hdr[o].HandleCount \in Nat /\ hdr[o].HandleCount > 0
  <2>1. hdr[o].HandleCount = FromHandles(o)
    BY <1>7, TableParts DEF IInv
  <2>2. HandlesOf(o) # {}
    BY <1>4 DEF HandlesOf
  <2>3. IsFiniteSet(HandlesOf(o))
    BY Finite, FS_Subset DEF HandlesOf
  <2>4. hdr[o].HandleCount \in Nat
    BY <1>2, <1>7 DEF Headers
  <2>5. FromHandles(o) # 0
    BY <2>2, <2>3, FS_EmptySet DEF FromHandles
  <2> QED
    BY <2>1, <2>4, <2>5
<1>9. table[h] = o
  OBVIOUS
<1> HIDE DEF o
<1>10. /\ handles \in Nat /\ handles + 1 = hdr[o].HandleCount
       /\ detach <=> handles = 0 /\ "ATTACHED" \in hdr[o].Flags /\ "PERMANENT" \notin hdr[o].Flags
  BY <1>8 DEF CanDetach
<1>11. /\ hdr'[o] = [(IF detach THEN Detached(o) ELSE hdr[o]) EXCEPT !.HandleCount = handles]
       /\ \A c \in Objects \ {o} : hdr'[c] = hdr[c]
       /\ hdr' = [x \in Objects |-> hdr'[x]]
  BY <1>1, <1>2, <1>7
<1> HIDE DEF handles
<1>12. Unnamed(hdr'[o], hdr[o], detach) /\ hdr'[o].HandleCount = handles
  <2> DEFINE new == hdr'[o]
             old == hdr[o]
  <2>1. /\ old \in Headers
        /\ detach => new = [[old EXCEPT !.Directory = Null, !.Name = Null] EXCEPT !.HandleCount = handles]
        /\ ~detach => new = [old EXCEPT !.HandleCount = handles]
        /\ detach <=> handles = 0 /\ "ATTACHED" \in old.Flags /\ "PERMANENT" \notin old.Flags
        /\ handles \in Nat
    BY <1>2, <1>7, <1>10, <1>11 DEF Detached
  <2> HIDE DEF new, old, detach
  <2>2. /\ new \in Headers /\ new.Flags = old.Flags /\ new.HandleCount = handles
        /\ new.Type = old.Type /\ new.PointerCount = old.PointerCount
        /\ new.LinkTarget = old.LinkTarget /\ new.Registered = old.Registered
        /\ detach => new.Directory = Null
        /\ ~detach => new.Directory = old.Directory /\ new.Name = old.Name
    <3>1. CASE detach
      BY <2>1, <3>1 DEF Headers
    <3>2. CASE ~detach
      BY <2>1, <3>2 DEF Headers
    <3> QED
      BY <3>1, <3>2
  <2>3. Unnamed(new, old, detach) /\ new.HandleCount = handles
    BY <2>1, <2>2 DEF Unnamed
  <2> QED
    BY <2>3 DEF new, old
<1>13. hdr' \in [Objects -> Headers]
  <2>1. \A c \in Objects : hdr'[c] \in Headers
    BY <1>2, <1>11, <1>12 DEF Unnamed
  <2> QED
    BY <1>11, <2>1
<1>14. \A c \in Objects : hdr'[c].HandleCount + One(c = o) = hdr[c].HandleCount
  <2> TAKE c \in Objects
  <2>1. CASE c = o
    BY <1>10, <1>12, <2>1 DEF One
  <2>2. CASE c # o
    <3>1. hdr'[c] = hdr[c] /\ hdr[c].HandleCount \in Nat
      BY <1>2, <1>11, <2>2 DEF Headers
    <3>2. hdr[c].HandleCount + One(c = o) = hdr[c].HandleCount
      BY <2>2, <3>1 DEF One
    <3> QED
      BY <3>1, <3>2
  <2> QED
    BY <2>1, <2>2
<1>15. /\ table' \in [Handles -> Objects \cup {Null}] /\ free' \in Seq(Handles)
       /\ tables' \in 0..MaxTables /\ HandleTableSound'
       /\ \A g \in Handles \ {h} : table'[g] = table[g]
  BY <1>1, <1>4, <1>7, <1>9, <1>13, <1>14, HandleGone
<1>16. \A g \in Handles : table[g] # Null => table'[g] # Null \/ ~ClosedBy(t, g)
  BY <1>6, <1>15
<1>17. /\ items \in Seq(Items) /\ Plain(items)
       /\ \A x \in Objects : Gains(items, x) = One(detach /\ hdr[o].Directory = x)
                                               + One(detach /\ hdr[o].Directory # Null /\ x = o)
                                               + One(x = o)
  <2>1. CASE detach /\ named
    <3>1. items = DropName(o) \o Deref(o)
      BY <2>1
    <3>2. /\ DropName(o) \o Deref(o) \in Seq(Items) /\ Plain(DropName(o) \o Deref(o))
          /\ \A x : Gains(DropName(o) \o Deref(o), x) = One(hdr[o].Directory = x) + One(x = o) + One(x = o)
      BY <1>2, <1>7, <2>1, DropNameItems
    <3> HIDE DEF items
    <3>3. \A x : /\ One(detach /\ hdr[o].Directory = x) = One(hdr[o].Directory = x)
                 /\ One(detach /\ hdr[o].Directory # Null /\ x = o) = One(x = o)
      BY <2>1 DEF One
    <3> QED
      BY <3>1, <3>2, <3>3
  <2>2. CASE ~(detach /\ named)
    <3>1. items = Deref(o)
      <4>1. Deref(o) \in Seq(Items)
        BY <1>7, GainsDeref
      <4>2. <<>> \o Deref(o) = Deref(o)
        BY <4>1, ConcatEmptySeq
      <4> QED
        BY <2>2, <4>2
    <3>2. \A x \in Objects : x # Null
      BY ObAssumption
    <3>3. \A x \in Objects : /\ One(detach /\ hdr[o].Directory = x) = 0
                             /\ One(detach /\ hdr[o].Directory # Null /\ x = o) = 0
                             /\ One(x = o) \in Nat
      BY <2>2, <3>2 DEF One
    <3>4. /\ Deref(o) \in Seq(Items) /\ Plain(Deref(o))
          /\ \A x : Gains(Deref(o), x) = One(x = o)
      <4>1. Item("deref", o).op = "deref"
        BY <1>7, ItemIs
      <4> QED
        BY <1>7, <4>1, GainsDeref DEF Plain
    <3> HIDE DEF items, detach, named
    <3> QED
      BY <3>1, <3>3, <3>4
  <2> QED
    BY <2>1, <2>2
<1> HIDE DEF items, detach
<1>18. Replaced(t, items)
  BY <1>1, <1>2, <1>3, <1>17, ThenReplaces
<1>19. \A x \in Objects :
          Gains(items, x) + hdr'[x].HandleCount
            = hdr[x].HandleCount + One(detach /\ hdr[o].Directory = x)
              + One(detach /\ hdr[o].Directory # Null /\ x = o)
  <2> TAKE x \in Objects
  <2> DEFINE k == hdr[x].HandleCount
             k1 == hdr'[x].HandleCount
             a == One(detach /\ hdr[o].Directory = x)
             b == One(detach /\ hdr[o].Directory # Null /\ x = o)
             c == One(x = o)
  <2>1. Gains(items, x) = a + b + c /\ k1 + c = k
    BY <1>14, <1>17
  <2>2. k \in Nat /\ k1 \in Nat /\ a \in Nat /\ b \in Nat /\ c \in Nat
    BY <1>2, <1>13 DEF Headers, One
  <2> HIDE DEF k, k1, a, b, c
  <2>3. Gains(items, x) + k1 = k + a + b
    BY <2>1, <2>2
  <2> QED
    BY <2>3 DEF k, k1, a, b
<1>20. /\ At(t, "close") /\ drive' = (IF detach THEN DetachedDrive(o) ELSE drive)
       /\ UNCHANGED <<native, held, leaked>> /\ fault' \in BOOLEAN
       /\ \A c \in Objects \ {o} : hdr'[c] = hdr[c]
       /\ Plain(items)
       /\ table' \in [Handles -> Objects \cup {Null}] /\ free' \in Seq(Handles)
       /\ tables' \in 0..MaxTables /\ HandleTableSound'
  BY <1>1, <1>11, <1>15, <1>17
<1> QED
  BY <1>7, <1>12, <1>13, <1>16, <1>18, <1>19, <1>20, UnnamedStep

-----------------------------------------------------------------------------
(* The invariant *)

(* The headers the system starts with. *)
LEMMA InitHeaders ==
    ASSUME Init
    PROVE  /\ hdr \in [Objects -> Headers]
           /\ \A o \in Objects :
                 /\ hdr[o].PointerCount = Count(o \in {Dos, Dev})
                 /\ hdr[o].HandleCount = 0
                 /\ hdr[o].Directory = Null /\ hdr[o].LinkTarget = Null
                 /\ hdr[o].Type # "SymbolicLink"
                 /\ hdr[o].Type = "free" => hdr[o] = Unused
                 /\ hdr[o].Type = "free" <=> o \notin {Dos, Dev}
<1> DEFINE dos == [Unused EXCEPT !.Type = "Directory", !.PointerCount = 1, !.Flags = {"PERMANENT"}]
           dev == [Unused EXCEPT !.Type = "Device", !.PointerCount = 1, !.Flags = {"PERMANENT"}]
<1>1. /\ hdr = [o \in Objects |-> CASE o = Dos -> dos [] o = Dev -> dev [] OTHER -> Unused]
      /\ Dos # Dev
  BY ObAssumption DEF Init
<1>2. /\ dos \in Headers /\ dos.PointerCount = 1 /\ dos.HandleCount = 0 /\ dos.Directory = Null
      /\ dos.LinkTarget = Null /\ dos.Type = "Directory"
  BY DEF Unused, Headers
<1>3. /\ dev \in Headers /\ dev.PointerCount = 1 /\ dev.HandleCount = 0 /\ dev.Directory = Null
      /\ dev.LinkTarget = Null /\ dev.Type = "Device"
  BY DEF Unused, Headers
<1>4. /\ Unused \in Headers /\ Unused.PointerCount = 0 /\ Unused.HandleCount = 0
      /\ Unused.Directory = Null /\ Unused.LinkTarget = Null /\ Unused.Type = "free"
  BY DEF Unused, Headers
<1> HIDE DEF dos, dev
<1>5. \A o \in Objects : /\ o = Dos => hdr[o] = dos
                         /\ o = Dev => hdr[o] = dev
                         /\ o \notin {Dos, Dev} => hdr[o] = Unused
  BY <1>1
<1>6. hdr \in [Objects -> Headers]
  <2>1. \A o \in Objects : hdr[o] \in Headers
    BY <1>2, <1>3, <1>4, <1>5
  <2>2. hdr = [o \in Objects |-> hdr[o]]
    BY <1>1
  <2> QED
    BY <2>1, <2>2
<1>7. ASSUME NEW o \in Objects
      PROVE  /\ hdr[o].PointerCount = Count(o \in {Dos, Dev})
             /\ hdr[o].HandleCount = 0
             /\ hdr[o].Directory = Null /\ hdr[o].LinkTarget = Null
             /\ hdr[o].Type # "SymbolicLink"
             /\ hdr[o].Type = "free" => hdr[o] = Unused
             /\ hdr[o].Type = "free" <=> o \notin {Dos, Dev}
  <2>1. CASE o = Dos
    BY <1>2, <1>5, <2>1 DEF Count
  <2>2. CASE o = Dev
    BY <1>3, <1>5, <2>2 DEF Count
  <2>3. CASE o \notin {Dos, Dev}
    BY <1>4, <1>5, <2>3 DEF Count
  <2> QED
    BY <2>1, <2>2, <2>3
<1> QED
  BY <1>6, <1>7

(* At first nothing refers to an object but the system. *)
LEMMA InitRefs ==
    ASSUME Init, TypeOK, NEW o \in Objects
    PROVE  Refs(o) = Count(o \in {Dos, Dev}) /\ FromHandles(o) = 0
<1>1. o # Null
  BY ObAssumption
<1>2. \A c \in Objects : hdr[c].Directory = Null /\ hdr[c].LinkTarget = Null
  BY InitHeaders
<1>3. HandlesOf(o) = {}
  BY <1>1 DEF HandlesOf, Init
<1>4. EntriesOf(o) = {} /\ LinksTo(o) = {} /\ FromName(o) = 0
  BY <1>1, <1>2 DEF EntriesOf, LinksTo, FromName, Count
<1>5. WorkRefs(o) = {}
  <2>1. \A t \in Threads : {i \in DOMAIN work[t] : Holds(work[t][i], o)} = {}
    BY DEF Init
  <2> QED
    BY <2>1 DEF WorkRefs
<1>6. HeldRefs(o) = {}
  <2>1. \A t \in Threads : {i \in DOMAIN held[t] : held[t][i] = o} = {}
    BY DEF Init
  <2> QED
    BY <2>1 DEF HeldRefs
<1>7. Cardinality({}) = 0
  BY FS_EmptySet
<1>8. PartsOf(o)
  BY PartsNow
<1>9. /\ FromHandles(o) = 0 /\ FromEntries(o) = 0 /\ FromLinks(o) = 0
      /\ FromCalls(o) = 0 /\ FromThreads(o) = 0
  BY <1>3, <1>4, <1>5, <1>6, <1>7 DEF FromHandles, FromEntries, FromLinks, FromCalls, FromThreads
<1>10. Refs(o) = FromSystem(o)
  BY <1>4, <1>8, <1>9 DEF PartsOf
<1> QED
  BY <1>9, <1>10 DEF FromSystem

(* The invariant holds at first. *)
LEMMA InitOK == Init => IInv
<1> SUFFICES ASSUME Init PROVE IInv
  OBVIOUS
<1>1. hdr \in [Objects -> Headers]
  BY InitHeaders
<1>2. TypeOK
  <2>1. tables = 0 /\ 0 \in 0..MaxTables
    BY ObAssumption DEF Init
  <2>2. /\ table = [h \in Handles |-> Null] /\ free = <<>> /\ drive = [n \in DriveNames |-> Null]
        /\ native = {} /\ leaked = [o \in Objects |-> 0] /\ fault = FALSE
    BY DEF Init
  <2>3. work \in [Threads -> Seq(Items)] /\ held \in [Threads -> Seq(Objects)]
    <3>1. work = [t \in Threads |-> <<>>] /\ held = [t \in Threads |-> <<>>]
      BY DEF Init
    <3> QED
      BY <3>1
  <2>4. free \in Seq(Handles)
    BY <2>2
  <2>5. /\ table \in [Handles -> Objects \cup {Null}] /\ drive \in [DriveNames -> Objects \cup {Null}]
        /\ native \in SUBSET Objects /\ leaked \in [Objects -> Nat] /\ fault \in BOOLEAN
    BY <2>2
  <2> QED
    BY <1>1, <2>1, <2>3, <2>4, <2>5 DEF TypeOK
<1>3. \A t \in Threads : work[t] = <<>> /\ DOMAIN work[t] = {}
  BY DEF Init
<1>4. ShapeOK /\ NewOK /\ CloseOK /\ FreeOK
  BY <1>3 DEF ShapeOK, NewOK, CloseOK, FreeOK, Once
<1>5. HeadersOK
  BY InitHeaders DEF HeadersOK, HeaderOK
<1>6. NativeOK
  BY DEF NativeOK, Init
<1>7. RefCountExact
  <2> SUFFICES ASSUME NEW o \in Objects PROVE hdr[o].PointerCount = Refs(o) + leaked[o]
    BY DEF RefCountExact
  <2>1. hdr[o].PointerCount = Count(o \in {Dos, Dev}) /\ Refs(o) = Count(o \in {Dos, Dev})
    BY <1>2, InitHeaders, InitRefs
  <2>2. leaked[o] = 0 /\ Count(o \in {Dos, Dev}) \in Nat
    BY DEF Init, Count
  <2> QED
    BY <2>1, <2>2
<1>8. HandleTableSound
  <2>1. Used = {}
    BY DEF Used, Init
  <2>2. Range(free) = {} /\ IsInjective(free)
    <3>1. DOMAIN free = {}
      BY DEF Init
    <3> QED
      BY <3>1 DEF Range, IsInjective
  <2>3. {h \in Handles : h < tables * HandlesPerTable} = {}
    <3>1. tables * HandlesPerTable = 0
      BY ObAssumption DEF Init
    <3> QED
      BY <3>1 DEF Handles
  <2>4. ChainOK
    BY <2>1, <2>2, <2>3 DEF ChainOK
  <2>5. \A o \in Objects : hdr[o].HandleCount = FromHandles(o)
    BY <1>2, InitHeaders, InitRefs
  <2> QED
    BY <2>4, <2>5, TableParts
<1>9. NamesSound /\ DriveMapFresh
  <2>1. \A o \in Objects : hdr[o].Directory = Null
    BY InitHeaders
  <2>2. NamesIn(hdr)
    BY <2>1 DEF NamesIn, NameIn
  <2>3. Dos # Null
    BY ObAssumption DEF Objects
  <2>4. \A n \in DriveNames : LetterIn(hdr, n) = Null
    <3>1. \A n \in DriveNames : EntriesIn(hdr, Dos, n) = {}
      BY <2>1, <2>3 DEF EntriesIn
    <3> QED
      BY <3>1 DEF LetterIn
  <2>5. DriveIn(hdr, drive)
    BY <2>4 DEF DriveIn, Init
  <2> QED
    BY <2>2, <2>5, NamesAre
<1> QED
  BY <1>2, <1>4, <1>5, <1>6, <1>7, <1>8, <1>9 DEF IInv

(* A step that changes nothing. *)
LEMMA StutterOK ==
    ASSUME IInv, UNCHANGED vars
    PROVE  StepOK
<1>1. /\ hdr' = hdr /\ table' = table /\ free' = free /\ tables' = tables /\ drive' = drive
      /\ native' = native /\ work' = work /\ held' = held /\ leaked' = leaked /\ fault' = fault
  BY DEF vars
<1>2. TypeOK' /\ ShapeOK' /\ NewOK'
  BY <1>1 DEF IInv, TypeOK, ShapeOK, NewOK
<1>3. CloseOK' /\ FreeOK'
  BY <1>1 DEF IInv, CloseOK, FreeOK, Once
<1>4. HeadersOK' /\ NativeOK'
  BY <1>1 DEF IInv, HeadersOK, NativeOK
<1>5. HandleTableSound'
  BY <1>1, TableStays
<1>6. NamesSound' /\ DriveMapFresh'
  BY <1>1, NamesAre DEF IInv
<1>7. ASSUME NEW o \in Objects PROVE Refs(o)' = Refs(o)
  <2>1. WorkRefs(o)' = WorkRefs(o)
    BY <1>1 DEF WorkRefs
  <2>2. /\ FromHandles(o)' = FromHandles(o) /\ FromThreads(o)' = FromThreads(o)
        /\ FromSystem(o)' = FromSystem(o) /\ FromEntries(o)' = FromEntries(o)
        /\ FromName(o)' = FromName(o) /\ FromLinks(o)' = FromLinks(o)
    BY <1>1, OthersSame, NamesSame, LinksSame
  <2>3. FromCalls(o)' = FromCalls(o)
    BY <2>1 DEF FromCalls
  <2>4. PartsOf(o) /\ PartsOf(o)'
    BY <1>2, PartsNow, PartsNext DEF IInv
  <2> QED
    BY <2>2, <2>3, <2>4 DEF PartsOf
<1>8. RefCountExact'
  BY <1>1, <1>7 DEF IInv, RefCountExact
<1>9. \A x \in Objects : Evolves(x)
  BY <1>1, <1>7 DEF Evolves
<1> QED
  BY <1>2, <1>3, <1>4, <1>5, <1>6, <1>8, <1>9 DEF StepOK, IInv

(* Every step keeps the invariant, and treats objects as ObLifetime wants. *)
LEMMA NextOK ==
    ASSUME IInv, HostHandle, [Next]_vars
    PROVE  StepOK
<1>1. ASSUME NEW t \in Threads, Step(t) PROVE StepOK
  <2>1. CASE ObfDereferenceObject(t)
    BY <2>1, DereferenceOK
  <2>2. CASE FreeObject(t)
    BY <2>2, FreeObjectOK
  <2>3. CASE RemoveXboxObject(t)
    BY <2>3, RemoveOK
  <2>4. CASE RegisterXboxObject(t)
    BY <2>4, RegisterOK
  <2>5. CASE ObReferenceObjectByPointer(t)
    BY <2>5, ByPointerOK
  <2>6. CASE ObpGetHandleByObject(t)
    BY <2>6, GetHandleOK
  <2>7. CASE ObpClose(t)
    BY <2>7, ObpCloseOK
  <2>8. CASE ObMakeTemporaryObject(t)
    BY <2>8, TemporaryOK
  <2>9. CASE ObInsertObject(t)
    BY <2>9, InsertOK
  <2>10. CASE CreateLink(t)
    BY <2>10, CreateLinkOK
  <2>11. CASE IopParseDevice(t)
    BY <2>11, ParseOK
  <2>12. CASE CloseSource(t)
    BY <2>12, CloseSourceOK
  <2>13. CASE OpenHostFile(t)
    BY <2>13, OpenHostFileOK
  <2> QED
    BY <1>1, <2>1, <2>2, <2>3, <2>4, <2>5, <2>6, <2>7, <2>8, <2>9, <2>10, <2>11, <2>12, <2>13 DEF Step
<1>2. ASSUME NEW t \in Threads, NewCall(t) PROVE StepOK
  <2>1. CASE NtCreateDirectoryObject(t)
    BY <2>1, DirectoryCallOK
  <2>2. CASE NtCreateSymbolicLinkObject(t)
    BY <2>2, LinkCallOK
  <2>3. CASE ObOpenObjectByName(t)
    BY <2>3, OpenByNameOK
  <2>4. CASE NtOpenFile(t)
    BY <2>4, OpenFileOK
  <2>5. CASE NtClose(t)
    BY <2>5, CloseCallOK
  <2>6. CASE NtDuplicateObject(t)
    BY <2>6, DuplicateCallOK
  <2>7. CASE NtMakeTemporaryObject(t)
    BY <2>7, TemporaryCallOK
  <2>8. CASE ObReferenceObjectByHandle(t)
    BY <2>8, ByHandleOK
  <2>9. CASE DropPointer(t)
    BY <2>9, DropPointerOK
  <2> QED
    BY <1>2, <2>1, <2>2, <2>3, <2>4, <2>5, <2>6, <2>7, <2>8, <2>9 DEF NewCall
<1>3. CASE UNCHANGED vars
  BY <1>3, StutterOK
<1> QED
  BY <1>1, <1>2, <1>3 DEF Next

(* The invariant is one. *)
LEMMA Invariance == HostHandle => (Spec => []IInv)
<1> SUFFICES ASSUME HostHandle PROVE Spec => []IInv
  OBVIOUS
<1>1. Init => IInv
  BY InitOK
<1>2. IInv /\ [Next]_vars => IInv'
  BY NextOK DEF StepOK
<1> QED
  BY <1>1, <1>2, PTL DEF Spec

(* Every variable of the object manager keeps its type: as long as files are opened below  *)
(* devices that have a host handle, no reference or handle count is taken below zero.       *)
THEOREM ObTypes == HostHandle => (Spec => []TypeOK)
<1> SUFFICES ASSUME HostHandle PROVE Spec => []TypeOK
  OBVIOUS
<1>1. IInv => TypeOK
  BY DEF IInv
<1> QED
  BY <1>1, Invariance, PTL

(* ObfDereferenceObject, the handle table, directories, links and the calls of all threads  *)
(* together keep every reference count exact, when every device has its host handle: only   *)
(* NtDuplicateObject and files the host does not open leak references, and each one counts. *)
THEOREM ReferencesExact == HostHandle => (Spec => []RefCountExact)
<1> SUFFICES ASSUME HostHandle PROVE Spec => []RefCountExact
  OBVIOUS
<1>1. IInv => RefCountExact
  BY DEF IInv
<1> QED
  BY <1>1, Invariance, PTL

(* The free chain and the used entries of the handle table never overlap or lose an entry,  *)
(* and HandleCount is the number of entries of an object.                                   *)
THEOREM HandlesSound == HostHandle => (Spec => []HandleTableSound)
<1> SUFFICES ASSUME HostHandle PROVE Spec => []HandleTableSound
  OBVIOUS
<1>1. IInv => HandleTableSound
  BY DEF IInv
<1> QED
  BY <1>1, Invariance, PTL

(* Directories: a name leads to one object, entries hold their directory alive, and an      *)
(* entry is kept only for an open or permanent object.                                      *)
THEOREM NamesAreSound == HostHandle => (Spec => []NamesSound)
<1> SUFFICES ASSUME HostHandle PROVE Spec => []NamesSound
  OBVIOUS
<1>1. IInv => NamesSound
  BY DEF IInv
<1> QED
  BY <1>1, Invariance, PTL

(* ObpDosDevicesDriveLetterMap is always what a search of the directory would give. *)
THEOREM DriveLettersFresh == HostHandle => (Spec => []DriveMapFresh)
<1> SUFFICES ASSUME HostHandle PROVE Spec => []DriveMapFresh
  OBVIOUS
<1>1. IInv => DriveMapFresh
  BY DEF IInv
<1> QED
  BY <1>1, Invariance, PTL

(* RegisterXboxObject finds its address taken only while another thread has still to remove *)
(* the host handle of the object that was there before.                                     *)
THEOREM RetriesEnd == HostHandle => (Spec => []RetryEnds)
<1> SUFFICES ASSUME HostHandle PROVE Spec => []RetryEnds
  OBVIOUS
<1>1. IInv => RetryEnds
  <2> SUFFICES ASSUME IInv, NEW t \in Threads, At(t, "register"), Arg(t) \in native
               PROVE  \E u \in Threads \ {t} : Item("unregister", Arg(t)) \in Range(work[u])
    BY DEF RetryEnds
  <2> DEFINE o == Arg(t)
             it == Item("unregister", o)
  <2>1. /\ Head(work[t]).op = "register" /\ Head(work[t]).arg = o
        /\ 1 \in DOMAIN work[t] /\ work[t][1] = Head(work[t]) /\ ShapeAt(work[t], 1)
    BY HeadIs
  <2>2. ~hdr[o].Registered
    BY <2>1 DEF IInv, NewOK, IsNew
  <2>3. PICK u \in Threads : it \in Range(work[u])
    BY <2>2 DEF IInv, NativeOK
  <2>4. it \notin Range(work[t])
    <3>1. /\ Len(work[t]) = 3 /\ work[t][1].op = "register"
          /\ work[t][2].op = "deref" /\ work[t][3].op = "handle"
      BY <2>1 DEF ShapeAt, Item
    <3>2. DOMAIN work[t] = 1..3
      BY <3>1 DEF IInv, TypeOK
    <3>3. \A i \in DOMAIN work[t] : work[t][i].op # "unregister"
      BY <3>1, <3>2
    <3>4. it.op = "unregister"
      BY DEF Item
    <3> HIDE DEF it
    <3> QED
      BY <3>3, <3>4 DEF Range
  <2> QED
    BY <2>3, <2>4
<1> QED
  BY <1>1, Invariance, PTL

(* The object manager implements ObLifetime: an object is usable as long as anything refers *)
(* to it, is destroyed once, when nothing does, and nobody gets hold of it after that, as   *)
(* long as every device has its host handle.                                                *)
THEOREM LifetimeImplemented == HostHandle => (Spec => ImplementsLifetime)
<1> SUFFICES ASSUME HostHandle PROVE Spec => ImplementsLifetime
  OBVIOUS
<1> DEFINE users == [o \in Objects |-> Refs(o)]
<1>1. Init => Lifetime!Init
  <2> SUFFICES ASSUME Init PROVE Lifetime!Init
    OBVIOUS
  <2>1. TypeOK
    BY InitOK DEF IInv
  <2>2. \A o \in Objects : Refs(o) = Count(o \in {Dos, Dev}) /\ (o \in Live <=> o \in {Dos, Dev})
    BY <2>1, InitRefs, InitHeaders DEF Live
  <2>3. \A o \in Objects : Refs(o) = IF o \in Live THEN 1 ELSE 0
    BY <2>2 DEF Count
  <2>4. Live \in SUBSET Objects
    BY DEF Live
  <2>5. [o \in Objects |-> Refs(o)] = [o \in Objects |-> IF o \in Live THEN 1 ELSE 0]
    BY <2>3
  <2> QED
    BY <2>4, <2>5 DEF Lifetime!Init
<1>2. IInv /\ [Next]_vars => [Lifetime!Next]_<<Live, users>>
  <2> SUFFICES ASSUME IInv, [Next]_vars PROVE Lifetime!Next
    OBVIOUS
  <2>1. IInv' /\ \A x \in Objects : Evolves(x)
    BY NextOK DEF StepOK
  <2>2. Live' \in SUBSET Objects /\ DOMAIN users' = Objects
    BY DEF Live
  <2>3. ASSUME NEW o \in Objects
        PROVE  Lifetime!Create(o) \/ Lifetime!Use(o) \/ Lifetime!Destroy(o) \/ Lifetime!Rest(o)
    <3>1. /\ o \in Live <=> hdr[o].Type # "free"
          /\ o \in Live' <=> hdr'[o].Type # "free"
          /\ users[o] = Refs(o) /\ users'[o] = Refs(o)'
      BY DEF Live
    <3>2. Refs(o)' \in Nat
      BY <2>1, PartsNext DEF IInv, PartsOf
    <3>3. Evolves(o)
      BY <2>1
    <3> HIDE DEF users
    <3> QED
      BY <3>1, <3>2, <3>3
      DEF Evolves, users, Lifetime!Create, Lifetime!Use, Lifetime!Destroy, Lifetime!Rest
  <2> QED
    BY <2>2, <2>3 DEF Lifetime!Next
<1> QED
  BY <1>1, <1>2, Invariance, PTL DEF Spec, ImplementsLifetime, Lifetime!Spec

=============================================================================
