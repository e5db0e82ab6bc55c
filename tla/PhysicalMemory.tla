--------------------------- MODULE PhysicalMemory ---------------------------
(***************************************************************************)
(* The list of free physical pages (FreeList of PhysicalMemory.cpp): blocks *)
(* in ascending order, searched from the top.                              *)
(***************************************************************************)
EXTENDS Integers, SequencesExt, FiniteSetsExt

CONSTANT
    Word    \* bound: 2^32 in the code, the modulus of PFN arithmetic

ASSUME WordAssumption == Word \in Nat \ {0}

Block(start, size) == [start |-> start, size |-> size]

BlockEnd(b) == b.start + b.size - 1

NonEmpty(b) == IF b.size = 0 THEN <<>> ELSE <<b>>

RoundDown(x, a) == x - (x % a)

RoundUp(x, a) == RoundDown(x + a - 1, a)

(* The highest page a request for n pages can end at inside a block, for the request's     *)
(* range and alignment.                                                                 *)
RequestEnd(b, n, align, hi) ==
    LET end == Min({hi, BlockEnd(b)})
    IN  IF align = 0 THEN end
        ELSE (RoundDown(end + 1, align) - (RoundUp(n, align) - n + 1)) % Word

(* Fault: the block is not tested again after the alignment. *)
RequestFitsNoRecheck(b, n, align, lo, hi) ==
    LET from == Max({lo, b.start})
        end  == Min({hi, BlockEnd(b)})
    IN  b.size >= n /\ end >= from /\ end - from + 1 >= n

(* RemoveFree's test of one block; after the alignment it is made again. *)
RequestFits(b, n, align, lo, hi) ==
    LET from == Max({lo, b.start})
        end  == Min({hi, BlockEnd(b)})
        top  == RequestEnd(b, n, align, hi)
    IN  /\ b.size >= n
        /\ end >= from
        /\ end - from + 1 >= n
        /\ align # 0 => top >= from /\ (top - from + 1) % Word >= n

Fitting(list, n, align, lo, hi) == {i \in DOMAIN list : RequestFits(list[i], n, align, lo, hi)}

(* RemoveFree: n pages with the given alignment between lo and hi, from the highest block *)
(* that fits.  What is left of the block before and after them stays free.              *)
RemoveFree(list, n, align, lo, hi) ==
    IF Fitting(list, n, align, lo, hi) = {}
    THEN [found |-> FALSE, pfn |-> 0, list |-> list]
    ELSE LET i   == Max(Fitting(list, n, align, lo, hi))
             b   == list[i]
             top == RequestEnd(b, n, align, hi)
         IN  [found |-> TRUE,
              pfn   |-> (top - n + 1) % Word,
              list  |-> SubSeq(list, 1, i - 1)
                        \o NonEmpty(Block(b.start, (top - b.start - n + 1) % Word))
                        \o NonEmpty(Block((top + 1) % Word, (BlockEnd(b) - top) % Word))
                        \o SubSeq(list, i + 1, Len(list))]

(* Where InsertFree stops on its way down: after the last block that starts below. *)
Position(list, start) == Max({0} \cup {i \in DOMAIN list : list[i].start < start})

(* Fault: the pages are not merged with the block before them. *)
InsertFreeForwardOnly(list, start, end) ==
    LET i       == Position(list, start)
        forward == i < Len(list) /\ end + 1 = list[i + 1].start
        size    == (IF forward THEN list[i + 1].size ELSE 0) + end - start + 1
    IN  SubSeq(list, 1, i) \o <<Block(start, size)>>
        \o SubSeq(list, (IF forward THEN i + 2 ELSE i + 1), Len(list))

(* InsertFree: the pages from start to end, merged with the block after and the block     *)
(* before them.                                                                         *)
InsertFree(list, start, end) ==
    LET i        == Position(list, start)
        forward  == i < Len(list) /\ end + 1 = list[i + 1].start
        backward == i > 0 /\ BlockEnd(list[i]) + 1 = start
        size     == (IF forward THEN list[i + 1].size ELSE 0)
                    + (IF backward THEN list[i].size ELSE 0) + end - start + 1
    IN  SubSeq(list, 1, (IF backward THEN i - 1 ELSE i))
        \o <<Block((IF backward THEN list[i].start ELSE start), size)>>
        \o SubSeq(list, (IF forward THEN i + 2 ELSE i + 1), Len(list))

FreePages(list) == UNION {list[i].start .. BlockEnd(list[i]) : i \in DOMAIN list}

(* In order, apart and never adjacent. *)
Coalesced(list) ==
    /\ \A i \in DOMAIN list : list[i].size > 0
    /\ \A i, j \in DOMAIN list : i < j => BlockEnd(list[i]) + 1 < list[j].start

(* The block a request takes reaches up to a page number of the wanted alignment.         *)
(* Otherwise RequestEnd falls below zero, RequestFits takes what it wraps to for a page   *)
(* above the block, and the pages RemoveFree gives do not exist.                         *)
Alignable(list, n, align, lo, hi) ==
    LET F == Fitting(list, n, align, lo, hi)
    IN  F # {} => Min({hi, BlockEnd(list[Max(F)])}) + 1 >= align
=============================================================================
