---------------------------------- MODULE Heap ----------------------------------
(***************************************************************************)
(* The allocator of std/heap.qela: a circular list of free blocks in       *)
(* address order, searched next-fit from heap_freep, split from the tail   *)
(* and coalesced on free; more memory comes from mmap, wherever the kernel *)
(* puts it.  Addresses and sizes are in Header units; heap_base, the empty *)
(* block the list starts from, lies below every mapping.                   *)
(***************************************************************************)
EXTENDS Naturals, FiniteSets

CONSTANTS
    HeaderBytes,    \* sizeof(Header)
    MinChunk,       \* the units heap_morecore asks for at least
    Top,            \* bound: the highest unit mmap may return
    Requests        \* the byte counts asked for

ASSUME HeapAssumption ==
    /\ HeaderBytes \in Nat \ {0} /\ MinChunk \in Nat \ {0} /\ Top \in Nat
    /\ Requests \subseteq Nat \ {0}

Base == 0
Null == Top + 1
Units == 1 .. Top

VARIABLES
    size, nextf,    \* the Header fields, by address
    heap_freep,
    mapped,         \* history: the units mmap has returned
    live            \* history: the blocks handed out and not yet freed

vars == <<size, nextf, heap_freep, mapped, live>>

Init ==
    /\ size = [a \in 0 .. Top |-> 0]
    /\ nextf = [a \in 0 .. Top |-> Base]
    /\ heap_freep = Null
    /\ mapped = {} /\ live = {}

\* Payload bytes rounded up to whole units, and the header.
NUnits(nbytes) == (nbytes + HeaderBytes - 1) \div HeaderBytes + 1

Least(S) == CHOOSE i \in S : \A j \in S : i <= j
-------------------------------------------------------------------------------
(* The heap as a value: [size, nextf, freep]                               *)

Heap == [size |-> size, nextf |-> nextf, freep |-> heap_freep]

\* The list from heap_freep on, once around and back.
Walk(h) == LET w[i \in 0 .. Top + 2] == IF i = 0 THEN h.freep ELSE h.nextf[w[i - 1]] IN w
Tour(h) == 1 .. Least({i \in 1 .. Top + 2 : Walk(h)[i] = h.freep})

\* The first allocation links heap_base to itself.
Linked(h) ==
    IF h.freep # Null THEN h
    ELSE [size |-> [h.size EXCEPT ![Base] = 0], nextf |-> [h.nextf EXCEPT ![Base] = Base],
          freep |-> Base]

Fits(h, nunits) == {i \in Tour(h) : h.size[Walk(h)[i]] >= nunits}

\* Mutants of Found: a remainder of one unit is unlinked with the block; the
\* size of the tail is not written.
FoundShort(h, nunits) ==
    LET w    == Walk(h)
        i    == Least(Fits(h, nunits))
        p    == w[i]
        rest == h.size[p] - nunits
    IN IF rest <= 1
       THEN [block |-> p, heap |-> [h EXCEPT !.nextf[w[i - 1]] = h.nextf[p], !.freep = w[i - 1],
                                             !.size[p] = nunits]]
       ELSE [block |-> p + rest,
             heap |-> [h EXCEPT !.size = [@ EXCEPT ![p] = rest, ![p + rest] = nunits],
                                !.freep = w[i - 1]]]
FoundUnsized(h, nunits) ==
    LET w    == Walk(h)
        i    == Least(Fits(h, nunits))
        p    == w[i]
        rest == h.size[p] - nunits
    IN IF rest = 0
       THEN [block |-> p, heap |-> [h EXCEPT !.nextf[w[i - 1]] = h.nextf[p], !.freep = w[i - 1]]]
       ELSE [block |-> p + rest, heap |-> [h EXCEPT !.size[p] = rest, !.freep = w[i - 1]]]

\* n units of the free block after prev: the block is unlinked if it fits
\* exactly, else its tail is cut off.  The next search goes on from prev.
Cut(h, prev, nunits) ==
    LET p    == h.nextf[prev]
        rest == h.size[p] - nunits
    IN IF rest = 0
       THEN [block |-> p, heap |-> [h EXCEPT !.nextf[prev] = h.nextf[p], !.freep = prev]]
       ELSE [block |-> p + rest,
             heap |-> [h EXCEPT !.size = [@ EXCEPT ![p] = rest, ![p + rest] = nunits],
                                !.freep = prev]]

\* The first block of the tour that is large enough.
Found(h, nunits) == Cut(h, Walk(h)[Least(Fits(h, nunits)) - 1], nunits)

\* Mutant of Between: the successor is not looked at.
BetweenAny(h, p, bp) == p < bp \/ h.nextf[p] <= p

\* Whether bp belongs between the free block p and its successor; one of the
\* places in the list is where the addresses wrap around.
Between(h, p, bp) ==
    LET q == h.nextf[p] IN
    \/ p < bp /\ bp < q
    \/ p >= q /\ (bp > p \/ bp < q)

\* Mutant of PutBehind: the next block is never joined.
PutBehindApart(h, p, bp) ==
    LET q    == h.nextf[p]
        down == p + h.size[p] = bp
        s    == h.size[bp]
    IN [size  |-> [h.size EXCEPT ![p] = IF down THEN @ + s ELSE @],
        nextf |-> [h.nextf EXCEPT ![bp] = q, ![p] = IF down THEN q ELSE bp],
        freep |-> p]

\* bp put in behind p, and joined with its neighbours where they touch.
PutBehind(h, p, bp) ==
    LET q    == h.nextf[p]
        up   == bp + h.size[bp] = q
        down == p + h.size[p] = bp
        s    == IF up THEN h.size[bp] + h.size[q] ELSE h.size[bp]
        n    == IF up THEN h.nextf[q] ELSE q
    IN [size  |-> [h.size EXCEPT ![bp] = s, ![p] = IF down THEN @ + s ELSE @],
        nextf |-> [h.nextf EXCEPT ![bp] = n, ![p] = IF down THEN n ELSE bp],
        freep |-> p]

\* heap_free: the first place of the walk where it belongs.
Freed(h, bp) ==
    PutBehind(h, Walk(h)[Least({i \in 0 .. Top + 1 : Between(h, Walk(h)[i], bp)})], bp)
-------------------------------------------------------------------------------
(* The operations                                                          *)

Set(h) == size' = h.size /\ nextf' = h.nextf /\ heap_freep' = h.freep

\* What heap_alloc can make of the heap h: a block found, or found in the
\* fresh units heap_morecore added, or Null when mmap fails.
Fresh(h, nunits) ==
    LET n == IF nunits < MinChunk THEN MinChunk ELSE nunits IN
    {[units |-> a .. a + n - 1, heap |-> Freed([h EXCEPT !.size[a] = n], a)] :
        a \in {u \in Units : u + n - 1 <= Top /\ (u .. u + n - 1) \cap mapped = {}}}

Outcomes(h, nunits) ==
    IF Fits(h, nunits) # {}
    THEN {[found |-> Found(h, nunits), units |-> {}]}
    ELSE {[found |-> [block |-> Null, heap |-> h], units |-> {}]}
         \cup {[found |-> Found(f.heap, nunits), units |-> f.units] : f \in Fresh(h, nunits)}

Alloc(nbytes) ==
    \E o \in Outcomes(Linked(Heap), NUnits(nbytes)) :
        /\ Set(o.found.heap)
        /\ mapped' = mapped \cup o.units
        /\ live' = IF o.found.block = Null THEN live
                   ELSE live \cup {[at |-> o.found.block, bytes |-> nbytes]}

Free(b) ==
    /\ Set(Freed(Heap, b.at))
    /\ live' = live \ {b}
    /\ UNCHANGED mapped

\* heap_realloc: a new block, the contents copied, the old one freed; when
\* nothing can be had, the old one stays.
Realloc(b, nbytes) ==
    \E o \in Outcomes(Heap, NUnits(nbytes)) :
        /\ mapped' = mapped \cup o.units
        /\ \/ o.found.block = Null /\ Set(o.found.heap) /\ UNCHANGED live
           \/ /\ o.found.block # Null
              /\ Set(Freed(o.found.heap, b.at))
              /\ live' = (live \ {b}) \cup {[at |-> o.found.block, bytes |-> nbytes]}

Next == \/ \E nbytes \in Requests : Alloc(nbytes)
        \/ \E b \in live : Free(b)
        \/ \E b \in live, nbytes \in Requests : Realloc(b, nbytes)

Spec == Init /\ [][Next]_vars
-------------------------------------------------------------------------------
(* Properties                                                              *)

TypeOK ==
    /\ size \in [0 .. Top -> 0 .. Top] /\ nextf \in [0 .. Top -> 0 .. Top]
    /\ heap_freep \in (0 .. Top) \cup {Null}
    /\ mapped \subseteq Units
    /\ live \subseteq [at : Units, bytes : Requests]

Free_ == IF heap_freep = Null THEN {} ELSE {Walk(Heap)[i] : i \in Tour(Heap)}
Extent(a) == a .. a + size[a] - 1

\* Every unit ever mapped belongs to exactly one block, free or handed out,
\* and no block reaches outside: after any sequence of calls nothing is lost
\* and nothing overlaps.
Partition ==
    LET starts == (Free_ \ {Base}) \cup {b.at : b \in live} IN
    /\ TypeOK
    /\ \A a \in starts : size[a] > 0 /\ Extent(a) \subseteq mapped
    /\ \A u \in mapped : Cardinality({a \in starts : u \in Extent(a)}) = 1
    /\ Cardinality(starts) = Cardinality(Free_ \ {Base}) + Cardinality(live)

\* The free list is one ring through heap_base in address order, which is
\* what the search for a block's place relies on.
RingSorted ==
    heap_freep # Null =>
        /\ Base \in Free_
        /\ \A p \in Free_ : nextf[p] = LET above == {q \in Free_ : q > p}
                                       IN  IF above = {} THEN Base ELSE Least(above)

\* Free neighbours are always joined: a request fails only when no stretch of
\* free memory is long enough.
Coalesced == \A p, q \in Free_ : p # Base => p + size[p] # q

\* What a search needs to come to its end and to find a block if there is one.
FreeListSound == RingSorted /\ Coalesced

\* A block in use keeps its header and is as large as was asked, whatever
\* happens around it.
LiveUntouched ==
    [][\A b \in live' : /\ size'[b.at] >= NUnits(b.bytes)
                        /\ b \in live => size'[b.at] = size[b.at]]_vars

\* What the blocks in use stand for.
Handed == {[at |-> b.at, units |-> NUnits(b.bytes)] : b \in live}

\* The allocator as its callers see it (HeapSpec).
Abs == INSTANCE HeapSpec WITH blocks <- Handed, Amounts <- {NUnits(nbytes) : nbytes \in Requests}

\* heap_alloc, heap_free and heap_realloc keep the promise of an allocator: what
\* is handed out was nobody's, and memory is only mapped for a request that no
\* stretch of free memory, however it came about, has room for.
Promise == Abs!Spec
===============================================================================
