-------------------------------- MODULE HeapSpec --------------------------------
(***************************************************************************)
(* What std/heap.qela promises, with the free list, the headers and the    *)
(* search abstracted away: blocks of the size asked for, anywhere in the   *)
(* memory mapped so far that nobody has, and no more of it mapped while    *)
(* there is room.                                                          *)
(***************************************************************************)
EXTENDS Naturals

CONSTANTS Top,       \* bound: the highest unit mmap may return
          MinChunk,  \* the units mapped at least
          Amounts    \* the units asked for

VARIABLES mapped,    \* the units mapped so far
          blocks     \* the blocks handed out, [at, units]

Init == mapped = {} /\ blocks = {}

Extent(b) == b.at .. b.at + b.units - 1
Unowned == mapped \ UNION {Extent(b) : b \in blocks}

\* Where n units could be had without mapping more.
Room(n) == {a \in Unowned : a .. a + n - 1 \subseteq Unowned}

\* What mmap may add for n units.
Chunks(n) ==
    {c \in {a .. a + (IF n < MinChunk THEN MinChunk ELSE n) - 1 : a \in 1 .. Top} :
        c \subseteq (1 .. Top) \ mapped}

\* n units from at on, if need be out of a fresh chunk.
Place(n, at) ==
    \E fresh \in Chunks(n) \cup {{}} :
        /\ mapped' = mapped \cup fresh
        /\ fresh # {} => Room(n) = {}
        /\ at .. at + n - 1 \subseteq Unowned \cup fresh

Alloc(n) == \E at \in 1 .. Top : blocks' = blocks \cup {[at |-> at, units |-> n]} /\ Place(n, at)

Free(b) == blocks' = blocks \ {b} /\ UNCHANGED mapped

\* The new block is taken before the old one is given back.
Realloc(b, n) ==
    \E at \in 1 .. Top : blocks' = (blocks \ {b}) \cup {[at |-> at, units |-> n]} /\ Place(n, at)

Next == \/ \E n \in Amounts : Alloc(n)
        \/ \E b \in blocks : Free(b)
        \/ \E b \in blocks, n \in Amounts : Realloc(b, n)

Spec == Init /\ [][Next]_<<mapped, blocks>>
===============================================================================
