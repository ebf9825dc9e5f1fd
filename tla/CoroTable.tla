------------------------------- MODULE CoroTable -------------------------------
(***************************************************************************)
(* The scheduler table of std/coro.qela as a value: the sequence of the    *)
(* ncoros slots in use so far, indexed from 1 (slot 0 is the main context  *)
(* and has no entry).  The functions below are the scans that coro_spawn,  *)
(* coro_import, coro_next, coro_pending and coro_live make over it.        *)
(* `alive` is set when a slot is first filled and never cleared, so every  *)
(* entry of the sequence has it.                                           *)
(***************************************************************************)
EXTENDS Naturals, Sequences, FiniteSets

CONSTANT Slots      \* CORO_SLOTS: ids are below it

\* A slot just filled by coro_spawn for the coroutine `who`.
Fresh(who) == [who |-> who, done |-> FALSE, moved |-> FALSE, parked |-> FALSE,
               blocked |-> FALSE, pinned |-> FALSE]

\* A slot filled by coro_import: the context arrives parked.
Imported(who) == [Fresh(who) EXCEPT !.parked = TRUE]

SlotType(Who) == [who : Who, done : BOOLEAN, moved : BOOLEAN, parked : BOOLEAN,
                  blocked : BOOLEAN, pinned : BOOLEAN]

Runnable(tab, i) == ~tab[i].done /\ ~tab[i].moved
Live(tab)        == {i \in DOMAIN tab : Runnable(tab, i)}

CoroLive(tab)    == Cardinality(Live(tab))
CoroPending(tab) == Live(tab) # {}

Least(S) == CHOOSE i \in S : \A j \in S : i <= j

\* Mutant of FreeSlot: a finished slot is not used again.
FreeSlotNew(tab) == IF Len(tab) + 1 >= Slots THEN 0 ELSE Len(tab) + 1

\* The slot a new coroutine gets: the first finished or donated one, else a
\* new one, else 0 when the table is full.
FreeSlot(tab) ==
    LET reusable == DOMAIN tab \ Live(tab)
    IN  IF reusable # {} THEN Least(reusable)
        ELSE IF Len(tab) + 1 >= Slots THEN 0
        ELSE Len(tab) + 1

Fill(tab, id, slot) ==
    IF id > Len(tab) THEN Append(tab, slot) ELSE [tab EXCEPT ![id] = slot]

\* Mutant of CoroNext: the scan starts over from the first slot every time.
CoroNextFirst(tab, from) ==
    LET others == Live(tab) \ {from}
    IN  IF others = {} THEN 0 ELSE Least(others)

\* The next runnable context after `from`, in table order and then main.
CoroNext(tab, from) ==
    LET later == {i \in Live(tab) : i > from}
    IN  IF later = {} THEN 0 ELSE Least(later)
===============================================================================
