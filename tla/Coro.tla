--------------------------------- MODULE Coro ---------------------------------
(***************************************************************************)
(* One thread's cooperative scheduler, std/coro.qela: whoever runs may     *)
(* spawn, yield or finish, and main may run everybody to the end.  Between *)
(* two switches the running context has the thread to itself, so each      *)
(* operation is one step.                                                  *)
(***************************************************************************)
EXTENDS CoroTable

CONSTANT MaxSpawns      \* bound: coro_spawn calls

ASSUME CoroAssumption == Slots \in Nat \ {0} /\ MaxSpawns \in Nat

VARIABLES
    coros,      \* the slots
    cur_coro,   \* the running context, 0 for main
    joining,    \* main is inside coro_run_all
    born,       \* history: coro_spawn calls so far; they number the coroutines
    refused,    \* history: those that found the table full
    ended,      \* history: the coroutines that finished
    since       \* history: switches since each slot last ran or was filled, up to Slots

vars == <<coros, cur_coro, joining, born, refused, ended, since>>

Init ==
    /\ coros = << >>
    /\ cur_coro = 0
    /\ joining = FALSE
    /\ born = 0 /\ refused = {} /\ ended = {}
    /\ since = [i \in 1 .. Slots - 1 |-> 0]

\* The stack swap; one more turn has passed for everyone but its target.
SwitchTo(to) ==
    /\ cur_coro' = to
    /\ since' = [i \in DOMAIN since |-> IF i = to THEN 0
                                        ELSE IF i \in Live(coros) /\ since[i] < Slots THEN since[i] + 1
                                        ELSE since[i]]

\* Mutant of Spawn: the first slot is reused whatever it holds.
SpawnOnFirst ==
    LET id == IF Len(coros) + 1 >= Slots THEN 1 ELSE Len(coros) + 1 IN
    /\ born < MaxSpawns
    /\ ~joining \/ cur_coro # 0
    /\ born' = born + 1
    /\ coros' = Fill(coros, id, Fresh(born + 1))
    /\ since' = [since EXCEPT ![id] = 0]
    /\ UNCHANGED <<cur_coro, joining, refused, ended>>

\* coro_spawn, by whoever runs; a full table answers 0 and nothing is kept.
Spawn ==
    LET id == FreeSlot(coros) IN
    /\ born < MaxSpawns
    /\ ~joining \/ cur_coro # 0
    /\ born' = born + 1
    /\ IF id = 0
       THEN refused' = refused \cup {born + 1} /\ UNCHANGED <<coros, since>>
       ELSE /\ coros' = Fill(coros, id, Fresh(born + 1))
            /\ since' = [since EXCEPT ![id] = 0]
            /\ UNCHANGED refused
    /\ UNCHANGED <<cur_coro, joining, ended>>

\* coro_yield: round robin; alone, it returns false and nothing happens.
Yield ==
    LET to == CoroNext(coros, cur_coro) IN
    /\ to # cur_coro
    /\ coros' = IF cur_coro = 0 THEN coros ELSE [coros EXCEPT ![cur_coro].parked = TRUE]
    /\ SwitchTo(to)
    /\ UNCHANGED <<joining, born, refused, ended>>

\* Mutant of Finish: the rest of the round is skipped.
FinishToFirst ==
    LET others == Live(coros) \ {cur_coro} IN
    /\ cur_coro # 0
    /\ coros' = [coros EXCEPT ![cur_coro].done = TRUE]
    /\ ended' = ended \cup {coros[cur_coro].who}
    /\ SwitchTo(IF others = {} THEN 0 ELSE Least(others))
    /\ UNCHANGED <<joining, born, refused>>

\* coro_finish: the one-way switch away from a done slot.
Finish ==
    /\ cur_coro # 0
    /\ coros' = [coros EXCEPT ![cur_coro].done = TRUE]
    /\ ended' = ended \cup {coros[cur_coro].who}
    /\ SwitchTo(CoroNext(coros, cur_coro))
    /\ UNCHANGED <<joining, born, refused>>

\* coro_run_all: main yields for as long as something is pending.
RunAll ==
    /\ cur_coro = 0 /\ ~joining
    /\ joining' = TRUE
    /\ UNCHANGED <<coros, cur_coro, born, refused, ended, since>>

\* Mutant of RunAllDone: one look at the last slot instead of a scan.
RunAllLast ==
    /\ cur_coro = 0 /\ joining
    /\ Len(coros) \notin Live(coros)
    /\ joining' = FALSE
    /\ UNCHANGED <<coros, cur_coro, born, refused, ended, since>>

RunAllDone ==
    /\ cur_coro = 0 /\ joining
    /\ ~CoroPending(coros)
    /\ joining' = FALSE
    /\ UNCHANGED <<coros, cur_coro, born, refused, ended, since>>

Next == Spawn \/ Yield \/ Finish \/ RunAll \/ RunAllDone

Spec == Init /\ [][Next]_vars

\* Whoever runs comes to a yield or to its end: the scheduler is
\* cooperative and promises nothing without it.
FairSpec == Spec /\ WF_vars(Yield)
-------------------------------------------------------------------------------
TypeOK ==
    /\ coros \in Seq(SlotType(1 .. MaxSpawns)) /\ Len(coros) < Slots
    /\ cur_coro \in {0} \cup DOMAIN coros
    /\ joining \in BOOLEAN
    /\ born \in 0 .. MaxSpawns
    /\ refused \subseteq 1 .. born /\ ended \subseteq 1 .. born
    /\ since \in [1 .. Slots - 1 -> 0 .. Slots]

\* Every coroutine that was neither refused nor ended has one slot, and no
\* slot serves two: reusing finished slots overwrites nobody.
EachHasItsSlot ==
    \A w \in (1 .. born) \ (refused \cup ended) :
        Cardinality({i \in Live(coros) : coros[i].who = w}) = 1

\* The running context is one that may run: control is never in a slot that
\* was finished.
RunningIsLive == cur_coro \in {0} \cup Live(coros)

\* The table is sound: accepted coroutines keep their own slots through any
\* reuse of finished ones, and control only comes to those still live.
TableSound == TypeOK /\ EachHasItsSlot /\ RunningIsLive

\* Round robin starves nobody: a live coroutine waits for at most one turn
\* of every other context, main included, also when slots are reused and
\* others spawn meanwhile.
WaitsOneRound == \A i \in Live(coros) : since[i] < Slots

\* Who is accepted gets to run or has run to its end.
EveryoneRuns ==
    \A i \in 1 .. Slots - 1 : (i \in Live(coros)) ~> (cur_coro = i)

Alive   == {coros[i].who : i \in Live(coros)}
Running == IF cur_coro = 0 THEN 0 ELSE coros[cur_coro].who

\* The scheduler as its callers see it (CoroSpec).
Abs == INSTANCE CoroSpec WITH alive <- Alive, running <- Running, Capacity <- Slots - 1

\* The slot table keeps the promise of a scheduler: a spawn is refused exactly
\* when CORO_SLOTS - 1 coroutines are alive, however many slots were used and
\* given up before, a switch only goes to who is alive, and the join ends only
\* when nobody is (coro_spawn, coro_next, coro_finish, coro_run_all).
Promise == Abs!Spec
===============================================================================
