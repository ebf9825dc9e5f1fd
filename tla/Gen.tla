---------------------------------- MODULE Gen ----------------------------------
(***************************************************************************)
(* Generators, std/gen.qela, on one thread's scheduler (Coro): coroutines  *)
(* with switches of their own, from the consumer straight to the generator *)
(* and back.                                                               *)
(*                                                                         *)
(* Main, plain coroutines and generators' bodies all make, advance and     *)
(* hand around generators as they like; none advances a generator whose    *)
(* body is itself in the middle of advancing another.  A generator and     *)
(* its Gen have the number of the coroutine, and its n-th value is n.      *)
(***************************************************************************)
EXTENDS Coro

CONSTANTS
    MaxYields,  \* bound: values of one generator
    Mixing,     \* coro_yield may be called while a generator is not finished
    Recycled    \* arena_reset may have rewound over finished generators

ASSUME GenAssumption ==
    MaxYields \in Nat /\ Mixing \in BOOLEAN /\ Recycled \in BOOLEAN

VARIABLES
    gens,       \* the Gen of each generator
    made,       \* history: the generators there are
    calling,    \* history: contexts inside a gen_next or a spawner that are not back yet
    yielded,    \* history, per generator: values its body has yielded,
    got, last,  \* values gen_next has delivered, and the last of them
    told        \* history: generators whose end gen_next has reported

genvars == <<gens, made, calling, yielded, got, last, told>>
coroutines == <<coros, cur_coro, joining, born, refused, ended, since>>
varsGen == <<coroutines, genvars>>

Numbers == 1 .. MaxSpawns
ZeroGen == [coro |-> 0, parent |-> 0, done |-> FALSE, val |-> 0]

InitGen ==
    /\ Init
    /\ gens = [g \in Numbers |-> ZeroGen]
    /\ made = {} /\ calling = {} /\ told = {}
    /\ yielded = [g \in Numbers |-> 0]
    /\ got = [g \in Numbers |-> 0] /\ last = [g \in Numbers |-> 0]

\* The test gen_resume and gen_next begin with.
Over(g) == gens[g].done \/ gens[g].coro = 0

WhoIs(i) == IF i = 0 THEN 0 ELSE coros[i].who
Me       == WhoIs(cur_coro)
Busy     == joining /\ cur_coro = 0

\* What the round robin would do to a generator that waits for its consumer.
MayYield == Mixing \/ \A g \in made : Over(g)
-------------------------------------------------------------------------------
(* The scheduler's own operations, by whoever runs                         *)

SpawnPlain == Spawn /\ UNCHANGED genvars

\* The context that gets control is back from whatever switched away from it.
YieldAny ==
    /\ MayYield /\ Yield
    /\ calling' = calling \ {WhoIs(cur_coro')}
    /\ UNCHANGED <<gens, made, yielded, got, last, told>>

FinishPlain ==
    /\ Me \notin made
    /\ MayYield /\ Finish
    /\ calling' = calling \ {WhoIs(cur_coro')}
    /\ UNCHANGED <<gens, made, yielded, got, last, told>>

RunAllMain == (RunAll \/ RunAllDone) /\ MayYield /\ UNCHANGED genvars
-------------------------------------------------------------------------------
(* The generators'                                                         *)

\* A call of a generator function: its Gen is cut off the arena, where a
\* rewind has left what was there before; its body is spawned and, if the Gen
\* does not look finished, advanced to the first value (gen_resume).
Generate ==
    LET id == FreeSlot(coros)
        g  == born + 1
    IN  /\ born < MaxSpawns /\ ~Busy
        /\ born' = g /\ made' = made \cup {g}
        /\ \E old \in {ZeroGen} \cup {gens[h] : h \in {x \in made : Recycled /\ Over(x)}} :
              LET new == [old EXCEPT !.coro = id] IN
              IF id = 0
              THEN /\ gens' = [gens EXCEPT ![g] = new]
                   /\ refused' = refused \cup {g}
                   /\ UNCHANGED <<coros, cur_coro, since, calling>>
              ELSE /\ coros' = Fill(coros, id, Fresh(g))
                   /\ UNCHANGED refused
                   /\ IF old.done
                      THEN /\ gens' = [gens EXCEPT ![g] = new]
                           /\ since' = [since EXCEPT ![id] = 0]
                           /\ UNCHANGED <<cur_coro, calling>>
                      ELSE /\ gens' = [gens EXCEPT ![g] = [new EXCEPT !.parent = cur_coro]]
                           /\ calling' = calling \cup {Me}
                           /\ SwitchTo(id)
        /\ UNCHANGED <<joining, ended, yielded, got, last, told>>

\* Mutant of GenNext: only a generator that was never spawned is at its end.
GenNextUnchecked(g) ==
    /\ g \in made /\ ~Busy
    /\ g # Me /\ g \notin calling
    /\ IF gens[g].coro = 0
       THEN /\ told' = told \cup {g}
            /\ UNCHANGED <<gens, calling, got, last, cur_coro, since>>
       ELSE /\ last' = [last EXCEPT ![g] = gens[g].val]
            /\ got' = [got EXCEPT ![g] = @ + 1]
            /\ gens' = [gens EXCEPT ![g].parent = cur_coro]
            /\ calling' = calling \cup {Me}
            /\ SwitchTo(gens[g].coro)
            /\ UNCHANGED told
    /\ UNCHANGED <<coros, joining, born, refused, ended, made, yielded>>

\* gen_next: the value that stands in the Gen is delivered and the body
\* advanced; at its end that is reported instead.
GenNext(g) ==
    /\ g \in made /\ ~Busy
    /\ g # Me /\ g \notin calling
    /\ IF Over(g)
       THEN /\ told' = told \cup {g}
            /\ UNCHANGED <<gens, calling, got, last, cur_coro, since>>
       ELSE /\ last' = [last EXCEPT ![g] = gens[g].val]
            /\ got' = [got EXCEPT ![g] = @ + 1]
            /\ gens' = [gens EXCEPT ![g].parent = cur_coro]
            /\ calling' = calling \cup {Me}
            /\ SwitchTo(gens[g].coro)
            /\ UNCHANGED told
    /\ UNCHANGED <<coros, joining, born, refused, ended, made, yielded>>

\* gen_yield, in the body: the value is left in the Gen and the consumer goes
\* on.
GenYield ==
    /\ Me \in made
    /\ yielded[Me] < MaxYields
    /\ yielded' = [yielded EXCEPT ![Me] = @ + 1]
    /\ gens' = [gens EXCEPT ![Me].val = yielded[Me] + 1]
    /\ SwitchTo(gens[Me].parent)
    /\ calling' = calling \ {WhoIs(gens[Me].parent)}
    /\ UNCHANGED <<coros, joining, born, refused, ended, made, got, last, told>>

\* Mutant of GenFinish: the scheduler does not forget the slot.
GenFinishKept ==
    /\ Me \in made
    /\ gens' = [gens EXCEPT ![Me].done = TRUE]
    /\ ended' = ended \cup {Me}
    /\ SwitchTo(gens[Me].parent)
    /\ calling' = calling \ {WhoIs(gens[Me].parent)}
    /\ UNCHANGED <<coros, joining, born, refused, made, yielded, got, last, told>>

\* gen_finish: the Gen and the slot are marked, and the consumer goes on for
\* the last time.
GenFinish ==
    /\ Me \in made
    /\ gens' = [gens EXCEPT ![Me].done = TRUE]
    /\ coros' = [coros EXCEPT ![cur_coro].done = TRUE]
    /\ ended' = ended \cup {Me}
    /\ SwitchTo(gens[Me].parent)
    /\ calling' = calling \ {WhoIs(gens[Me].parent)}
    /\ UNCHANGED <<joining, born, refused, made, yielded, got, last, told>>

StepGen == \/ SpawnPlain \/ YieldAny \/ FinishPlain \/ RunAllMain
           \/ Generate \/ (\E g \in made : GenNext(g)) \/ GenYield \/ GenFinish

SpecGen == InitGen /\ [][StepGen]_varsGen
-------------------------------------------------------------------------------
GenTypes ==
    /\ gens \in [Numbers -> [coro : 0 .. Slots - 1, parent : 0 .. Slots - 1,
                             done : BOOLEAN, val : 0 .. MaxYields]]
    /\ made \subseteq 1 .. born /\ told \subseteq made /\ calling \subseteq 0 .. born
    /\ yielded \in [Numbers -> 0 .. MaxYields]

\* The k-th gen_next of a generator delivers the k-th value its body yielded,
\* whoever calls it and however generators consume each other.
InOrder == \A g \in made : last[g] = got[g]

\* gen.qela above gen_next: it returns false "only when the generator was
\* already finished before this call, so a consumer never loses the final
\* value"; or when the slot table was full (coro_spawn: silently).
NoneLost == \A g \in told : g \in refused \/ (g \in ended /\ got[g] = yielded[g])

\* Generators are sound on a scheduler whose slots are used again: values come
\* in order, none is lost, and the scheduler forgets who has finished.
GenSound == TableSound /\ GenTypes /\ InOrder /\ NoneLost
===============================================================================
