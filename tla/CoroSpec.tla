-------------------------------- MODULE CoroSpec --------------------------------
(***************************************************************************)
(* What std/coro.qela promises of one thread's scheduler, with the slot    *)
(* table abstracted away: a set of coroutines of bounded size, one context *)
(* running at a time, and a join that waits for them all.  The bound is on *)
(* how many are alive together, not on how many there have ever been.      *)
(***************************************************************************)
EXTENDS Naturals, FiniteSets

CONSTANTS Capacity,   \* how many coroutines may be alive at once
          MaxSpawns   \* bound: coro_spawn calls

VARIABLES born,       \* coro_spawn calls so far; they number the coroutines
          alive,      \* those that were accepted and have not ended
          running,    \* whoever has the thread, 0 for main
          joining     \* main is inside coro_run_all

vars == <<born, alive, running, joining>>

Init == born = 0 /\ alive = {} /\ running = 0 /\ joining = FALSE

\* Main spawns only outside coro_run_all; a coroutine may at any time.
Spawn ==
    /\ born < MaxSpawns
    /\ ~joining \/ running # 0
    /\ born' = born + 1
    /\ alive' = IF Cardinality(alive) < Capacity THEN alive \cup {born + 1} ELSE alive
    /\ UNCHANGED <<running, joining>>

Yield ==
    /\ running' \in (alive \cup {0}) \ {running}
    /\ UNCHANGED <<born, alive, joining>>

Finish ==
    /\ running # 0
    /\ alive' = alive \ {running}
    /\ running' \in alive' \cup {0}
    /\ UNCHANGED <<born, joining>>

RunAll ==
    /\ running = 0 /\ ~joining
    /\ joining' = TRUE
    /\ UNCHANGED <<born, alive, running>>

RunAllDone ==
    /\ running = 0 /\ joining /\ alive = {}
    /\ joining' = FALSE
    /\ UNCHANGED <<born, alive, running>>

Next == Spawn \/ Yield \/ Finish \/ RunAll \/ RunAllDone

Spec == Init /\ [][Next]_vars
===============================================================================
