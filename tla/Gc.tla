----------------------------------- MODULE Gc -----------------------------------
(***************************************************************************)
(* The collector of std/gc.qela: threads that allocate under gc_alloc_lock *)
(* and park at safepoints, and gc_collect, which asks them to, waits for   *)
(* each, marks from the roots and sweeps.                                  *)
(*                                                                         *)
(* Every block has one pointer field and every thread one word of stack    *)
(* that may hold a pointer; the data segment is one global word.  A        *)
(* thread's saved stack pointer and registers are the root it had when it  *)
(* saved them.  Blocks are of one size, so the free list is a set.         *)
(***************************************************************************)
EXTENDS Naturals, FiniteSets

CONSTANTS
    Threads,        \* a thread is its slot of gc_threads, tried in this order
    Registered,     \* those that have called gc_thread_enter at the start
    Entering,       \* those that may call it later, and gc_thread_exit
    Collectors,     \* those that call gc_collect
    CoroThreads,    \* those that run coroutines
    Blocks,         \* the blocks the chunks have room for
    MaxCollects     \* bound: gc_collect calls

Nil == 0

ASSUME GcAssumption ==
    /\ Threads \subseteq Nat /\ IsFiniteSet(Threads) /\ Threads # {}
    /\ Registered \subseteq Threads /\ Entering \subseteq Threads
    /\ Collectors \subseteq Threads /\ CoroThreads \subseteq Threads
    /\ Blocks \subseteq Nat \ {Nil} /\ IsFiniteSet(Blocks)
    /\ MaxCollects \in Nat

Words == Blocks \cup {Nil}

VARIABLES
    used, free,     \* the blocks handed out, and those on gc_freelist
    ptr, data,      \* what the blocks and the data segment hold
    gc_live,        \* the count kept beside them
    gc_alloc_lock, gc_stw_requested,
    active, at_safepoint, saved,    \* gc_threads
    root, parked_root,      \* per thread: its running and its parked context
    pc,             \* per thread: where in gc_alloc or gc_collect it is
    pick,           \* per thread: the block gc_reuse or gc_take has chosen
    left,           \* per thread: the slots gc_collect has not waited for yet
    marked,         \* the blocks marked in this collection
    collects,       \* history: gc_collect calls
    stored,         \* history: blocks the program has stored a word in since
                    \* it got them; what a reused block held before is no use
                    \* to the program, though the collector follows it
    disturbed       \* history: threads that were not stopped when asked to be:
                    \* still leaving the safepoint before, or registered since

heap    == <<used, free, ptr, data, gc_live>>
threads == <<active, at_safepoint, saved>>
stacks  == <<root, parked_root>>
vars    == <<heap, gc_alloc_lock, gc_stw_requested, threads, stacks, pc, pick, left,
             marked, collects, stored, disturbed>>

Init ==
    /\ used = {} /\ free = {} /\ gc_live = 0
    /\ ptr = [b \in Blocks |-> Nil] /\ data = Nil
    /\ gc_alloc_lock = 0 /\ gc_stw_requested = 0
    /\ active = [t \in Threads |-> t \in Registered]
    /\ at_safepoint = [t \in Threads |-> FALSE]
    /\ saved = [t \in Threads |-> Nil]
    /\ root = [t \in Threads |-> Nil] /\ parked_root = [t \in Threads |-> Nil]
    /\ pc = [t \in Threads |-> "run"]
    /\ pick = [t \in Threads |-> Nil]
    /\ left = [t \in Threads |-> {}]
    /\ marked = {}
    /\ collects = 0 /\ disturbed = {} /\ stored = {}

Goto(t, l) == pc' = [pc EXCEPT ![t] = l]
-------------------------------------------------------------------------------
(* The program, between its calls of the collector                         *)

Mutate(t) ==
    /\ pc[t] = "run"
    /\ t \in Collectors \/ active[t]
    /\ \/ root' = [root EXCEPT ![t] = data] /\ UNCHANGED <<data, ptr, stored>>
       \/ data' = root[t] /\ UNCHANGED <<root, ptr, stored>>
       \/ root' = [root EXCEPT ![t] = Nil] /\ UNCHANGED <<data, ptr, stored>>
       \/ /\ root[t] # Nil
          /\ ptr' = [ptr EXCEPT ![root[t]] = data]
          /\ stored' = stored \cup {root[t]}
          /\ UNCHANGED <<data, root>>
       \/ /\ root[t] \in stored
          /\ root' = [root EXCEPT ![t] = ptr[root[t]]]
          /\ UNCHANGED <<data, ptr, stored>>
    /\ UNCHANGED <<used, free, gc_live, gc_alloc_lock, gc_stw_requested, threads,
                   parked_root, pc, pick, left, marked, collects, disturbed>>

\* coro_yield: the other context's stack becomes the running one.
SwitchCoro(t) ==
    /\ pc[t] = "run" /\ t \in CoroThreads
    /\ root' = [root EXCEPT ![t] = parked_root[t]]
    /\ parked_root' = [parked_root EXCEPT ![t] = root[t]]
    /\ UNCHANGED <<heap, gc_alloc_lock, gc_stw_requested, threads, pc, pick, left,
                   marked, collects, stored, disturbed>>

\* gc_thread_enter and gc_thread_exit; a thread that leaves holds nothing.
Enter(t) ==
    /\ pc[t] = "run" /\ t \in Entering /\ ~active[t]
    /\ active' = [active EXCEPT ![t] = TRUE]
    /\ at_safepoint' = [at_safepoint EXCEPT ![t] = FALSE]
    /\ disturbed' = IF gc_stw_requested = 1 THEN disturbed \cup {t} ELSE disturbed
    /\ UNCHANGED <<heap, gc_alloc_lock, gc_stw_requested, saved, stacks, pc, pick, left,
                   marked, collects, stored>>

Exit(t) ==
    /\ pc[t] = "run" /\ t \in Entering /\ active[t]
    /\ root[t] = Nil /\ parked_root[t] = Nil
    /\ active' = [active EXCEPT ![t] = FALSE]
    /\ UNCHANGED <<heap, gc_alloc_lock, gc_stw_requested, at_safepoint, saved, stacks, pc,
                   pick, left, marked, collects, stored, disturbed>>
-------------------------------------------------------------------------------
(* gc_alloc                                                                *)

\* The look at the request; threads without a slot do not stop.
AllocBegin(t) ==
    /\ pc[t] = "run"
    /\ t \in Collectors \/ active[t]
    /\ Goto(t, IF gc_stw_requested = 1 /\ active[t] THEN "save" ELSE "lock")
    /\ UNCHANGED <<heap, gc_alloc_lock, gc_stw_requested, threads, stacks, pick, left,
                   marked, collects, stored, disturbed>>

\* Registers and stack pointer are saved and the safepoint announced.
Park(t) ==
    /\ pc[t] = "save"
    /\ saved' = [saved EXCEPT ![t] = root[t]]
    /\ at_safepoint' = [at_safepoint EXCEPT ![t] = TRUE]
    /\ Goto(t, "spin")
    /\ UNCHANGED <<heap, gc_alloc_lock, gc_stw_requested, active, stacks, pick, left,
                   marked, collects, stored, disturbed>>

\* Mutant of SpinOver: the thread goes on without waiting for the end.
SpinNever(t) ==
    /\ pc[t] = "spin"
    /\ Goto(t, "leave")
    /\ UNCHANGED <<heap, gc_alloc_lock, gc_stw_requested, threads, stacks, pick, left,
                   marked, collects, stored, disturbed>>

SpinOver(t) ==
    /\ pc[t] = "spin" /\ gc_stw_requested = 0
    /\ Goto(t, "leave")
    /\ UNCHANGED <<heap, gc_alloc_lock, gc_stw_requested, threads, stacks, pick, left,
                   marked, collects, stored, disturbed>>

LeaveSafepoint(t) ==
    /\ pc[t] = "leave"
    /\ at_safepoint' = [at_safepoint EXCEPT ![t] = FALSE]
    /\ Goto(t, "lock")
    /\ UNCHANGED <<heap, gc_alloc_lock, gc_stw_requested, active, saved, stacks, pick, left,
                   marked, collects, stored, disturbed>>

\* Mutant of AllocLock: nobody waits for the lock.
AllocLockBlind(t) ==
    /\ pc[t] = "lock"
    /\ gc_alloc_lock' = 1
    /\ Goto(t, "pick")
    /\ UNCHANGED <<heap, gc_stw_requested, threads, stacks, pick, left, marked, collects,
                   stored, disturbed>>

AllocLock(t) ==
    /\ pc[t] = "lock" /\ gc_alloc_lock = 0
    /\ gc_alloc_lock' = 1
    /\ Goto(t, "pick")
    /\ UNCHANGED <<heap, gc_stw_requested, threads, stacks, pick, left, marked, collects,
                   stored, disturbed>>

\* What is left of the chunks starts at gc_cur.
Fresh == LET rest == Blocks \ (used \cup free)
         IN IF rest = {} THEN {Nil} ELSE {b \in rest : \A c \in rest : b <= c}

\* gc_reuse finds a block on the free list, else gc_take cuts one off a
\* chunk, else there is none.
Pick(t) ==
    /\ pc[t] = "pick"
    /\ \E b \in Words :
          /\ b \in IF free # {} THEN free ELSE Fresh
          /\ pick' = [pick EXCEPT ![t] = b]
    /\ Goto(t, "take")
    /\ UNCHANGED <<heap, gc_alloc_lock, gc_stw_requested, threads, stacks, left, marked,
                   collects, stored, disturbed>>

\* It is linked out, counted and returned; a reused block's words stay.
Take(t) ==
    /\ pc[t] = "take"
    /\ IF pick[t] = Nil THEN UNCHANGED <<used, free, gc_live>>
       ELSE /\ used' = used \cup {pick[t]} /\ free' = free \ {pick[t]}
            /\ gc_live' = gc_live + 1
    /\ root' = [root EXCEPT ![t] = pick[t]]
    /\ pick' = [pick EXCEPT ![t] = Nil]
    /\ stored' = stored \ {pick[t]}
    /\ gc_alloc_lock' = 0
    /\ Goto(t, "run")
    /\ UNCHANGED <<ptr, data, gc_stw_requested, threads, parked_root, left, marked,
                   collects, disturbed>>
-------------------------------------------------------------------------------
(* gc_collect                                                              *)

\* Everyone is asked to stop.
Ask(t) ==
    /\ pc[t] = "run" /\ t \in Collectors /\ collects < MaxCollects
    /\ gc_stw_requested' = 1
    /\ left' = [left EXCEPT ![t] = Threads]
    /\ collects' = collects + 1
    /\ disturbed' = disturbed \cup {u \in Threads : at_safepoint[u]}
    /\ Goto(t, "wait")
    /\ UNCHANGED <<heap, gc_alloc_lock, threads, stacks, pick, marked, stored>>

\* One slot after the other: empty, its own, or at its safepoint.
WaitFor(t) ==
    LET u == CHOOSE x \in left[t] : \A y \in left[t] : x <= y IN
    /\ pc[t] = "wait" /\ left[t] # {}
    /\ ~active[u] \/ u = t \/ at_safepoint[u]
    /\ left' = [left EXCEPT ![t] = @ \ {u}]
    /\ UNCHANGED <<heap, gc_alloc_lock, gc_stw_requested, threads, stacks, pc, pick, marked,
                   collects, stored, disturbed>>

CollectLock(t) ==
    /\ pc[t] = "wait" /\ left[t] = {}
    /\ gc_alloc_lock = 0
    /\ gc_alloc_lock' = 1
    /\ marked' = {}
    /\ Goto(t, "mark")
    /\ UNCHANGED <<heap, gc_stw_requested, threads, stacks, pick, left, collects, stored, disturbed>>

\* Marking comes to rest: the words are marked, and so is whatever a marked
\* block that is followed points to.
Settled(marks, words, follow) ==
    /\ words \ {Nil} \subseteq marks
    /\ \A b \in marks \cap follow : ptr[b] \in marks \cup {Nil}

\* What gc_mark_word comes to from some words: no more than it must before it
\* rests.
From(words, follow) ==
    {b \in Blocks : \A marks \in SUBSET Blocks : Settled(marks, words, follow) => b \in marks}

\* It marks the blocks in use; a free block stops it.
Reach(words) == From(words, used) \cap used

\* The collector's own stack and the data segment ...
MarkOwn(t) ==
    /\ pc[t] = "mark"
    /\ marked' = marked \cup Reach({root[t], data})
    /\ Goto(t, "others")
    /\ UNCHANGED <<heap, gc_alloc_lock, gc_stw_requested, threads, stacks, pick, left,
                   collects, stored, disturbed>>

\* Mutant of MarkOthers: the collector's own parked coroutines are left out.
MarkOthersOnly(t) ==
    /\ pc[t] = "others"
    /\ marked' = marked \cup Reach({saved[u] : u \in {v \in Threads \ {t} : active[v]}})
    /\ Goto(t, "sweep")
    /\ UNCHANGED <<heap, gc_alloc_lock, gc_stw_requested, threads, stacks, pick, left,
                   collects, stored, disturbed>>

\* ... what the other registered threads saved, and the collector's own
\* parked coroutines.
MarkOthers(t) ==
    /\ pc[t] = "others"
    /\ marked' = marked \cup Reach({saved[u] : u \in {v \in Threads \ {t} : active[v]}}
                                   \cup {parked_root[t]})
    /\ Goto(t, "sweep")
    /\ UNCHANGED <<heap, gc_alloc_lock, gc_stw_requested, threads, stacks, pick, left,
                   collects, stored, disturbed>>

\* Unmarked blocks go to the free list, the rest are counted.
Sweep(t) ==
    /\ pc[t] = "sweep"
    /\ used' = marked /\ free' = free \cup (used \ marked)
    /\ gc_live' = Cardinality(marked)
    /\ gc_alloc_lock' = 0
    /\ Goto(t, "resume")
    /\ UNCHANGED <<ptr, data, gc_stw_requested, threads, stacks, pick, left, marked,
                   collects, stored, disturbed>>

\* Mutant of Resume: the request is left standing.
ResumeStopped(t) ==
    /\ pc[t] = "resume"
    /\ Goto(t, "run")
    /\ UNCHANGED <<heap, gc_alloc_lock, gc_stw_requested, threads, stacks, pick, left,
                   marked, collects, stored, disturbed>>

Resume(t) ==
    /\ pc[t] = "resume"
    /\ gc_stw_requested' = 0
    /\ marked' = {}
    /\ Goto(t, "run")
    /\ UNCHANGED <<heap, gc_alloc_lock, threads, stacks, pick, left, collects, stored, disturbed>>
-------------------------------------------------------------------------------
Allocating(t) == \/ AllocBegin(t) \/ Park(t) \/ SpinOver(t) \/ LeaveSafepoint(t)
                 \/ AllocLock(t) \/ Pick(t) \/ Take(t)
Collecting(t) == \/ WaitFor(t) \/ CollectLock(t) \/ MarkOwn(t) \/ MarkOthers(t)
                 \/ Sweep(t) \/ Resume(t)

Next == \E t \in Threads : \/ Mutate(t) \/ SwitchCoro(t) \/ Enter(t) \/ Exit(t)
                           \/ Allocating(t) \/ Ask(t) \/ Collecting(t)

Spec == Init /\ [][Next]_vars

\* A registered thread allocates again and again (the header of gc.qela names
\* the thread that does not as a known limit), the collector is not stopped,
\* and a spin that looks again and again is not always a moment too late.
FairSpec ==
    /\ Spec
    /\ \A t \in Threads : WF_vars(Allocating(t)) /\ SF_vars(AllocLock(t))
    /\ \A t \in Collectors : SF_vars(Collecting(t))
-------------------------------------------------------------------------------
(* Properties                                                              *)

TypeOK ==
    /\ used \subseteq Blocks /\ free \subseteq Blocks /\ used \cap free = {}
    /\ ptr \in [Blocks -> Words] /\ data \in Words
    /\ gc_live \in 0 .. Cardinality(Blocks)
    /\ gc_alloc_lock \in 0 .. 1 /\ gc_stw_requested \in 0 .. 1
    /\ active \in [Threads -> BOOLEAN] /\ at_safepoint \in [Threads -> BOOLEAN]
    /\ saved \in [Threads -> Words] /\ root \in [Threads -> Words]
    /\ parked_root \in [Threads -> Words] /\ pick \in [Threads -> Words]
    /\ left \in [Threads -> SUBSET Threads] /\ marked \subseteq Blocks

\* Everything the program can get at: from a stack, running or parked, or
\* from the data segment, through the words it stored in blocks.
Roots == {root[t] : t \in Threads} \cup {parked_root[t] : t \in Threads} \cup {data}
Reachable == From(Roots, stored)

\* gc.qela: "any machine word that looks like a pointer into the heap keeps
\* its block alive": what the program can reach is never on the free list.
NoDangling == Reachable \subseteq used

\* The same for as long as every thread that was asked to stop had left the
\* safepoint before and was registered before.
StoppedKeepsAll == disturbed = {} => NoDangling

\* Nobody moves a pointer while roots are read: a registered thread is at its
\* safepoint whenever somebody marks or sweeps.
WorldStopped ==
    disturbed = {} =>
        \A c \in Threads : pc[c] \in {"mark", "others", "sweep"} =>
            \A t \in Threads \ {c} : active[t] => pc[t] = "spin"

\* gc_live is the number of blocks handed out, whoever allocates and collects
\* meanwhile, also when threads were not stopped in time.
LiveCounted == gc_live = Cardinality(used)

\* Stopped in time, a collection takes nothing the program can reach and
\* keeps the books; the free list and the blocks handed out stay apart.
HeapSound == TypeOK /\ StoppedKeepsAll /\ LiveCounted

\* The allocator and the collector together are a store whose allocations and
\* collections are one step each (GcSpec): no two threads are handed the same
\* block, none that a sweep took while the program could get at it, and none
\* is refused while a block is left, however picks, marks and sweeps of
\* several threads interleave.
Abs == INSTANCE GcSpec WITH late <- disturbed # {}
Promise == Abs!Spec

\* Every allocation and every collection comes to its end: nobody is left
\* behind at a safepoint, waiting for one, or at the lock.
AllEnd == \A t \in Threads : pc[t] # "run" ~> pc[t] = "run"

\* gc.qela above gc_safepoint: it is called "from every point a thread might
\* sit idle for a while"; so a registered thread that is asked to stop comes
\* to its safepoint, unless it leaves or the request is over first.
AskedPark ==
    \A t \in Threads : gc_stw_requested = 1 /\ active[t]
        ~> at_safepoint[t] \/ ~active[t] \/ gc_stw_requested = 0
===============================================================================
