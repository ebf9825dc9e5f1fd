-------------------------------- MODULE GcProofs --------------------------------
(***************************************************************************)
(* Theorems about Gc: the books of the heap for any threads and any number *)
(* of collectors; and, where one thread collects and only it runs          *)
(* coroutines, that every thread stopped in time is stopped while roots    *)
(* are read, that nothing the program can reach is then swept, and that    *)
(* allocator and collector together are the store of GcSpec.               *)
(***************************************************************************)
EXTENDS Gc, TLAPS, FiniteSetTheorems

(* The books                                                               *)

Places == {"run", "save", "spin", "leave", "lock", "pick", "take",
           "wait", "mark", "others", "sweep", "resume"}

\* TypeOK but for the range of gc_live, with the threads' control.
GcTypes ==
    /\ used \subseteq Blocks /\ free \subseteq Blocks /\ used \cap free = {}
    /\ ptr \in [Blocks -> Words] /\ data \in Words
    /\ gc_alloc_lock \in 0 .. 1 /\ gc_stw_requested \in 0 .. 1
    /\ active \in [Threads -> BOOLEAN] /\ at_safepoint \in [Threads -> BOOLEAN]
    /\ saved \in [Threads -> Words] /\ root \in [Threads -> Words]
    /\ parked_root \in [Threads -> Words] /\ pick \in [Threads -> Words]
    /\ left \in [Threads -> SUBSET Threads] /\ marked \subseteq Blocks
    /\ pc \in [Threads -> Places] /\ stored \subseteq Blocks

\* Inside gc_alloc_lock: choosing a block, or marking and sweeping.
Inside(t) == pc[t] \in {"pick", "take", "mark", "others", "sweep"}

LockHeld ==
    \A t \in Threads : Inside(t) =>
        /\ gc_alloc_lock = 1
        /\ \A u \in Threads : Inside(u) => u = t

\* What the lock protects: the block chosen is still free, there is still none
\* if there was none, and nothing is marked that is not in use.
BooksKept ==
    /\ LiveCounted
    /\ \A t \in Threads : pc[t] = "take" =>
          pick[t] \notin used /\ (pick[t] = Nil => used = Blocks)
    /\ \A t \in Threads : pc[t] \in {"mark", "others", "sweep"} => marked \subseteq used

BooksInv == GcTypes /\ LockHeld /\ BooksKept

LEMMA BooksInit == Init => BooksInv
<1> SUFFICES ASSUME Init PROVE BooksInv
    OBVIOUS
<1>1. GcTypes
      BY GcAssumption DEF Init, GcTypes, Words, Places, Nil
<1>2. LockHeld
      BY DEF Init, LockHeld, Inside
<1>3. Cardinality({}) = 0
      BY FS_EmptySet
<1>4. BooksKept
      BY <1>3 DEF Init, BooksKept, LiveCounted
<1> QED BY <1>1, <1>2, <1>4 DEF BooksInv

\* Types are kept by every step.
LEMMA TypesKept ==
    ASSUME BooksInv, [Next]_vars
    PROVE  GcTypes'
<1> USE DEF GcTypes, BooksInv, heap, threads, stacks
<1>1. CASE UNCHANGED vars
      BY <1>1 DEF vars
<1>2. ASSUME NEW t \in Threads, Mutate(t)
      PROVE  GcTypes'
      <2>1. Nil \in Words /\ data \in Words /\ root[t] \in Words
            BY DEF Words
      <2>2. ptr' \in [Blocks -> Words] /\ data' \in Words /\ stored' \subseteq Blocks
            BY <1>2, <2>1 DEF Mutate, Words
      <2>3. root[t] \in stored => ptr[root[t]] \in Words
            OBVIOUS
      <2>4. root' \in [Threads -> Words]
            BY <1>2, <2>1, <2>3 DEF Mutate
      <2> QED BY <1>2, <2>2, <2>4 DEF Mutate
<1>3. ASSUME NEW t \in Threads, SwitchCoro(t) \/ Enter(t) \/ Exit(t)
      PROVE  GcTypes'
      <2>1. CASE SwitchCoro(t)
            BY <2>1 DEF SwitchCoro
      <2>2. CASE Enter(t)
            BY <2>2 DEF Enter
      <2>3. CASE Exit(t)
            BY <2>3 DEF Exit
      <2> QED BY <1>3, <2>1, <2>2, <2>3
<1>4. ASSUME NEW t \in Threads, AllocBegin(t) \/ Park(t) \/ SpinOver(t) \/ LeaveSafepoint(t) \/ AllocLock(t)
      PROVE  GcTypes'
      <2>1. CASE AllocBegin(t)
            BY <2>1 DEF AllocBegin, Goto, Places
      <2>2. CASE Park(t)
            BY <2>2 DEF Park, Goto, Places
      <2>3. CASE SpinOver(t) \/ LeaveSafepoint(t)
            BY ZenonT(40), <2>3 DEF SpinOver, LeaveSafepoint, Goto, Places
      <2>4. CASE AllocLock(t)
            BY <2>4 DEF AllocLock, Goto, Places
      <2> QED BY <1>4, <2>1, <2>2, <2>3, <2>4
<1>5. ASSUME NEW t \in Threads, Pick(t)
      PROVE  GcTypes'
      BY <1>5 DEF Pick, Goto, Places
<1>6. ASSUME NEW t \in Threads, Take(t)
      PROVE  GcTypes'
      <2>1. root' \in [Threads -> Words] /\ pick' \in [Threads -> Words] /\ pc' \in [Threads -> Places]
            BY <1>6 DEF Take, Goto, Places, Words
      <2>2. used' \subseteq Blocks /\ free' \subseteq Blocks /\ used' \cap free' = {}
            BY <1>6 DEF Take, Words
      <2> QED BY <1>6, <2>1, <2>2 DEF Take
<1>7. ASSUME NEW t \in Threads, Ask(t)
      PROVE  GcTypes'
      BY <1>7 DEF Ask, Goto, Places
<1>8. ASSUME NEW t \in Threads, WaitFor(t) \/ CollectLock(t)
      PROVE  GcTypes'
      BY <1>8 DEF WaitFor, CollectLock, Goto, Places
<1>9. ASSUME NEW t \in Threads, MarkOwn(t) \/ MarkOthers(t)
      PROVE  GcTypes'
      BY ZenonT(40), <1>9 DEF MarkOwn, MarkOthers, Reach, Goto, Places
<1>10. ASSUME NEW t \in Threads, Sweep(t)
      PROVE  GcTypes'
      <2>1. marked \subseteq used
            BY <1>10 DEF Sweep, BooksKept
      <2> QED BY <1>10, <2>1 DEF Sweep, Goto, Places
<1>11. ASSUME NEW t \in Threads, Resume(t)
      PROVE  GcTypes'
      BY <1>11 DEF Resume, Goto, Places
<1> QED BY <1>1, <1>2, <1>3, <1>4, <1>5, <1>6, <1>7, <1>8, <1>9, <1>10, <1>11
        DEF Next, Allocating, Collecting

\* gc_alloc_lock keeps two threads from being inside.
LEMMA LockKept ==
    ASSUME BooksInv, [Next]_vars
    PROVE  LockHeld'
<1> USE DEF LockHeld, Inside, BooksInv, GcTypes
<1>1. ASSUME UNCHANGED <<pc, gc_alloc_lock>>
      PROVE  LockHeld'
      BY <1>1
<1>2. ASSUME NEW t \in Threads, AllocLock(t) \/ CollectLock(t)
      PROVE  LockHeld'
      BY <1>2 DEF AllocLock, CollectLock, Goto
<1>3. ASSUME NEW t \in Threads, Take(t) \/ Sweep(t)
      PROVE  LockHeld'
      BY <1>3 DEF Take, Sweep, Goto
<1>4. ASSUME NEW t \in Threads, Pick(t) \/ MarkOwn(t) \/ MarkOthers(t)
      PROVE  LockHeld'
      BY <1>4 DEF Pick, MarkOwn, MarkOthers, Goto
<1>5. ASSUME NEW t \in Threads,
             AllocBegin(t) \/ Park(t) \/ SpinOver(t) \/ LeaveSafepoint(t) \/ Ask(t) \/ Resume(t)
      PROVE  LockHeld'
      BY <1>5 DEF AllocBegin, Park, SpinOver, LeaveSafepoint, Ask, Resume, Goto
<1> QED BY <1>1, <1>2, <1>3, <1>4, <1>5
        DEF Next, Allocating, Collecting, vars, Mutate, SwitchCoro, Enter, Exit, WaitFor

\* The count, the chosen block and the marks.
LEMMA BooksStay ==
    ASSUME BooksInv, [Next]_vars
    PROVE  BooksKept'
<1> USE DEF BooksKept, BooksInv, GcTypes
<1>0. IsFiniteSet(used)
      BY GcAssumption, FS_Subset DEF GcAssumption
<1>1. ASSUME UNCHANGED <<used, gc_live, pc, pick, marked>>
      PROVE  BooksKept'
      BY <1>1 DEF LiveCounted
<1>2. ASSUME NEW t \in Threads, Pick(t)
      PROVE  BooksKept'
      <2>1. pick'[t] \notin used
            BY <1>2, GcAssumption DEF Pick, Fresh, Words, GcAssumption
      <2>3. ASSUME pick'[t] = Nil PROVE used = Blocks
            <3>1. Nil \notin Blocks
                  BY GcAssumption DEF GcAssumption
            <3>2. free = {} /\ Nil \in Fresh
                  BY <1>2, <2>3, <3>1 DEF Pick
            <3> QED BY <3>1, <3>2 DEF Fresh
      <2>2. \A u \in Threads \ {t} : pc'[u] = pc[u] /\ pick'[u] = pick[u]
            BY <1>2 DEF Pick, Goto
      <2> QED BY <1>2, <2>1, <2>2, <2>3 DEF Pick, Goto, LiveCounted, heap
<1>3. ASSUME NEW t \in Threads, Take(t)
      PROVE  BooksKept'
      <2>1. pick[t] \notin used
            BY <1>3 DEF Take
      <2>2. \A u \in Threads : pc'[u] \notin {"take", "mark", "others", "sweep"}
            BY <1>3 DEF Take, Goto, LockHeld, Inside
      <2>3. CASE pick[t] = Nil
            BY <1>3, <2>2, <2>3 DEF Take, LiveCounted
      <2>4. CASE pick[t] # Nil
            <3>1. Cardinality(used \cup {pick[t]}) = Cardinality(used) + 1
                  BY <1>0, <2>1, FS_AddElement
            <3> QED BY <1>3, <2>2, <2>4, <3>1 DEF Take, LiveCounted
      <2> QED BY <2>3, <2>4
<1>4. ASSUME NEW t \in Threads, MarkOwn(t) \/ MarkOthers(t)
      PROVE  BooksKept'
      <2>1. marked' \subseteq used
            BY <1>4 DEF MarkOwn, MarkOthers, Reach
      <2> QED BY <1>4, <2>1 DEF MarkOwn, MarkOthers, Goto, LiveCounted, heap, Reach
<1>5. ASSUME NEW t \in Threads, Sweep(t)
      PROVE  BooksKept'
      <2>1. \A u \in Threads : pc'[u] \notin {"take", "mark", "others", "sweep"}
            BY <1>5 DEF Sweep, Goto, LockHeld, Inside
      <2> QED BY <1>5, <2>1 DEF Sweep, LiveCounted
<1>6. ASSUME NEW t \in Threads, CollectLock(t) \/ Resume(t)
      PROVE  BooksKept'
      BY <1>6 DEF CollectLock, Resume, Goto, LiveCounted, heap
<1>7. ASSUME NEW t \in Threads,
             AllocBegin(t) \/ Park(t) \/ SpinOver(t) \/ LeaveSafepoint(t) \/ AllocLock(t) \/ Ask(t)
      PROVE  BooksKept'
      BY <1>7 DEF AllocBegin, Park, SpinOver, LeaveSafepoint, AllocLock, Ask, Goto, LiveCounted, heap
<1> QED BY <1>1, <1>2, <1>3, <1>4, <1>5, <1>6, <1>7
        DEF Next, Allocating, Collecting, vars, heap, Mutate, SwitchCoro, Enter, Exit, WaitFor

\* The heap's books hold in every reachable state, however many threads
\* allocate and collect and whether or not they were stopped in time.
THEOREM GcBooks == Spec => []BooksInv
<1>1. BooksInv /\ [Next]_vars => BooksInv'
      BY TypesKept, LockKept, BooksStay DEF BooksInv
<1> QED BY <1>1, BooksInit, PTL DEF Spec
-------------------------------------------------------------------------------
(* The world stopped, where one thread collects                            *)

\* Two collections at a time wait for each other (gc.qela:277), and parked
\* coroutines are only scanned on the thread that collects (gc.qela:317).
OneCollector ==
    /\ \A c, d \in Collectors : c = d
    /\ CoroThreads \subseteq Collectors

Collects(t) == pc[t] \in {"wait", "mark", "others", "sweep", "resume"}
Marks(t)    == pc[t] \in {"mark", "others", "sweep"}

\* What a thread's place says of it: a thread at its safepoint saved what it
\* still has, and one that is not registered holds nothing.
Roles ==
    /\ \A t \in Threads : Collects(t) => t \in Collectors
    /\ \A t \in Threads : at_safepoint[t] <=> pc[t] \in {"spin", "leave"}
    /\ \A t \in Threads : pc[t] = "spin" => saved[t] = root[t]
    /\ \A t \in Threads \ Collectors :
          /\ parked_root[t] = Nil
          /\ ~active[t] => pc[t] = "run" /\ root[t] = Nil

\* While somebody collects the request stands, and undisturbed everyone else
\* is stopped, gone, or still waited for.
Asked ==
    \A c \in Threads : Collects(c) =>
        /\ gc_stw_requested = 1
        /\ pc[c] # "wait" => left[c] = {}
        /\ disturbed = {} =>
              \A t \in Threads \ {c} :
                  /\ pc[t] # "leave"
                  /\ t \in left[c] \/ ~active[t] \/ pc[t] = "spin"

StoppedInv == BooksInv /\ Roles /\ Asked

LEMMA StoppedInit == Init => Roles /\ Asked
BY DEF Init, Roles, Asked, Collects

\* A thread's place, its safepoint flag and what it saved change together.
LEMMA RolesKept ==
    ASSUME OneCollector, StoppedInv, [Next]_vars
    PROVE  Roles'
<1> USE DEF Roles, StoppedInv, BooksInv, GcTypes, Collects
<1>1. CASE UNCHANGED vars
      BY <1>1 DEF vars, threads, stacks
<1>2. ASSUME NEW t \in Threads, Mutate(t)
      PROVE  Roles'
      BY <1>2 DEF Mutate, threads
<1>3. ASSUME NEW t \in Threads, SwitchCoro(t)
      PROVE  Roles'
      BY <1>3 DEF SwitchCoro, threads, OneCollector
<1>4. ASSUME NEW t \in Threads, Enter(t)
      PROVE  Roles'
      BY <1>4 DEF Enter, stacks
<1>5. ASSUME NEW t \in Threads, Exit(t)
      PROVE  Roles'
      BY <1>5 DEF Exit, stacks
<1>6. ASSUME NEW t \in Threads, AllocBegin(t)
      PROVE  Roles'
      BY <1>6 DEF AllocBegin, Goto, threads, stacks
<1>7. ASSUME NEW t \in Threads, Park(t)
      PROVE  Roles'
      BY <1>7 DEF Park, Goto, stacks
<1>8. ASSUME NEW t \in Threads, SpinOver(t)
      PROVE  Roles'
      BY <1>8 DEF SpinOver, Goto, threads, stacks
<1>9. ASSUME NEW t \in Threads, LeaveSafepoint(t)
      PROVE  Roles'
      BY <1>9 DEF LeaveSafepoint, Goto, stacks
<1>10. ASSUME NEW t \in Threads, AllocLock(t)
       PROVE  Roles'
      BY <1>10 DEF AllocLock, Goto, threads, stacks
<1>11. ASSUME NEW t \in Threads, Pick(t)
       PROVE  Roles'
      BY <1>11 DEF Pick, Goto, threads, stacks
<1>12. ASSUME NEW t \in Threads, Take(t)
       PROVE  Roles'
      BY <1>12 DEF Take, Goto, threads
<1>13. ASSUME NEW t \in Threads, Ask(t)
       PROVE  Roles'
      BY <1>13 DEF Ask, Goto, threads, stacks
<1>14. ASSUME NEW t \in Threads, WaitFor(t)
       PROVE  Roles'
      BY <1>14 DEF WaitFor, threads, stacks
<1>15. ASSUME NEW t \in Threads, CollectLock(t) \/ MarkOwn(t) \/ MarkOthers(t) \/ Sweep(t) \/ Resume(t)
       PROVE  Roles'
      BY <1>15 DEF CollectLock, MarkOwn, MarkOthers, Sweep, Resume, Goto, threads, stacks
<1> QED BY <1>1, <1>2, <1>3, <1>4, <1>5, <1>6, <1>7, <1>8, <1>9, <1>10, <1>11, <1>12, <1>13,
           <1>14, <1>15 DEF Next, Allocating, Collecting

\* Nobody who was stopped goes on, and the wait skips nobody.
LEMMA AskedKept ==
    ASSUME OneCollector, StoppedInv, [Next]_vars
    PROVE  Asked'
<1> USE DEF Asked, StoppedInv, BooksInv, GcTypes, Collects
<1>1. CASE UNCHANGED vars
      BY <1>1 DEF vars, threads
<1>2. ASSUME NEW t \in Threads, Mutate(t) \/ SwitchCoro(t)
      PROVE  Asked'
      BY <1>2 DEF Mutate, SwitchCoro, threads
<1>3. ASSUME NEW t \in Threads, Enter(t)
      PROVE  Asked'
      BY <1>3 DEF Enter
<1>4. ASSUME NEW t \in Threads, Exit(t)
      PROVE  Asked'
      BY <1>4 DEF Exit
<1>5. ASSUME NEW t \in Threads, AllocBegin(t)
      PROVE  Asked'
      BY <1>5 DEF AllocBegin, Goto, threads, Roles, OneCollector
<1>6. ASSUME NEW t \in Threads, Park(t)
      PROVE  Asked'
      BY <1>6 DEF Park, Goto
<1>7. ASSUME NEW t \in Threads, SpinOver(t)
      PROVE  Asked'
      BY <1>7 DEF SpinOver, Goto, threads
<1>8. ASSUME NEW t \in Threads, LeaveSafepoint(t)
      PROVE  Asked'
      BY <1>8 DEF LeaveSafepoint, Goto
<1>9. ASSUME NEW t \in Threads, AllocLock(t) \/ Pick(t)
      PROVE  Asked'
      BY <1>9 DEF AllocLock, Pick, Goto, threads
<1>10. ASSUME NEW t \in Threads, Take(t)
       PROVE  Asked'
      BY <1>10 DEF Take, Goto, threads
<1>11. ASSUME NEW t \in Threads, Ask(t)
       PROVE  Asked'
      BY <1>11 DEF Ask, Goto, threads, Roles, OneCollector
<1>12. ASSUME NEW t \in Threads, WaitFor(t)
       PROVE  Asked'
      <2> DEFINE u == CHOOSE x \in left[t] : \A y \in left[t] : x <= y
      <2>1. /\ pc[t] = "wait"
            /\ ~active[u] \/ u = t \/ at_safepoint[u]
            /\ left' = [left EXCEPT ![t] = @ \ {u}]
            /\ UNCHANGED <<gc_stw_requested, active, at_safepoint, pc, disturbed>>
            BY <1>12 DEF WaitFor, threads
      <2>2. \A c \in Threads : Collects(c) => c = t
            BY <2>1 DEF Roles, OneCollector
      <2> HIDE DEF u
      <2>3. disturbed = {} /\ u \in Threads \ {t} => ~active[u] \/ pc[u] = "spin"
            BY <2>1 DEF Roles
      <2>4. left'[t] = left[t] \ {u}
            BY <2>1
      <2> QED BY <2>1, <2>2, <2>3, <2>4
<1>13. ASSUME NEW t \in Threads, CollectLock(t)
       PROVE  Asked'
      BY <1>13 DEF CollectLock, Goto, threads
<1>14. ASSUME NEW t \in Threads, MarkOwn(t) \/ MarkOthers(t) \/ Sweep(t)
       PROVE  Asked'
      BY <1>14 DEF MarkOwn, MarkOthers, Sweep, Goto, threads
<1>15. ASSUME NEW t \in Threads, Resume(t)
       PROVE  Asked'
      BY <1>15 DEF Resume, Goto, threads, Roles, OneCollector
<1> QED BY <1>1, <1>2, <1>3, <1>4, <1>5, <1>6, <1>7, <1>8, <1>9, <1>10, <1>11, <1>12, <1>13,
           <1>14, <1>15 DEF Next, Allocating, Collecting

LEMMA StoppedStep ==
    ASSUME OneCollector, StoppedInv, [Next]_vars
    PROVE  StoppedInv'
BY TypesKept, LockKept, BooksStay, RolesKept, AskedKept DEF StoppedInv, BooksInv

\* Whoever was asked in time stands at its safepoint for as long as roots are
\* read and blocks swept, if one thread collects.
THEOREM GcStops ==
    ASSUME OneCollector
    PROVE  Spec => []WorldStopped
<1>1. Init => StoppedInv
      BY BooksInit, StoppedInit DEF StoppedInv
<1>2. StoppedInv /\ [Next]_vars => StoppedInv'
      BY StoppedStep
<1>3. StoppedInv => WorldStopped
      BY DEF StoppedInv, Asked, WorldStopped, Collects
<1> QED BY <1>1, <1>2, <1>3, PTL DEF Spec
-------------------------------------------------------------------------------
(* Nothing reachable is swept                                              *)

\* Undisturbed, what the program reaches is in use; the collector has marked
\* what its own roots reach when it turns to the others, and all the program
\* reaches when it sweeps.
Kept ==
    disturbed = {} =>
        /\ NoDangling
        /\ \A c \in Threads :
              /\ pc[c] = "others" => Reach({root[c], data}) \subseteq marked
              /\ pc[c] = "sweep" => Reachable \subseteq marked

\* Marking comes to rest where it must.
LEMMA FromRests ==
    ASSUME GcTypes, NEW words \in SUBSET Words, NEW follow
    PROVE  /\ From(words, follow) \subseteq Blocks
           /\ Settled(From(words, follow), words, follow)
<1>1. Settled(Blocks, words, follow)
      BY DEF Settled, GcTypes, Words
<1>2. From(words, follow) \subseteq Blocks
      BY DEF From
<1>3. words \ {Nil} \subseteq From(words, follow)
      BY <1>1 DEF From, Settled
<1>4. ASSUME NEW b \in From(words, follow) \cap follow, ptr[b] # Nil
      PROVE  ptr[b] \in From(words, follow)
      <2>1. ptr[b] \in Blocks
            BY <1>2, <1>4 DEF GcTypes, Words
      <2>2. ASSUME NEW marks \in SUBSET Blocks, Settled(marks, words, follow)
            PROVE  ptr[b] \in marks
            <3>1. b \in marks
                  BY <2>2 DEF From
            <3> QED BY <1>4, <2>2, <3>1 DEF Settled
      <2> QED BY <2>1, <2>2 DEF From
<1> QED BY <1>2, <1>3, <1>4 DEF Settled

LEMMA RootsAreWords ==
    ASSUME GcTypes
    PROVE  Roots \subseteq Words
BY DEF GcTypes, Roots

\* What is reachable includes the roots and what is stored in the reachable.
LEMMA ReachableRests ==
    ASSUME GcTypes
    PROVE  Reachable \subseteq Blocks /\ Settled(Reachable, Roots, stored)
BY FromRests, RootsAreWords DEF Reachable

\* ... and nothing besides.
LEMMA ReachableLeast ==
    ASSUME NEW S, S \subseteq Blocks, Settled(S, Roots, stored)
    PROVE  Reachable \subseteq S
BY DEF Reachable, From

LEMMA ReachableLeastNext ==
    ASSUME NEW S, S \subseteq Blocks, Settled(S, Roots, stored)'
    PROVE  Reachable' \subseteq S
BY DEF Reachable, From

\* While roots are read or blocks swept nobody but the collector takes a
\* step, unless it is a registration, which disturbs.
LEMMA Alone ==
    ASSUME OneCollector, StoppedInv, disturbed = {},
           NEW c \in Threads, Marks(c), NEW t \in Threads \ {c},
           \/ Mutate(t) \/ SwitchCoro(t) \/ Enter(t) \/ Exit(t)
           \/ Allocating(t) \/ Ask(t) \/ Collecting(t)
    PROVE  disturbed' # {}
<1>1. t \notin Collectors /\ gc_stw_requested = 1
      BY DEF StoppedInv, Roles, Asked, Marks, Collects, OneCollector
<1>2. pc[t] = "spin" \/ (~active[t] /\ pc[t] = "run")
      BY <1>1 DEF StoppedInv, Roles, Asked, Marks, Collects
<1>3. CASE Enter(t)
      BY <1>1, <1>3 DEF Enter
<1>4. CASE Mutate(t) \/ SwitchCoro(t) \/ Exit(t) \/ AllocBegin(t) \/ Ask(t)
      BY <1>1, <1>2, <1>4 DEF Mutate, SwitchCoro, Exit, AllocBegin, Ask, OneCollector
<1>5. CASE Park(t) \/ SpinOver(t) \/ LeaveSafepoint(t) \/ AllocLock(t) \/ Pick(t) \/ Take(t)
      BY <1>1, <1>2, <1>5 DEF Park, SpinOver, LeaveSafepoint, AllocLock, Pick, Take
<1>6. CASE Collecting(t)
      BY <1>2, <1>6 DEF Collecting, WaitFor, CollectLock, MarkOwn, MarkOthers, Sweep, Resume
<1> QED BY <1>3, <1>4, <1>5, <1>6 DEF Allocating

\* What the program does makes nothing reachable that was not.
LEMMA MutateReaches ==
    ASSUME BooksInv, NEW t \in Threads, Mutate(t)
    PROVE  Reachable' \subseteq Reachable
<1> USE DEF BooksInv, GcTypes
<1>1. PICK R : R = Reachable
      OBVIOUS
<1>2. R \subseteq Blocks /\ Settled(R, Roots, stored)
      BY <1>1, ReachableRests
<1>3. /\ data \in R \cup {Nil}
      /\ \A u \in Threads : root[u] \in R \cup {Nil} /\ parked_root[u] \in R \cup {Nil}
      BY <1>2 DEF Settled, Roots
<1>4. root[t] \in stored => ptr[root[t]] \in R \cup {Nil}
      BY <1>2, <1>3, GcAssumption DEF Settled, GcAssumption
<1>5. Roots' \ {Nil} \subseteq R
      <2>1. data' \in R \cup {Nil} /\ root'[t] \in R \cup {Nil}
            BY <1>3, <1>4 DEF Mutate
      <2>2. \A u \in Threads \ {t} : root'[u] = root[u]
            BY DEF Mutate
      <2>3. parked_root' = parked_root
            BY DEF Mutate
      <2> QED BY <1>3, <2>1, <2>2, <2>3 DEF Roots
<1>6. ASSUME NEW b \in R \cap stored'
      PROVE  ptr'[b] \in R \cup {Nil}
      <2>1. b \in stored => ptr[b] \in R \cup {Nil}
            BY <1>2, <1>6 DEF Settled
      <2>2. \/ ptr' = ptr /\ stored' = stored
            \/ ptr' = [ptr EXCEPT ![root[t]] = data] /\ stored' = stored \cup {root[t]}
            BY DEF Mutate
      <2> QED BY <1>2, <1>3, <1>6, <2>1, <2>2
<1>7. Settled(R, Roots, stored)'
      BY <1>5, <1>6 DEF Settled
<1> QED BY <1>1, <1>2, <1>7, ReachableLeastNext

\* The running and the parked context change places.
LEMMA SwitchReaches ==
    ASSUME BooksInv, NEW t \in Threads, SwitchCoro(t)
    PROVE  Reachable' \subseteq Reachable
<1> USE DEF BooksInv, GcTypes
<1>1. PICK R : R = Reachable
      OBVIOUS
<1>2. R \subseteq Blocks /\ Settled(R, Roots, stored)
      BY <1>1, ReachableRests
<1>3. Roots' \subseteq Roots
      <2>1. \A u \in Threads : root'[u] \in Roots /\ parked_root'[u] \in Roots
            BY DEF SwitchCoro, Roots
      <2>2. data' \in Roots
            BY DEF SwitchCoro, heap, Roots
      <2> QED BY <2>1, <2>2 DEF Roots
<1>4. Settled(R, Roots, stored)'
      BY <1>2, <1>3 DEF Settled, SwitchCoro, heap
<1> QED BY <1>1, <1>2, <1>4, ReachableLeastNext

\* A block handed out is reached by itself and, until the program stores in
\* it, leads nowhere.
LEMMA TakeReaches ==
    ASSUME BooksInv, NEW t \in Threads, Take(t)
    PROVE  Reachable' \subseteq Reachable \cup ({pick[t]} \ {Nil})
<1> USE DEF BooksInv, GcTypes
<1>1. PICK R : R = Reachable
      OBVIOUS
<1>2. R \subseteq Blocks /\ Settled(R, Roots, stored)
      BY <1>1, ReachableRests
<1>3. PICK b : b = pick[t]
      OBVIOUS
<1>4. b \in Words
      BY <1>3
<1>5. PICK S : S = R \cup ({b} \ {Nil})
      OBVIOUS
<1>6. S \subseteq Blocks
      BY <1>2, <1>4, <1>5 DEF Words
<1>7. /\ data \in R \cup {Nil}
      /\ \A u \in Threads : root[u] \in R \cup {Nil} /\ parked_root[u] \in R \cup {Nil}
      BY <1>2 DEF Settled, Roots
<1>8. Roots' \ {Nil} \subseteq S
      <2>1. \A u \in Threads : root'[u] \in S \cup {Nil} /\ parked_root'[u] \in S \cup {Nil}
            BY <1>3, <1>5, <1>7 DEF Take
      <2>2. data' \in S \cup {Nil}
            BY <1>5, <1>7 DEF Take
      <2> QED BY <2>1, <2>2 DEF Roots
<1>9. \A x \in S \cap stored' : ptr'[x] \in S \cup {Nil}
      BY <1>2, <1>3, <1>5 DEF Take, Settled
<1>10. Settled(S, Roots, stored)'
      BY <1>8, <1>9 DEF Settled
<1> QED BY <1>1, <1>3, <1>5, <1>6, <1>10, ReachableLeastNext

\* Marking from all the roots, over blocks in use, comes to everything the
\* program reaches, for nothing it reaches is free.
LEMMA TwoMarkings ==
    ASSUME BooksInv, NoDangling, NEW A \in SUBSET Words, NEW B \in SUBSET Words,
           Roots \ {Nil} \subseteq A \cup B
    PROVE  Reachable \subseteq Reach(A) \cup Reach(B)
<1> USE DEF BooksInv, GcTypes
<1>1. Reachable \subseteq Blocks /\ Settled(Reachable, Roots, stored)
      BY ReachableRests
<1>2. /\ Settled(From(A, used), A, used) /\ Settled(From(B, used), B, used)
      BY FromRests
<1>3. Reachable \subseteq used
      BY DEF NoDangling
<1> DEFINE S == Reachable \cap (Reach(A) \cup Reach(B))
<1>4. Roots \ {Nil} \subseteq S
      BY <1>1, <1>2, <1>3 DEF Settled, Reach
<1>5. ASSUME NEW b \in S \cap stored, ptr[b] # Nil
      PROVE  ptr[b] \in S
      <2>1. ptr[b] \in Reachable
            BY <1>1, <1>5 DEF Settled
      <2>2. b \in used /\ (b \in From(A, used) \/ b \in From(B, used))
            BY <1>5 DEF Reach
      <2>3. ptr[b] \in From(A, used) \/ ptr[b] \in From(B, used)
            BY <1>2, <1>5, <2>2 DEF Settled
      <2> QED BY <1>3, <2>1, <2>3 DEF Reach
<1>6. Settled(S, Roots, stored) /\ S \subseteq Blocks
      BY <1>1, <1>4, <1>5 DEF Settled
<1> QED BY <1>6, ReachableLeast

\* What the collector marks of the others is what they have: they saved it
\* when they stopped, and who is not registered has nothing.
LEMMA OthersSaved ==
    ASSUME OneCollector, StoppedInv, disturbed = {}, NEW c \in Threads, Marks(c)
    PROVE  Roots \ {Nil} \subseteq {root[c], data}
               \cup ({saved[u] : u \in {v \in Threads \ {c} : active[v]}} \cup {parked_root[c]})
<1> USE DEF StoppedInv, Roles, Asked, Marks, Collects
<1>1. \A t \in Threads \ {c} : t \notin Collectors
      BY DEF OneCollector
<1>2. \A t \in Threads \ {c} : parked_root[t] = Nil /\ (active[t] => saved[t] = root[t])
      BY <1>1
<1>3. \A t \in Threads \ {c} : active[t] \/ root[t] = Nil
      BY <1>1
<1> QED BY <1>2, <1>3 DEF Roots

LEMMA KeptInit == Init => Kept
<1> SUFFICES ASSUME Init PROVE Kept
    OBVIOUS
<1>1. BooksInv
      BY BooksInit
<1>2. Settled({}, Roots, stored)
      BY DEF Init, Settled, Roots
<1>3. Reachable \subseteq {}
      BY <1>2, ReachableLeast
<1> QED BY <1>3 DEF Init, Kept, NoDangling

LEMMA KeptStays ==
    ASSUME OneCollector, StoppedInv, Kept, [Next]_vars
    PROVE  Kept'
<1> SUFFICES ASSUME disturbed' = {} PROVE Kept'
    BY DEF Kept
<1> USE DEF StoppedInv, BooksInv, GcTypes
<1>1. disturbed = {}
      BY ZenonT(40) DEF Next, Allocating, Collecting, vars, Mutate, SwitchCoro, Enter, Exit, AllocBegin, Park,
             SpinOver, LeaveSafepoint, AllocLock, Pick, Take, Ask, WaitFor, CollectLock,
             MarkOwn, MarkOthers, Sweep, Resume
<1>2. NoDangling /\ Reachable \subseteq used
      BY <1>1 DEF Kept, NoDangling
<1>3. ASSUME UNCHANGED <<root, parked_root, data, ptr, stored>>
      PROVE  Reachable' = Reachable
      BY <1>3 DEF Reachable, From, Settled, Roots
<1>4. CASE UNCHANGED vars
      <2>1. Reachable' = Reachable
            BY <1>3, <1>4 DEF vars, heap, stacks
      <2>2. \A words : Reach(words)' = Reach(words)
            BY <1>4 DEF vars, heap, Reach, From, Settled
      <2>3. UNCHANGED <<used, pc, root, data, marked>>
            BY <1>4 DEF vars, heap, stacks
      <2> QED BY <1>1, <2>1, <2>2, <2>3 DEF Kept, NoDangling
<1>5. ASSUME NEW t \in Threads, MarkOwn(t)
      PROVE  Kept'
      <2>1. pc[t] = "mark" /\ pc' = [pc EXCEPT ![t] = "others"] /\ marked' = marked \cup Reach({root[t], data})
            BY <1>5 DEF MarkOwn, Goto
      <2>2. \A u \in Threads : pc'[u] \in {"others", "sweep"} => u = t
            BY <2>1 DEF LockHeld, Inside
      <2>3. Reach({root[t], data})' = Reach({root[t], data}) /\ Reachable' = Reachable /\ used' = used
            BY <1>3, <1>5 DEF MarkOwn, heap, stacks, Reach, From, Settled
      <2> QED BY <1>2, <2>1, <2>2, <2>3 DEF Kept, NoDangling
<1>6. ASSUME NEW t \in Threads, MarkOthers(t)
      PROVE  Kept'
      <2> DEFINE rest == {saved[u] : u \in {v \in Threads \ {t} : active[v]}} \cup {parked_root[t]}
      <2>1. /\ pc[t] = "others" /\ pc' = [pc EXCEPT ![t] = "sweep"]
            /\ marked' = marked \cup Reach(rest)
            BY <1>6 DEF MarkOthers, Goto
      <2>2. \A u \in Threads : pc'[u] \in {"others", "sweep"} => u = t
            BY <2>1 DEF LockHeld, Inside
      <2>3. Reachable' = Reachable /\ used' = used
            BY <1>3, <1>6 DEF MarkOthers, heap, stacks
      <2>4. Reach({root[t], data}) \subseteq marked
            BY <1>1, <2>1 DEF Kept
      <2>5. Roots \ {Nil} \subseteq {root[t], data} \cup rest
            BY <1>1, <2>1, OthersSaved DEF Marks
      <2>6. Reachable \subseteq Reach({root[t], data}) \cup Reach(rest)
            BY <1>2, <2>5, TwoMarkings
      <2> QED BY <1>2, <2>1, <2>2, <2>3, <2>4, <2>6 DEF Kept, NoDangling
<1>7. ASSUME NEW t \in Threads, Sweep(t)
      PROVE  Kept'
      <2>1. \A u \in Threads : pc'[u] \notin {"others", "sweep"}
            BY <1>7 DEF Sweep, Goto, LockHeld, Inside
      <2>2. Reachable' = Reachable /\ used' = marked
            BY <1>3, <1>7 DEF Sweep, stacks
      <2>3. Reachable \subseteq marked
            BY <1>1, <1>7 DEF Kept, Sweep
      <2> QED BY <2>1, <2>2, <2>3 DEF Kept, NoDangling
<1>8. ASSUME \A c \in Threads : ~Marks(c), NEW t \in Threads,
             \/ Mutate(t) \/ SwitchCoro(t) \/ Enter(t) \/ Exit(t)
             \/ Allocating(t) \/ Ask(t) \/ WaitFor(t) \/ CollectLock(t) \/ Resume(t)
      PROVE  Kept'
      <2>1. \A c \in Threads : pc'[c] \notin {"others", "sweep"}
            BY <1>8 DEF Marks, Goto, Mutate, SwitchCoro, Enter, Exit, Allocating, AllocBegin, Park,
               SpinOver, LeaveSafepoint, AllocLock, Pick, Take, Ask, WaitFor, CollectLock, Resume
      <2>2. Reachable' \subseteq used'
            <3>1. CASE Mutate(t)
                  BY <1>2, <3>1, MutateReaches DEF Mutate
            <3>2. CASE SwitchCoro(t)
                  BY <1>2, <3>2, SwitchReaches DEF SwitchCoro, heap
            <3>3. CASE Take(t)
                  <4>1. Reachable' \subseteq Reachable \cup ({pick[t]} \ {Nil})
                        BY <3>3, TakeReaches
                  <4> QED BY <1>2, <3>3, <4>1 DEF Take
            <3>4. CASE Enter(t) \/ Exit(t) \/ Ask(t) \/ WaitFor(t) \/ CollectLock(t) \/ Resume(t)
                  BY <1>2, <1>3, <3>4 DEF Enter, Exit, Ask, WaitFor, CollectLock, Resume, heap, stacks
            <3>5. CASE \/ AllocBegin(t) \/ Park(t) \/ SpinOver(t) \/ LeaveSafepoint(t)
                       \/ AllocLock(t) \/ Pick(t)
                  BY <1>2, <1>3, <3>5 DEF AllocBegin, Park, SpinOver, LeaveSafepoint, AllocLock, Pick,
                     heap, stacks
            <3> QED BY <1>8, <3>1, <3>2, <3>3, <3>4, <3>5 DEF Allocating
      <2> QED BY <2>1, <2>2 DEF Kept, NoDangling
<1>9. ASSUME NEW c \in Threads, Marks(c), NEW t \in Threads,
             \/ Mutate(t) \/ SwitchCoro(t) \/ Enter(t) \/ Exit(t)
             \/ Allocating(t) \/ Ask(t) \/ Collecting(t)
      PROVE  MarkOwn(t) \/ MarkOthers(t) \/ Sweep(t)
      <2>1. t = c
            BY <1>1, <1>9, Alone
      <2> QED BY <1>9, <2>1 DEF Marks, Mutate, SwitchCoro, Enter, Exit, Allocating, AllocBegin, Park,
              SpinOver, LeaveSafepoint, AllocLock, Pick, Take, Ask, Collecting, WaitFor, CollectLock,
              Resume
<1>10. ASSUME \A c \in Threads : ~Marks(c), NEW t \in Threads, Collecting(t)
       PROVE  WaitFor(t) \/ CollectLock(t) \/ Resume(t)
      BY <1>10 DEF Collecting, MarkOwn, MarkOthers, Sweep, Marks
<1> QED BY <1>4, <1>5, <1>6, <1>7, <1>8, <1>9, <1>10 DEF Next

\* If one thread collects and all are stopped in time, no collection takes a
\* block the program can still reach, through any sequence of allocations,
\* stores, switches, registrations and collections; the blocks handed out and
\* the free list stay apart, and the count is right.
THEOREM GcKeeps ==
    ASSUME OneCollector
    PROVE  Spec => []HeapSound
<1>1. Init => StoppedInv /\ Kept
      BY BooksInit, StoppedInit, KeptInit DEF StoppedInv
<1>2. StoppedInv /\ Kept /\ [Next]_vars => (StoppedInv /\ Kept)'
      BY StoppedStep, KeptStays
<1>3. StoppedInv /\ Kept => HeapSound
      <2> SUFFICES ASSUME StoppedInv, Kept PROVE HeapSound
          OBVIOUS
      <2>1. gc_live = Cardinality(used)
            BY DEF StoppedInv, BooksInv, BooksKept, LiveCounted
      <2>2. /\ Cardinality(used) \in Nat /\ Cardinality(Blocks) \in Nat
            /\ Cardinality(used) <= Cardinality(Blocks)
            BY GcAssumption, FS_Subset, FS_CardinalityType DEF StoppedInv, BooksInv, GcTypes, GcAssumption
      <2>3. gc_live \in 0 .. Cardinality(Blocks)
            BY <2>1, <2>2
      <2>4. TypeOK
            BY <2>3 DEF TypeOK, StoppedInv, BooksInv, GcTypes
      <2> QED BY <2>1, <2>4 DEF HeapSound, Kept, StoppedKeepsAll, LiveCounted
<1> QED BY <1>1, <1>2, <1>3, PTL DEF Spec

-------------------------------------------------------------------------------
(* The store that allocations and collections present                      *)

LEMMA SameReachable == Abs!Reachable = Reachable
BY DEF Abs!Reachable, Abs!Closed, Abs!Roots, Reachable, From, Settled, Roots

\* A step of the program is a step of the program.
LEMMA MutatePromised ==
    ASSUME BooksInv, NEW t \in Threads, Mutate(t)
    PROVE  Abs!Read(t) \/ Abs!Publish(t) \/ Abs!Write(t)
<1>1. UNCHANGED <<used, parked_root, disturbed>>
      BY DEF Mutate
<1>2. ASSUME NEW w, w \in {data, Nil} \/ (root[t] \in stored /\ w = ptr[root[t]]),
             root' = [root EXCEPT ![t] = w], UNCHANGED <<data, ptr, stored>>
      PROVE  Abs!Read(t)
      <2>1. w \in {data, Nil} \cup {ptr[b] : b \in {root[t]} \cap stored}
            BY <1>2
      <2> QED BY <1>1, <1>2, <2>1 DEF Abs!Read
<1>3. CASE data' = root[t] /\ UNCHANGED <<root, ptr, stored>>
      BY <1>1, <1>3 DEF Abs!Publish
<1>4. CASE /\ root[t] # Nil
           /\ ptr' = [ptr EXCEPT ![root[t]] = data]
           /\ stored' = stored \cup {root[t]}
           /\ UNCHANGED <<data, root>>
      BY <1>1, <1>4 DEF Abs!Write
<1> QED BY <1>2, <1>3, <1>4 DEF Mutate

\* What gc_reuse or gc_take chose under the lock is nobody's when it is
\* returned, and is nothing only when all is handed out.
LEMMA TakePromised ==
    ASSUME BooksInv, NEW t \in Threads, Take(t)
    PROVE  Abs!Alloc(t)
<1> USE DEF BooksInv, BooksKept, GcTypes
<1>1. pick[t] \in (Blocks \ used) \cup {Nil} /\ (pick[t] = Nil => used = Blocks)
      BY DEF Take, Words
<1>2. used' = used \cup ({pick[t]} \ {Nil})
      BY DEF Take
<1>3. /\ root' = [root EXCEPT ![t] = pick[t]]
      /\ stored' = stored \ {pick[t]}
      /\ UNCHANGED <<ptr, data, parked_root, disturbed>>
      BY DEF Take
<1> QED BY <1>1, <1>2, <1>3 DEF Abs!Alloc

\* What a sweep takes back the program cannot get at, or somebody was not
\* stopped in time.
LEMMA SweepPromised ==
    ASSUME BooksInv, Kept, NEW t \in Threads, Sweep(t)
    PROVE  Abs!Collect
<1> USE DEF BooksInv, BooksKept
<1>1. used' = used \ (used \ marked)
      BY DEF Sweep
<1>2. disturbed # {} \/ (used \ marked) \cap Abs!Reachable = {}
      BY SameReachable DEF Sweep, Kept
<1>3. UNCHANGED <<ptr, data, root, parked_root, stored, disturbed>>
      BY DEF Sweep, stacks
<1>4. used \ marked \in SUBSET used
      OBVIOUS
<1> QED BY <1>1, <1>2, <1>3, <1>4 DEF Abs!Collect

\* A request or a registration may find threads that are not stopped in time.
LEMMA DisturbPromised ==
    ASSUME NEW t \in Threads, Ask(t) \/ Enter(t)
    PROVE  Abs!Disturb \/ UNCHANGED Abs!vars
<1>1. UNCHANGED <<used, ptr, data, root, parked_root, stored>>
      BY DEF Ask, Enter, heap, stacks
<1>2. disturbed \subseteq disturbed'
      BY DEF Ask, Enter
<1>3. CASE disturbed' = disturbed
      BY <1>1, <1>3 DEF Abs!vars
<1>4. CASE disturbed' # disturbed
      <2>1. disturbed' # {}
            BY <1>2, <1>4
      <2> QED BY <1>1, <2>1 DEF Abs!Disturb
<1> QED BY <1>3, <1>4

\* Whatever else threads do on the way the program does not see.
LEMMA RestHidden ==
    ASSUME NEW t \in Threads,
           \/ Exit(t) \/ AllocBegin(t) \/ Park(t) \/ SpinOver(t) \/ LeaveSafepoint(t)
           \/ AllocLock(t) \/ Pick(t) \/ WaitFor(t) \/ CollectLock(t) \/ MarkOwn(t)
           \/ MarkOthers(t) \/ Resume(t)
    PROVE  UNCHANGED Abs!vars
<1>1. UNCHANGED <<heap, stacks, stored, disturbed>>
      BY DEF Exit, AllocBegin, Park, SpinOver, LeaveSafepoint, AllocLock, Pick, WaitFor,
         CollectLock, MarkOwn, MarkOthers, Resume
<1> QED BY <1>1 DEF heap, stacks, Abs!vars

\* If one thread collects and only it runs coroutines, allocator and collector
\* are the store of GcSpec: a block handed out is in nobody's hands, none the
\* program can get at is taken back unless a thread was not stopped in time,
\* an allocation fails only when all blocks are handed out, and no word of the
\* program's is touched (gc_alloc, gc_collect; Gc!Promise).
THEOREM GcKeepsPromise ==
    ASSUME OneCollector
    PROVE  Spec => Promise
<1>1. Init => StoppedInv /\ Kept
      BY BooksInit, StoppedInit, KeptInit DEF StoppedInv
<1>2. StoppedInv /\ Kept /\ [Next]_vars => (StoppedInv /\ Kept)'
      BY StoppedStep, KeptStays
<1>3. Init => Abs!Init
      BY DEF Init, Abs!Init
<1>4. StoppedInv /\ Kept /\ [Next]_vars => [Abs!Next]_(Abs!vars)
      <2> SUFFICES ASSUME StoppedInv, Kept, [Next]_vars
                   PROVE  Abs!Next \/ UNCHANGED Abs!vars
          OBVIOUS
      <2>1. BooksInv
            BY DEF StoppedInv
      <2>2. CASE UNCHANGED vars
            BY <2>2 DEF vars, heap, stacks, Abs!vars
      <2>3. ASSUME NEW t \in Threads, Mutate(t)
            PROVE  Abs!Next
            BY <2>1, <2>3, MutatePromised DEF Abs!Next
      <2>4. ASSUME NEW t \in Threads, SwitchCoro(t)
            PROVE  Abs!Next
            <3>1. Abs!Switch(t)
                  BY <2>4 DEF SwitchCoro, heap, Abs!Switch
            <3> QED BY <3>1 DEF Abs!Next
      <2>5. ASSUME NEW t \in Threads, Take(t)
            PROVE  Abs!Next
            BY <2>1, <2>5, TakePromised DEF Abs!Next
      <2>6. ASSUME NEW t \in Threads, Sweep(t)
            PROVE  Abs!Next
            BY <2>1, <2>6, SweepPromised DEF Abs!Next
      <2>7. ASSUME NEW t \in Threads, Ask(t) \/ Enter(t)
            PROVE  Abs!Next \/ UNCHANGED Abs!vars
            BY <2>7, DisturbPromised DEF Abs!Next
      <2> QED BY <2>2, <2>3, <2>4, <2>5, <2>6, <2>7, RestHidden DEF Next, Allocating, Collecting
<1> QED BY <1>1, <1>2, <1>3, <1>4, PTL DEF Spec, Promise, Abs!Spec
===============================================================================
