---------------------------------- MODULE Pool ----------------------------------
(***************************************************************************)
(* The thread pool of std/thread.qela with the handoff of std/coro.qela:   *)
(* N workers, each with a coroutine table of its own, a ring of spawn      *)
(* requests that its owner drains and its neighbours steal from under a    *)
(* try-lock, and a mailbox through which a busy worker gives a parked      *)
(* context to an idle one.                                                 *)
(*                                                                         *)
(* A step is what happens between two accesses to what the threads share   *)
(* (the locks, the rings, the mailboxes, pool_next); a worker's table is   *)
(* its own.  What a task does is a small program: yield, wait until        *)
(* another task has ended (a channel wait: blocked, then coro_yield in a   *)
(* loop), or go() another task.                                            *)
(***************************************************************************)
EXTENDS CoroTable, Integers

CONSTANTS
    N,          \* pool_n: the workers are 0 .. N-1
    QueueLen,   \* POOL_QUEUE
    Tasks,      \* bound: the tasks there are, each handed to go() at most once
    Body,       \* what each task does before it ends
    GoList      \* the tasks the main thread hands to go(), in order

Workers == 0 .. N - 1
Main    == N
Threads == 0 .. N
None    == 0

ASSUME PoolAssumption ==
    /\ N \in Nat \ {0} /\ QueueLen \in Nat \ {0} /\ Slots \in Nat \ {0}
    /\ None \notin Tasks
    /\ Body \in [Tasks -> Seq({<<"yield">>} \cup ({"go", "wait"} \X Tasks))]
    /\ GoList \in Seq(Tasks)

\* A task stands for one call of go(): it is named once, in main's list and
\* the bodies together.
ASSUME NamedOnce ==
    \A x \in Tasks :
        /\ \A i, j \in 1 .. Len(GoList) : GoList[i] = x /\ GoList[j] = x => i = j
        /\ \A u, v \in Tasks : \A i \in 1 .. Len(Body[u]) : \A j \in 1 .. Len(Body[v]) :
               Body[u][i] = <<"go", x>> /\ Body[v][j] = <<"go", x>> => u = v /\ i = j
        /\ \A i \in 1 .. Len(GoList) : \A u \in Tasks : \A j \in 1 .. Len(Body[u]) :
               ~ (GoList[i] = x /\ Body[u][j] = <<"go", x>>)

VARIABLES
    coros, cur_coro,                                \* per worker: table, running slot
    pool_queue, pool_head, pool_tail, pool_lock,    \* the rings of requests
    pool_next,                                      \* the round robin of go()
    coro_handoff,                                   \* the mailboxes
    pc,         \* per thread: where in pool_worker, coro_yield or go it is
    at,         \* per thread: the queue or mailbox it looks at
    hand,       \* per thread: the request it copied out or is pushing
    done_at,    \* per task: how much of its body it has done
    waits_at,   \* history, per task: the worker it began its channel wait on, or N
    listed,     \* how much of GoList main has handed over
    accepted,   \* history, per queue: what go() put into it, in order
    popped,     \* history, per queue: what was taken out of it, in order
    ended,      \* history: the tasks that finished
    refused     \* history: those whose coro_spawn found the table full

ring == <<pool_queue, pool_head, pool_tail, accepted, popped>>
vars == <<coros, cur_coro, ring, pool_lock, pool_next, coro_handoff, pc, at, hand,
          done_at, waits_at, listed, ended, refused>>

Init ==
    /\ coros = [w \in Workers |-> << >>]
    /\ cur_coro = [w \in Workers |-> 0]
    /\ pool_queue = [w \in Workers |-> [i \in 0 .. QueueLen - 1 |-> None]]
    /\ pool_head = [w \in Workers |-> 0]
    /\ pool_tail = [w \in Workers |-> 0]
    /\ pool_lock = [w \in Workers |-> 0]
    /\ pool_next = 0
    /\ coro_handoff = [w \in Workers |-> [state |-> "EMPTY", who |-> None]]
    /\ pc = [t \in Threads |-> IF t = Main THEN "idle" ELSE "drain"]
    /\ at = [t \in Threads |-> 0]
    /\ hand = [t \in Threads |-> None]
    /\ done_at = [t \in Tasks |-> 0]
    /\ waits_at = [t \in Tasks |-> N]
    /\ listed = 0
    /\ accepted = [w \in Workers |-> << >>]
    /\ popped = [w \in Workers |-> << >>]
    /\ ended = {} /\ refused = {}

Goto(t, label) == pc' = [pc EXCEPT ![t] = label]
Aim(t, w)      == at' = [at EXCEPT ![t] = w]
QueueEmpty(w)  == pool_head[w] = pool_tail[w]
Unlock(w)      == pool_lock' = [pool_lock EXCEPT ![w] = 0]
-------------------------------------------------------------------------------
(* pool_drain and pool_steal                                               *)

\* The queue after the one a thief looked at, or the mailbox after the last.
Further(w) ==
    LET next == (at[w] + 1) % N IN
    IF next = w THEN Goto(w, "mail") /\ UNCHANGED at
    ELSE Goto(w, "look") /\ Aim(w, next)

\* What follows a look at a queue that gave nothing.
GaveNothing(w) ==
    IF at[w] = w THEN Goto(w, "turn") /\ UNCHANGED at ELSE Further(w)

\* Top of the worker's loop: its own queue first.
Drain(w) ==
    /\ pc[w] = "drain"
    /\ Aim(w, w) /\ Goto(w, "look")
    /\ UNCHANGED <<coros, cur_coro, ring, pool_lock, pool_next, coro_handoff, hand,
                   done_at, waits_at, listed, ended, refused>>

\* The look at head and tail without the lock.
Look(w) ==
    /\ pc[w] = "look"
    /\ IF QueueEmpty(at[w]) THEN GaveNothing(w) ELSE Goto(w, "try") /\ UNCHANGED at
    /\ UNCHANGED <<coros, cur_coro, ring, pool_lock, pool_next, coro_handoff, hand,
                   done_at, waits_at, listed, ended, refused>>

\* Mutant of TryLock: the lock is taken whoever holds it.
TryLockBlind(w) ==
    /\ pc[w] = "try"
    /\ pool_lock' = [pool_lock EXCEPT ![at[w]] = 1]
    /\ Goto(w, "pop")
    /\ UNCHANGED <<coros, cur_coro, ring, pool_next, coro_handoff, at, hand,
                   done_at, waits_at, listed, ended, refused>>

\* One compare-and-swap: a queue somebody holds is left for this time.
TryLock(w) ==
    /\ pc[w] = "try"
    /\ IF pool_lock[at[w]] = 0
       THEN pool_lock' = [pool_lock EXCEPT ![at[w]] = 1] /\ Goto(w, "pop") /\ UNCHANGED at
       ELSE GaveNothing(w) /\ UNCHANGED pool_lock
    /\ UNCHANGED <<coros, cur_coro, ring, pool_next, coro_handoff, hand,
                   done_at, waits_at, listed, ended, refused>>

\* Mutant of PopEmpty: the lock stays with a queue found empty under it.
PopEmptyLocked(w) ==
    /\ pc[w] = "pop" /\ QueueEmpty(at[w])
    /\ GaveNothing(w)
    /\ UNCHANGED <<coros, cur_coro, ring, pool_lock, pool_next, coro_handoff, hand,
                   done_at, waits_at, listed, ended, refused>>

\* Under the lock somebody else turned out to have been faster.
PopEmpty(w) ==
    /\ pc[w] = "pop" /\ QueueEmpty(at[w])
    /\ Unlock(at[w]) /\ GaveNothing(w)
    /\ UNCHANGED <<coros, cur_coro, ring, pool_next, coro_handoff, hand,
                   done_at, waits_at, listed, ended, refused>>

\* Mutant of PopCopy: the request that came last, not the one that waits longest.
PopNewest(w) ==
    /\ pc[w] = "pop" /\ ~QueueEmpty(at[w])
    /\ hand' = [hand EXCEPT ![w] = pool_queue[at[w]][(pool_tail[at[w]] - 1) % QueueLen]]
    /\ Goto(w, "advance")
    /\ UNCHANGED <<coros, cur_coro, ring, pool_lock, pool_next, coro_handoff, at,
                   done_at, waits_at, listed, ended, refused>>

\* The request is copied out of its slot ...
PopCopy(w) ==
    /\ pc[w] = "pop" /\ ~QueueEmpty(at[w])
    /\ hand' = [hand EXCEPT ![w] = pool_queue[at[w]][pool_head[at[w]] % QueueLen]]
    /\ Goto(w, "advance")
    /\ UNCHANGED <<coros, cur_coro, ring, pool_lock, pool_next, coro_handoff, at,
                   done_at, waits_at, listed, ended, refused>>

\* ... and the slot given back, with the lock.
PopAdvance(w) ==
    /\ pc[w] = "advance"
    /\ pool_head' = [pool_head EXCEPT ![at[w]] = @ + 1]
    /\ popped' = [popped EXCEPT ![at[w]] = Append(@, hand[w])]
    /\ Unlock(at[w]) /\ Goto(w, "spawn")
    /\ UNCHANGED <<coros, cur_coro, pool_queue, pool_tail, accepted, pool_next,
                   coro_handoff, at, hand, done_at, waits_at, listed, ended, refused>>

\* coro_spawn of the request; after a drain the idle request is cancelled
\* first (coro_cancel_handoff_request), after a steal it is left standing.
\* A full table drops the request.
SpawnRequest(w) ==
    LET id == FreeSlot(coros[w]) IN
    /\ pc[w] = "spawn"
    /\ coro_handoff' = IF at[w] = w /\ coro_handoff[w].state = "REQUEST"
                       THEN [coro_handoff EXCEPT ![w].state = "EMPTY"] ELSE coro_handoff
    /\ IF id = 0
       THEN refused' = refused \cup {hand[w]} /\ UNCHANGED coros
       ELSE coros' = [coros EXCEPT ![w] = Fill(@, id, Fresh(hand[w]))] /\ UNCHANGED refused
    /\ hand' = [hand EXCEPT ![w] = None]
    /\ Goto(w, IF at[w] = w THEN "turn" ELSE "drain")
    /\ UNCHANGED <<cur_coro, ring, pool_lock, pool_next, at, done_at, waits_at, listed, ended>>
-------------------------------------------------------------------------------
(* The worker's own turn: coroutines first, else the mailbox               *)

\* With something pending the main context yields, else the worker looks at
\* its neighbours' queues.
Turn(w) ==
    /\ pc[w] = "turn"
    /\ IF CoroPending(coros[w]) THEN Goto(w, "offer") /\ Aim(w, 0) ELSE Further(w)
    /\ UNCHANGED <<coros, cur_coro, ring, pool_lock, pool_next, coro_handoff, hand,
                   done_at, waits_at, listed, ended, refused>>

\* coro_take_handoff and coro_import.
TakeReady(w) ==
    LET id == FreeSlot(coros[w]) IN
    /\ pc[w] = "mail" /\ coro_handoff[w].state = "READY"
    /\ IF id = 0
       THEN refused' = refused \cup {coro_handoff[w].who} /\ UNCHANGED coros
       ELSE /\ coros' = [coros EXCEPT ![w] = Fill(@, id, Imported(coro_handoff[w].who))]
            /\ UNCHANGED refused
    /\ coro_handoff' = [coro_handoff EXCEPT ![w] = [state |-> "EMPTY", who |-> None]]
    /\ Goto(w, "drain")
    /\ UNCHANGED <<cur_coro, ring, pool_lock, pool_next, at, hand, done_at, waits_at, listed, ended>>

AskForOne(w) ==
    /\ pc[w] = "mail" /\ coro_handoff[w].state # "READY"
    /\ coro_handoff' = IF coro_handoff[w].state = "EMPTY"
                       THEN [coro_handoff EXCEPT ![w].state = "REQUEST"] ELSE coro_handoff
    /\ Goto(w, "drain")
    /\ UNCHANGED <<coros, cur_coro, ring, pool_lock, pool_next, at, hand,
                   done_at, waits_at, listed, ended, refused>>
-------------------------------------------------------------------------------
(* coro_yield, of whichever context runs: offer, then switch               *)

\* After the request of `at` was answered, or found to be none.
NextOffer(w) ==
    IF at[w] + 1 = N THEN Goto(w, "switch") /\ UNCHANGED at
    ELSE Aim(w, at[w] + 1) /\ UNCHANGED pc

Offer(w) ==
    /\ pc[w] = "offer"
    /\ IF at[w] # w /\ coro_handoff[at[w]].state = "REQUEST"
       THEN /\ coro_handoff' = [coro_handoff EXCEPT ![at[w]].state = "BUSY"]
            /\ Goto(w, "donate") /\ UNCHANGED at
       ELSE NextOffer(w) /\ UNCHANGED coro_handoff
    /\ UNCHANGED <<coros, cur_coro, ring, pool_lock, pool_next, hand,
                   done_at, waits_at, listed, ended, refused>>

\* Mutants of Spare: the running context too; those in a channel wait too.
SpareRunning(tab, running) ==
    {i \in Live(tab) : tab[i].parked /\ ~tab[i].blocked /\ ~tab[i].pinned}
SpareBlocked(tab, running) ==
    {i \in Live(tab) \ {running} : tab[i].parked /\ ~tab[i].pinned}

\* The contexts that may leave: parked by an ordinary yield, in no channel
\* wait, in no generator, and not the one that runs.
Spare(tab, running) ==
    {i \in Live(tab) \ {running} : tab[i].parked /\ ~tab[i].blocked /\ ~tab[i].pinned}

\* Mutant of Donate: the donor's slot is not retired.
DonateKept(w) ==
    LET spare == Spare(coros[w], cur_coro[w]) IN
    /\ pc[w] = "donate" /\ spare # {}
    /\ coro_handoff' = [coro_handoff EXCEPT ![at[w]] =
                           [state |-> "READY", who |-> coros[w][Least(spare)].who]]
    /\ Goto(w, "switch")
    /\ UNCHANGED <<coros, cur_coro, ring, pool_lock, pool_next, at, hand,
                   done_at, waits_at, listed, ended, refused>>

\* The first of them is retired here and published to the one who asked.
Donate(w) ==
    LET spare == Spare(coros[w], cur_coro[w]) IN
    /\ pc[w] = "donate" /\ spare # {}
    /\ coros' = [coros EXCEPT ![w][Least(spare)].moved = TRUE]
    /\ coro_handoff' = [coro_handoff EXCEPT ![at[w]] =
                           [state |-> "READY", who |-> coros[w][Least(spare)].who]]
    /\ Goto(w, "switch")
    /\ UNCHANGED <<cur_coro, ring, pool_lock, pool_next, at, hand,
                   done_at, waits_at, listed, ended, refused>>

NothingToSpare(w) ==
    /\ pc[w] = "donate" /\ Spare(coros[w], cur_coro[w]) = {}
    /\ coro_handoff' = [coro_handoff EXCEPT ![at[w]].state = "EMPTY"]
    /\ IF at[w] + 1 = N THEN Goto(w, "switch") /\ UNCHANGED at
       ELSE Goto(w, "offer") /\ Aim(w, at[w] + 1)
    /\ UNCHANGED <<coros, cur_coro, ring, pool_lock, pool_next, hand,
                   done_at, waits_at, listed, ended, refused>>

\* Where control is once `to` has it: main is back in the worker's loop.
Resume(w, to) ==
    /\ cur_coro' = [cur_coro EXCEPT ![w] = to]
    /\ Goto(w, IF to = 0 THEN "drain" ELSE "run")

Switch(w) ==
    LET from == cur_coro[w]
        to   == CoroNext(coros[w], from) IN
    /\ pc[w] = "switch"
    /\ coros' = IF from # 0 /\ to # from
                THEN [coros EXCEPT ![w][from].parked = TRUE] ELSE coros
    /\ Resume(w, to)
    /\ UNCHANGED <<ring, pool_lock, pool_next, coro_handoff, at, hand,
                   done_at, waits_at, listed, ended, refused>>
-------------------------------------------------------------------------------
(* The running coroutine                                                   *)

Running(w) == coros[w][cur_coro[w]].who
Op(w) ==
    LET t == Running(w) IN
    IF done_at[t] < Len(Body[t]) THEN Body[t][done_at[t] + 1] ELSE <<"end">>
Done(w) == done_at' = [done_at EXCEPT ![Running(w)] = @ + 1]

Yield(w) ==
    /\ pc[w] = "run" /\ Op(w)[1] = "yield"
    /\ Done(w) /\ Goto(w, "offer") /\ Aim(w, 0)
    /\ UNCHANGED <<coros, cur_coro, ring, pool_lock, pool_next, coro_handoff, hand,
                   waits_at, listed, ended, refused>>

\* A channel operation that cannot be performed yet: chan_block.
Wait(w) ==
    /\ pc[w] = "run" /\ Op(w)[1] = "wait" /\ Op(w)[2] \notin ended
    /\ coros' = [coros EXCEPT ![w][cur_coro[w]].blocked = TRUE]
    /\ waits_at' = [waits_at EXCEPT ![Running(w)] = w]
    /\ Goto(w, "offer") /\ Aim(w, 0)
    /\ UNCHANGED <<cur_coro, ring, pool_lock, pool_next, coro_handoff, hand,
                   done_at, listed, ended, refused>>

\* Mutant of WaitOver: an `if` in place of the loop, one turn is enough.
WaitOverOnce(w) ==
    /\ pc[w] = "run" /\ Op(w)[1] = "wait"
    /\ Op(w)[2] \in ended \/ waits_at[Running(w)] # N
    /\ coros' = [coros EXCEPT ![w][cur_coro[w]].blocked = FALSE]
    /\ waits_at' = [waits_at EXCEPT ![Running(w)] = N]
    /\ Done(w)
    /\ UNCHANGED <<cur_coro, ring, pool_lock, pool_next, coro_handoff, pc, at, hand,
                   listed, ended, refused>>

WaitOver(w) ==
    /\ pc[w] = "run" /\ Op(w)[1] = "wait" /\ Op(w)[2] \in ended
    /\ coros' = [coros EXCEPT ![w][cur_coro[w]].blocked = FALSE]
    /\ waits_at' = [waits_at EXCEPT ![Running(w)] = N]
    /\ Done(w)
    /\ UNCHANGED <<cur_coro, ring, pool_lock, pool_next, coro_handoff, pc, at, hand,
                   listed, ended, refused>>

\* coro_finish.
Finish(w) ==
    /\ pc[w] = "run" /\ Op(w)[1] = "end"
    /\ coros' = [coros EXCEPT ![w][cur_coro[w]].done = TRUE]
    /\ ended' = ended \cup {Running(w)}
    /\ Resume(w, CoroNext(coros[w], cur_coro[w]))
    /\ UNCHANGED <<ring, pool_lock, pool_next, coro_handoff, at, hand,
                   done_at, waits_at, listed, refused>>
-------------------------------------------------------------------------------
(* go                                                                      *)

\* pool_next is taken; go's caller is main or the coroutine a worker runs.
Pick(t, task) ==
    /\ pool_next' = pool_next + 1
    /\ Aim(t, pool_next % N) /\ hand' = [hand EXCEPT ![t] = task]
    /\ Goto(t, "glock")

GoMain ==
    /\ pc[Main] = "idle" /\ listed < Len(GoList)
    /\ Pick(Main, GoList[listed + 1])
    /\ listed' = listed + 1
    /\ UNCHANGED <<coros, cur_coro, ring, pool_lock, coro_handoff, done_at, waits_at, ended, refused>>

GoInside(w) ==
    /\ pc[w] = "run" /\ Op(w)[1] = "go"
    /\ Pick(w, Op(w)[2])
    /\ Done(w)
    /\ UNCHANGED <<coros, cur_coro, ring, pool_lock, coro_handoff, waits_at, listed, ended, refused>>

\* The lock is waited for, unlike in drain and steal.
GoLock(t) ==
    /\ pc[t] = "glock" /\ pool_lock[at[t]] = 0
    /\ pool_lock' = [pool_lock EXCEPT ![at[t]] = 1]
    /\ Goto(t, "gput")
    /\ UNCHANGED <<coros, cur_coro, ring, pool_next, coro_handoff, at, hand,
                   done_at, waits_at, listed, ended, refused>>

\* Mutant of RingFull: off by one, the oldest request is overwritten.
RingFullLate(w) == pool_tail[w] - pool_head[w] > QueueLen

RingFull(w) == pool_tail[w] - pool_head[w] >= QueueLen

GoFull(t) ==
    /\ pc[t] = "gput" /\ RingFull(at[t])
    /\ Unlock(at[t]) /\ Goto(t, "glock")
    /\ UNCHANGED <<coros, cur_coro, ring, pool_next, coro_handoff, at, hand,
                   done_at, waits_at, listed, ended, refused>>

GoPut(t) ==
    /\ pc[t] = "gput" /\ ~RingFull(at[t])
    /\ pool_queue' = [pool_queue EXCEPT ![at[t]][pool_tail[at[t]] % QueueLen] = hand[t]]
    /\ pool_tail' = [pool_tail EXCEPT ![at[t]] = @ + 1]
    /\ accepted' = [accepted EXCEPT ![at[t]] = Append(@, hand[t])]
    /\ Unlock(at[t]) /\ Goto(t, IF t = Main THEN "idle" ELSE "run")
    /\ hand' = [hand EXCEPT ![t] = None]
    /\ UNCHANGED <<coros, cur_coro, pool_head, popped, pool_next, coro_handoff, at,
                   done_at, waits_at, listed, ended, refused>>
-------------------------------------------------------------------------------
Worker(w) ==
    \/ Drain(w) \/ Look(w) \/ TryLock(w) \/ PopEmpty(w) \/ PopCopy(w) \/ PopAdvance(w)
    \/ SpawnRequest(w) \/ Turn(w) \/ TakeReady(w) \/ AskForOne(w)
    \/ Offer(w) \/ Donate(w) \/ NothingToSpare(w) \/ Switch(w)
    \/ Yield(w) \/ Wait(w) \/ WaitOver(w) \/ Finish(w) \/ GoInside(w)

Go(t) == GoLock(t) \/ GoFull(t) \/ GoPut(t)

Next ==
    \/ \E w \in Workers : Worker(w)
    \/ GoMain
    \/ \E t \in Threads : Go(t)

Spec == Init /\ [][Next]_vars

Tries(v) == \E w \in Workers : at[w] = v /\ TryLock(w)

\* Every thread keeps running.  A go() that finds its ring full gives the
\* processor up before it takes the lock again, so those that try the lock
\* again and again do not find it held each time.
FairSpec ==
    /\ Spec
    /\ \A w \in Workers : WF_vars(Worker(w))
    /\ \A v \in Workers :
          \/ <>[](pool_lock[v] = 1)
          \/ <>[][~Tries(v)]_vars
          \/ []<><<Tries(v) /\ pool_lock[v] = 0>>_vars
    /\ WF_vars(GoMain)
    /\ \A t \in Threads : WF_vars(Go(t))
-------------------------------------------------------------------------------
TypeOK ==
    /\ \A w \in Workers : /\ coros[w] \in Seq(SlotType(Tasks)) /\ Len(coros[w]) < Slots
                          /\ cur_coro[w] \in {0} \cup DOMAIN coros[w]
                          /\ \A i \in 0 .. QueueLen - 1 : pool_queue[w][i] \in Tasks \cup {None}
                          /\ pool_tail[w] - pool_head[w] \in 0 .. QueueLen
                          /\ coro_handoff[w].state \in {"EMPTY", "REQUEST", "BUSY", "READY"}
                          /\ coro_handoff[w].who \in Tasks \cup {None}
    /\ pool_lock \in [Workers -> 0 .. 1]
    /\ at \in [Threads -> Workers] /\ hand \in [Threads -> Tasks \cup {None}]
    /\ ended \subseteq Tasks /\ refused \subseteq Tasks

InRing(w) == [i \in 1 .. pool_tail[w] - pool_head[w] |->
                 pool_queue[w][(pool_head[w] + i - 1) % QueueLen]]

\* Whoever pops, owner or thief, a ring gives its requests out once each and
\* in the order go() put them in, also when it has wrapped around and is full;
\* and it never holds more than its slots.
QueueFifo == TypeOK /\ \A w \in Workers : accepted[w] = popped[w] \o InRing(w)

HandedOver == UNION {{accepted[w][i] : i \in DOMAIN accepted[w]} : w \in Workers}

\* The places a task can be in.
Waiting(t)  == {<<"ring", w>> : w \in {v \in Workers : \E i \in DOMAIN InRing(v) : InRing(v)[i] = t}}
Held(t)     == {<<"hand", w>> : w \in {v \in Workers : pc[v] = "spawn" /\ hand[v] = t}}
Slotted(t)  == {<<"slot", wi[1], wi[2]>> : wi \in
                   {vj \in Workers \X (1 .. Slots) :
                       vj[2] \in Live(coros[vj[1]]) /\ coros[vj[1]][vj[2]].who = t}}
Mailed(t)   == {<<"mail", w>> : w \in {v \in Workers : coro_handoff[v].state = "READY"
                                                      /\ coro_handoff[v].who = t}}
Over(t)     == {<<"ended">> : x \in {t} \cap ended} \cup {<<"refused">> : x \in {t} \cap refused}

\* A task go() accepted is in exactly one place at a time: a ring, a popper's
\* hand, one live slot of one worker, a mailbox, or over.  No steal, no
\* donation and no slot reuse loses it or runs it on two stacks.
OnePlace ==
    \A t \in HandedOver :
        Cardinality(Waiting(t) \cup Held(t) \cup Slotted(t) \cup Mailed(t) \cup Over(t)) = 1

\* A worker never runs on a stack it has given away or that has finished.
RunsWhatItOwns == \A w \in Workers : cur_coro[w] \in {0} \cup Live(coros[w])

\* A task in the middle of a channel wait is still on the worker where the
\* wait began, whose scheduler state the wait is tied to.
BlockedStaysHome ==
    \A t \in Tasks : waits_at[t] # N =>
        \E i \in Live(coros[waits_at[t]]) : coros[waits_at[t]][i].who = t

\* coro_offer_handoff gives away what its worker can spare and nothing else.
GivesWhatItSpares == RunsWhatItOwns /\ BlockedStaysHome

\* The tasks that have a context, in a worker's table or on the way to one.
Alive == {t \in Tasks : Slotted(t) \cup Mailed(t) # {}}

\* The pool as the callers of go() see it (PoolSpec).
Abs == INSTANCE PoolSpec WITH given <- HandedOver, alive <- Alive

\* However tasks are queued, stolen and handed from worker to worker, each that
\* go() accepted runs its body once, in order and to the end, unless a full
\* table drops it, and passes no channel wait before its time (go, pool_drain,
\* pool_steal, coro_offer_handoff, coro_take_handoff, coro_import).
Promise == Abs!Spec

\* Every task go() accepted comes to its end, on whichever worker: again and
\* again there is none left over.  This holds if no full table drops one
\* (another may wait for it) and the mailboxes fall silent: no context is
\* handed on for ever or left in one.
AcceptedEnds ==
    [](refused = {}) /\ <>[](\A w \in Workers : coro_handoff[w].state # "READY")
        => []<>(HandedOver \subseteq ended)

\* coro.qela: "READY is retained: its context already belongs to this worker
\* and will be imported later."
ReadyIsImported ==
    \A w \in Workers : (coro_handoff[w].state = "READY") ~> (coro_handoff[w].state # "READY")
===============================================================================
