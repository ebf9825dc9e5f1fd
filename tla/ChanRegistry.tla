----------------------------- MODULE ChanRegistry -----------------------------
(***************************************************************************)
(* Deadlock detection across OS threads: chan_block, chan_stall_global and *)
(* the registry chan_threads of std/chan.qela, under the pool of           *)
(* std/thread.qela (chan_deadlock_check is false).                         *)
(*                                                                         *)
(* A thread is bare (no coroutines: it waits in chan_block's first branch) *)
(* or runs one coroutine: a pool worker once it has taken a request, or    *)
(* main running its own coroutine to the end.  An attempt at a channel     *)
(* operation is one step (module Chan shows that it may be taken so); the  *)
(* stores to `parked`, the epoch and the scan are steps of their own.      *)
(***************************************************************************)
EXTENDS Integers, FiniteSets, TLC

CONSTANTS
    Workers,    \* pool threads
    Bare,       \* registered threads without coroutines (main after go())
    Joiners,    \* registered threads that run a coroutine of their own
    Queued,     \* workers whose queue holds a request at the start
    RegSlots,   \* the length of chan_threads
    Chans, Room,
    Work,       \* the cases <<dir, ch>> that may be waited for
    MaxOps      \* bound: channel operations started and departures from the registry

Threads == Workers \cup Bare \cup Joiners
Nobody  == 0

ASSUME RegistryAssumption ==
    /\ RegSlots \in Nat \ {0} /\ MaxOps \in Nat
    /\ Bare \cup Joiners # {}
    /\ Queued \subseteq Workers
    /\ Room \in [Chans -> Nat \ {0}]
    /\ Work \subseteq {"send", "recv"} \X Chans

VARIABLES
    active, parked,     \* chan_threads, by slot
    my_slot,            \* chan_my_slot of each thread, 0 for none
    chan_epoch,
    stall, stall_epoch, \* chan_stall and chan_stall_epoch of each thread
    scan,               \* the locals of chan_stall_global: next slot, counts
    inside,             \* the values in each channel
    pc, want,           \* where each thread is, what it waits for
    queue,              \* workers whose request nobody has taken yet
    dead,               \* threads that reached chan_die
    ops,                \* history: operations started and departures
    met, missed         \* history: for each thread that scans, who was parked or
                        \* not registered, and who was neither, at some moment
                        \* of its scan

reg  == <<active, parked, my_slot>>
heur == <<stall, stall_epoch>>
hist == <<met, missed>>
vars == <<reg, chan_epoch, heur, scan, inside, pc, want, queue, dead, ops, hist>>

SlotNums == 1 .. RegSlots
NoWait   == <<"none">>
NoScan   == [j |-> 1, nactive |-> 0, alive |-> 0]

\* Threads other than workers are registered before anything is modelled:
\* main by its first go() or its first wait.
Init ==
    /\ my_slot \in {f \in [Threads -> 0 .. RegSlots] :
                      /\ \A t \in Workers : f[t] = 0
                      /\ \A t, u \in Threads \ Workers : f[t] = f[u] => t = u
                      /\ {f[t] : t \in Threads \ Workers} = 1 .. Cardinality(Threads \ Workers)}
    /\ active = [s \in SlotNums |-> \E t \in Threads : my_slot[t] = s]
    /\ parked = [s \in SlotNums |-> FALSE]
    /\ chan_epoch = 0
    /\ stall = [t \in Threads |-> 0]
    /\ stall_epoch = [t \in Threads |-> -1]
    /\ scan = [t \in Threads |-> NoScan]
    /\ inside = [ch \in Chans |-> 0]
    /\ pc = [t \in Threads |-> IF t \in Workers THEN "off" ELSE "user"]
    /\ want = [t \in Threads |-> NoWait]
    /\ queue = Queued
    /\ dead = {}
    /\ ops = 0
    /\ met = [t \in Threads |-> {}] /\ missed = [t \in Threads |-> {}]

Goto(t, l) == pc' = [pc EXCEPT ![t] = l]

IsParked(t) == my_slot[t] # 0 /\ parked[my_slot[t]]

Scanning == {t \in Threads : pc[t] = "scan"}
Seen(h, t) == [u \in Threads |-> IF u \in Scanning THEN h[u] \cup {t} ELSE h[u]]

\* Stores `parked` for the caller; every scan under way has the moment.
Park(t)   == /\ parked' = [parked EXCEPT ![my_slot[t]] = TRUE]
             /\ met' = Seen(met, t)
             /\ UNCHANGED <<active, my_slot, missed>>
Unpark(t) == /\ parked' = [parked EXCEPT ![my_slot[t]] = FALSE]
             /\ missed' = Seen(missed, t)
             /\ UNCHANGED <<active, my_slot, met>>
-------------------------------------------------------------------------------
\* chan_thread_enter takes the first free slot, if any: a worker that starts,
\* or a thread that has left the registry and comes back.
Enter(t) ==
    LET free == {s \in SlotNums : ~active[s]} IN
    /\ pc[t] = "off"
    /\ IF free = {} THEN UNCHANGED <<active, my_slot, missed>>
       ELSE LET s == CHOOSE x \in free : \A y \in free : x <= y
            IN  /\ active' = [active EXCEPT ![s] = TRUE]
                /\ my_slot' = [my_slot EXCEPT ![t] = s]
                /\ missed' = Seen(missed, t)
    /\ Goto(t, IF t \in Workers THEN "idle" ELSE "user")
    /\ UNCHANGED <<parked, chan_epoch, heur, scan, inside, want, queue, dead, ops, met>>

\* chan_thread_exit, by a thread that is no worker and outside its channel
\* operations (so its `parked` is 0 before it is stored): the slot is anyone's,
\* and whoever scans has nothing to find here any more.
Exit(t) ==
    /\ pc[t] = "user" /\ t \notin Workers /\ my_slot[t] # Nobody
    /\ ops < MaxOps
    /\ ops' = ops + 1
    /\ parked' = [parked EXCEPT ![my_slot[t]] = FALSE]
    /\ active' = [active EXCEPT ![my_slot[t]] = FALSE]
    /\ my_slot' = [my_slot EXCEPT ![t] = Nobody]
    /\ met' = Seen(met, t)
    /\ Goto(t, "off")
    /\ UNCHANGED <<chan_epoch, heur, scan, inside, want, queue, dead, missed>>

\* pool_drain or pool_steal: an idle worker takes a request, its own or not.
Take(t, w) ==
    /\ pc[t] = "idle"
    /\ w \in queue
    /\ queue' = queue \ {w}
    /\ Goto(t, "user")
    /\ UNCHANGED <<reg, chan_epoch, heur, scan, inside, want, dead, ops, hist>>

\* A worker's coroutine ends.
End(t) ==
    /\ pc[t] = "user" /\ t \in Workers
    /\ Goto(t, "idle")
    /\ UNCHANGED <<reg, chan_epoch, heur, scan, inside, want, queue, dead, ops, hist>>

Start(t, case) ==
    /\ pc[t] = "user"
    /\ case \in Work
    /\ ops < MaxOps
    /\ ops' = ops + 1
    /\ want' = [want EXCEPT ![t] = case]
    /\ Goto(t, "try")
    /\ UNCHANGED <<reg, chan_epoch, heur, scan, inside, queue, dead, hist>>

Ready(case) == IF case[1] = "send" THEN inside[case[2]] < Room[case[2]]
                                   ELSE inside[case[2]] > 0

\* The locked part of a channel operation that goes through, or not.
Try(t) ==
    /\ pc[t] = "try"
    /\ IF Ready(want[t])
       THEN /\ inside' = [inside EXCEPT ![want[t][2]] =
                            @ + (IF want[t][1] = "send" THEN 1 ELSE -1)]
            /\ want' = [want EXCEPT ![t] = NoWait]
            /\ Goto(t, "bump")
       ELSE Goto(t, "block") /\ UNCHANGED <<inside, want>>
    /\ UNCHANGED <<reg, chan_epoch, heur, scan, queue, dead, ops, hist>>

\* atomic_add(&chan_epoch, 1)
Bump(t) ==
    /\ pc[t] = "bump"
    /\ chan_epoch' = chan_epoch + 1
    /\ Goto(t, "user")
    /\ UNCHANGED <<reg, heur, scan, inside, want, queue, dead, ops, hist>>

\* chan_block without coroutines: parked while it spins.
BarePark(t) ==
    /\ pc[t] = "block" /\ t \in Bare
    /\ Park(t)
    /\ Goto(t, "spin")
    /\ UNCHANGED <<chan_epoch, heur, scan, inside, want, queue, dead, ops>>

BareUnpark(t) ==
    /\ pc[t] = "spin"
    /\ Unpark(t)
    /\ Goto(t, "try")
    /\ UNCHANGED <<chan_epoch, heur, scan, inside, want, queue, dead, ops>>

\* chan_block with the thread's one coroutine: the epoch seen before counts a
\* stall; more than coro_live() + 1 of them ask for a verdict.  An
\* unregistered thread does not get one: it dies.
Block(t) ==
    /\ pc[t] = "block" /\ t \notin Bare
    /\ IF chan_epoch # stall_epoch[t]
       THEN /\ stall_epoch' = [stall_epoch EXCEPT ![t] = chan_epoch]
            /\ stall' = [stall EXCEPT ![t] = 1]
            /\ Goto(t, "try")
       ELSE /\ stall' = [stall EXCEPT ![t] = @ + 1]
            /\ Goto(t, IF stall[t] + 1 <= 2 THEN "try"
                       ELSE IF my_slot[t] = Nobody THEN "die" ELSE "verdict")
            /\ UNCHANGED stall_epoch
    /\ UNCHANGED <<reg, chan_epoch, scan, inside, want, queue, dead, ops, hist>>

\* What a scan that begins now can find parked, and not.  Threads that are not
\* registered yet are nobody's business.
BeginScan(t) ==
    /\ met' = [Seen(met, t) EXCEPT ![t] =
                  {t} \cup {u \in Threads : IsParked(u) \/ my_slot[u] = Nobody}]
    /\ missed' = [missed EXCEPT ![t] =
                  {u \in Threads \ {t} : my_slot[u] # Nobody /\ ~IsParked(u)}]
    /\ scan' = [scan EXCEPT ![t] = NoScan]
    /\ Goto(t, "scan")
    /\ UNCHANGED <<active, my_slot, chan_epoch, heur, inside, want, queue, dead, ops>>

\* Mutant of StallPark: the caller looks at the others without parking.
StallUnparked(t) ==
    /\ pc[t] = "verdict"
    /\ BeginScan(t)
    /\ UNCHANGED parked

\* chan_stall_global: park first ...
StallPark(t) ==
    /\ pc[t] = "verdict"
    /\ parked' = [parked EXCEPT ![my_slot[t]] = TRUE]
    /\ BeginScan(t)

\* Mutant of Look: a slot counts as alive unless it is parked, active or not.
LookAtParked(t) ==
    /\ pc[t] = "scan"
    /\ scan[t].j <= RegSlots
    /\ scan' = [scan EXCEPT ![t] =
         [j |-> @.j + 1, nactive |-> @.nactive + (IF active[@.j] THEN 1 ELSE 0),
          alive |-> @.alive + (IF parked[@.j] THEN 0 ELSE 1)]]
    /\ UNCHANGED <<reg, chan_epoch, heur, inside, pc, want, queue, dead, ops, hist>>

\* ... then look at one slot after the other ...
Look(t) ==
    /\ pc[t] = "scan"
    /\ scan[t].j <= RegSlots
    /\ scan' = [scan EXCEPT ![t] =
         [j |-> @.j + 1, nactive |-> @.nactive + (IF active[@.j] THEN 1 ELSE 0),
          alive |-> @.alive + (IF active[@.j] /\ ~parked[@.j] THEN 1 ELSE 0)]]
    /\ UNCHANGED <<reg, chan_epoch, heur, inside, pc, want, queue, dead, ops, hist>>

\* Mutant of Spared: only the number of registered threads counts.
SparedIfFew(t) == scan[t].nactive < Cardinality(Workers)

Spared(t) == scan[t].alive # 0 \/ scan[t].nactive < Cardinality(Workers)

\* ... and unpark and start over, or report.
Resume(t) ==
    /\ pc[t] = "scan" /\ scan[t].j > RegSlots
    /\ Spared(t)
    /\ Unpark(t)
    /\ stall' = [stall EXCEPT ![t] = 0]
    /\ stall_epoch' = [stall_epoch EXCEPT ![t] = -1]
    /\ Goto(t, "try")
    /\ UNCHANGED <<chan_epoch, scan, inside, want, queue, dead, ops>>

Die(t) ==
    /\ \/ pc[t] = "scan" /\ scan[t].j > RegSlots /\ ~Spared(t)
       \/ pc[t] = "die"
    /\ dead' = {t}
    /\ UNCHANGED <<reg, chan_epoch, heur, scan, inside, pc, want, queue, ops, hist>>

Step(t) == \/ Enter(t) \/ \E w \in Workers : Take(t, w)
           \/ Try(t) \/ Bump(t) \/ BarePark(t) \/ BareUnpark(t)
           \/ Block(t) \/ StallPark(t) \/ Look(t) \/ Resume(t) \/ Die(t)

\* chan_die ends the process.
Next == /\ dead = {}
        /\ \E t \in Threads : Step(t) \/ End(t) \/ Exit(t) \/ \E case \in Work : Start(t, case)

Spec == Init /\ [][Next]_vars

\* The kernel runs every thread again and again.  Starting an operation, ending
\* a coroutine and leaving the registry are the program's business.
FairSpec == Spec /\ \A t \in Threads : WF_vars(dead = {} /\ Step(t))
-------------------------------------------------------------------------------
(* Properties *)

TypeOK ==
    /\ active \in [SlotNums -> BOOLEAN] /\ parked \in [SlotNums -> BOOLEAN]
    /\ my_slot \in [Threads -> 0 .. RegSlots]
    /\ \A t, u \in Threads : my_slot[t] = my_slot[u] /\ my_slot[t] # 0 => t = u
    /\ stall \in [Threads -> 0 .. 3]
    /\ \A ch \in Chans : inside[ch] \in 0 .. Room[ch]
    /\ pc \in [Threads -> {"off", "idle", "user", "try", "bump", "block", "spin",
                           "verdict", "scan", "die"}]
    /\ \A t \in Threads : pc[t] \in {"try", "block", "spin", "verdict", "scan", "die"} <=> want[t] # NoWait

ScanOver(t) == pc[t] = "scan" /\ scan[t].j > RegSlots

\* A slow sibling is not a deadlock (tests/deadlock_slowsibling.qela): every
\* thread that was registered all through the fatal scan was parked at some
\* moment of it, and one that left or came meanwhile was in nobody's way then;
\* no two threads share a slot of the registry.
SlowSiblingSpared ==
    /\ TypeOK
    /\ \A t \in Threads : ScanOver(t) /\ ~Spared(t) =>
           \A u \in Threads : my_slot[u] # Nobody => u \in met[t]

\* Nobody goes back to waiting for a ghost: a scan that finds somebody alive
\* met a registered thread that was not parked.
ScanHonest ==
    \A t \in Threads : ScanOver(t) /\ scan[t].alive # 0 => missed[t] # {}

\* Whatever a scan of chan_stall_global concludes was so of each thread it
\* goes by, at some moment of it, whatever parks and unparks meanwhile.
ScanFounded == SlowSiblingSpared /\ ScanHonest

\* When all threads are parked for their scans at once, they do not all
\* overlook it: each parks before it looks.
SomeoneSees ==
    (\A t \in Threads : ScanOver(t)) => \E t \in Threads : scan[t].alive = 0

\* A thread that cannot do anything any more: it waits for a channel that is
\* not ready, or is a worker with nothing to take.
Stuck(t) ==
    \/ want[t] # NoWait /\ ~Ready(want[t])
    \/ t \in Workers /\ pc[t] \in {"off", "idle"} /\ queue = {}

\* What the comment above chan_stall_global says: only when "nothing
\* anywhere can touch a channel again" is a deadlock reported; of threads that
\* have left the registry it says nothing (chan.qela:110).
NoFalseAlarm ==
    dead # {} => \A t \in Threads : t \in Workers \/ my_slot[t] # Nobody => Stuck(t)

\* chan.qela above chan_deadlock_check: with every registered thread "parked
\* inside chan_block (or idle)" it is a deadlock, and
\* tests/deadlock_crossthread.qela: it is reported.
DeadlockReported == (\A t \in Threads : Stuck(t)) ~> dead # {}
===============================================================================
