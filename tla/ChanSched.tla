------------------------------ MODULE ChanSched -------------------------------
(***************************************************************************)
(* Coroutines of one thread that wait for each other on channels:          *)
(* chan_block of std/chan.qela over the scheduler of std/coro.qela, with   *)
(* the single-scheduler deadlock heuristic (chan_deadlock_check is true).  *)
(*                                                                         *)
(* Nobody else touches the channels, so an operation that can proceed is   *)
(* one step; the lock is never contended.  A context that cannot proceed   *)
(* goes through chan_block, which switches away in the middle: its first   *)
(* half is Block, its second half is Wake.                                 *)
(***************************************************************************)
EXTENDS CoroTable, Integers

CONSTANTS
    Chans,      \* the channels
    Room,       \* Room[ch]: the capacity chan_init was given
    Work,       \* the waits a coroutine may start: sets of cases, see below
    MainWork,   \* those main may start
    MainYields, \* whether main yields outside coro_run_all
    MaxSpawns,  \* bound: coro_spawn calls
    MaxWaits    \* bound: operations started

\* A wait is a set of cases, one for a send or a receive, several for a
\* select; <<"taken", ch>> is the second loop of a rendezvous send.
Cases == {"send", "recv", "taken"} \X Chans

ASSUME SchedAssumption ==
    /\ Slots \in Nat \ {0} /\ MaxSpawns \in Nat /\ MaxWaits \in Nat
    /\ Room \in [Chans -> Nat] /\ MainYields \in BOOLEAN
    /\ Work \subseteq SUBSET Cases /\ MainWork \subseteq SUBSET Cases

VARIABLES
    coros, cur_coro,    \* the scheduler, see Coro
    inside,             \* inside[ch]: the values in ch, 0 or 1 for a rendezvous
    closed,             \* closed[ch]
    want,               \* want[c]: the cases context c waits for
    phase,              \* phase[c]: in user code, in coro_yield, in chan_block,
                        \* in coro_run_all
    chan_nblocked, chan_epoch, chan_stall, chan_stall_epoch,
    dead,               \* chan_die was reached
    exited,             \* "send on a closed channel"
    born, waits         \* history: spawns and waits started

chans == <<inside, closed>>
stall == <<chan_nblocked, chan_stall, chan_stall_epoch>>
ends  == <<dead, exited>>
hist  == <<born, waits>>
vars  == <<coros, cur_coro, chans, want, phase, chan_epoch, stall, ends, hist>>

Contexts == 0 .. Slots - 1

Init ==
    /\ coros = << >> /\ cur_coro = 0
    /\ inside = [ch \in Chans |-> 0]
    /\ closed = [ch \in Chans |-> FALSE]
    /\ want = [c \in Contexts |-> {}]
    /\ phase = [c \in Contexts |-> "run"]
    /\ chan_nblocked = 0 /\ chan_epoch = 0
    /\ chan_stall = 0 /\ chan_stall_epoch = -1
    /\ dead = FALSE /\ exited = FALSE
    /\ born = 0 /\ waits = 0

Alloc(ch) == IF Room[ch] = 0 THEN 1 ELSE Room[ch]

\* Whether an attempt at the case comes back with something other than
\* "wait": a send on a closed channel does, by ending the program.
Ready(case) ==
    LET ch == case[2] IN
    CASE case[1] = "send"  -> closed[ch] \/ inside[ch] < Alloc(ch)
      [] case[1] = "recv"  -> closed[ch] \/ inside[ch] > 0
      [] case[1] = "taken" -> inside[ch] = 0

Running  == ~dead /\ ~exited
InUser   == Running /\ phase[cur_coro] = "run" /\ want[cur_coro] = {}
Trying   == Running /\ phase[cur_coro] = "run" /\ want[cur_coro] # {}
-------------------------------------------------------------------------------
\* A context comes to a channel operation.
Start(cases) ==
    /\ InUser
    /\ waits < MaxWaits
    /\ cases \in (IF cur_coro = 0 THEN MainWork ELSE Work)
    /\ want' = [want EXCEPT ![cur_coro] = cases]
    /\ waits' = waits + 1
    /\ UNCHANGED <<coros, cur_coro, chans, phase, chan_epoch, stall, ends, born>>

\* The operation goes through: a value placed or taken bumps the epoch, a
\* zero from a closed channel does not.
Perform(case) ==
    LET ch == case[2] IN
    /\ Trying
    /\ case \in want[cur_coro]
    /\ Ready(case)
    /\ exited' = (case[1] = "send" /\ closed[ch])
    /\ LET change == CASE case[1] = "send" /\ ~closed[ch]    -> 1
                       [] case[1] = "recv" /\ inside[ch] > 0 -> -1
                       [] OTHER                              -> 0
       IN  /\ inside' = [inside EXCEPT ![ch] = @ + change]
           /\ chan_epoch' = IF change = 0 THEN chan_epoch ELSE chan_epoch + 1
           /\ want' = [want EXCEPT ![cur_coro] =
                IF change = 1 /\ Room[ch] = 0 /\ want[cur_coro] = {case}
                THEN {<<"taken", ch>>} ELSE {}]
    /\ UNCHANGED <<coros, cur_coro, closed, phase, stall, dead, hist>>

Close(ch) ==
    /\ InUser
    /\ ~closed[ch]
    /\ closed' = [closed EXCEPT ![ch] = TRUE]
    /\ chan_epoch' = chan_epoch + 1
    /\ UNCHANGED <<coros, cur_coro, inside, want, phase, stall, ends, hist>>

\* Leaves the running context in the given phase.
SwitchFrom(ph) ==
    /\ cur_coro' = CoroNext(coros, cur_coro)
    /\ phase' = [phase EXCEPT ![cur_coro] = ph]

\* What chan_block decides before it yields: with everybody counted blocked,
\* the same epoch seen again counts a stall, another epoch starts over.
\* Mutant of AllBlocked: main is counted among those that must block.
AllBlockedStrict == chan_nblocked + 1 > CoroLive(coros)
AllBlocked == chan_nblocked + 1 >= CoroLive(coros)
Stalled    == AllBlocked /\ chan_epoch = chan_stall_epoch
\* Mutant of Verdict: the first stall is enough.
VerdictAtOnce == Stalled
Verdict    == Stalled /\ chan_stall + 1 > CoroLive(coros) + 1

SetBlocked(b) ==
    coros' = IF cur_coro = 0 THEN coros ELSE [coros EXCEPT ![cur_coro].blocked = b]

\* chan_block on a thread with live coroutines, up to the switch.  coro_yield
\* always finds someone there: a coroutine finds main, main a coroutine.
\* (Without live coroutines chan_block returns at once and main tries again:
\* it spins without changing anything, which is no step here.)
Block ==
    /\ Trying
    /\ \A case \in want[cur_coro] : ~Ready(case)
    /\ CoroLive(coros) > 0
    /\ chan_nblocked' = chan_nblocked + 1
    /\ chan_stall' = IF Stalled THEN chan_stall + 1 ELSE IF AllBlocked THEN 1 ELSE chan_stall
    /\ chan_stall_epoch' = IF AllBlocked THEN chan_epoch ELSE chan_stall_epoch
    /\ dead' = Verdict
    /\ IF Verdict THEN UNCHANGED <<coros, cur_coro, phase>>
                  ELSE SetBlocked(TRUE) /\ SwitchFrom("blocked")
    /\ UNCHANGED <<chans, want, chan_epoch, exited, hist>>

\* Mutant of Wake: the count of blocked contexts is not taken back.
WakeUncounted ==
    /\ Running
    /\ phase[cur_coro] \in {"blocked", "yield"}
    /\ phase' = [phase EXCEPT ![cur_coro] = "run"]
    /\ SetBlocked(FALSE)
    /\ UNCHANGED <<cur_coro, chans, want, chan_epoch, stall, ends, hist>>

\* The context switched to goes on: after chan_block's yield it is no longer
\* counted and tries again, after a plain yield it is back in user code.
Wake ==
    /\ Running
    /\ phase[cur_coro] \in {"blocked", "yield"}
    /\ phase' = [phase EXCEPT ![cur_coro] = "run"]
    /\ IF phase[cur_coro] = "blocked"
       THEN SetBlocked(FALSE) /\ chan_nblocked' = chan_nblocked - 1
       ELSE UNCHANGED <<coros, chan_nblocked>>
    /\ UNCHANGED <<cur_coro, chans, want, chan_epoch, chan_stall, chan_stall_epoch, ends, hist>>
-------------------------------------------------------------------------------
Spawn ==
    LET id == FreeSlot(coros) IN
    /\ InUser
    /\ born < MaxSpawns
    /\ coros' = IF id = 0 THEN coros ELSE Fill(coros, id, Fresh(born + 1))
    /\ phase' = IF id = 0 THEN phase ELSE [phase EXCEPT ![id] = "run"]
    /\ born' = born + 1
    /\ UNCHANGED <<cur_coro, chans, want, chan_epoch, stall, ends, waits>>

Yield ==
    /\ InUser
    /\ cur_coro = 0 => MainYields
    /\ CoroNext(coros, cur_coro) # cur_coro
    /\ SwitchFrom("yield")
    /\ coros' = IF cur_coro = 0 THEN coros ELSE [coros EXCEPT ![cur_coro].parked = TRUE]
    /\ UNCHANGED <<chans, want, chan_epoch, stall, ends, hist>>

Finish ==
    /\ InUser
    /\ cur_coro # 0
    /\ coros' = [coros EXCEPT ![cur_coro].done = TRUE]
    /\ cur_coro' = CoroNext(coros, cur_coro)
    /\ UNCHANGED <<chans, want, phase, chan_epoch, stall, ends, hist>>

\* coro_run_all is entered, and yields until nothing is pending.
RunAll ==
    /\ InUser /\ cur_coro = 0
    /\ phase' = [phase EXCEPT ![0] = "join"]
    /\ UNCHANGED <<coros, cur_coro, chans, want, chan_epoch, stall, ends, hist>>

RunAllYield ==
    /\ Running /\ cur_coro = 0 /\ phase[0] = "join"
    /\ CoroPending(coros)
    /\ cur_coro' = CoroNext(coros, 0)
    /\ UNCHANGED <<coros, chans, want, phase, chan_epoch, stall, ends, hist>>

\* Nothing is pending: coro_run_all returns.
RunAllDone ==
    /\ Running /\ cur_coro = 0 /\ phase[0] = "join"
    /\ ~CoroPending(coros)
    /\ phase' = [phase EXCEPT ![0] = "run"]
    /\ UNCHANGED <<coros, cur_coro, chans, want, chan_epoch, stall, ends, hist>>

Next == \/ \E cases \in Work \cup MainWork : Start(cases)
        \/ \E case \in Cases : Perform(case)
        \/ \E ch \in Chans : Close(ch)
        \/ Block \/ Wake \/ Spawn \/ Yield \/ Finish
        \/ RunAll \/ RunAllYield \/ RunAllDone

Spec == Init /\ [][Next]_vars

\* The processor executes the running context: it never stops between two
\* of its instructions.
FairSpec == Spec /\ WF_vars(Next)
-------------------------------------------------------------------------------
(* Properties *)

TypeOK ==
    /\ coros \in Seq(SlotType(1 .. MaxSpawns)) /\ Len(coros) < Slots
    /\ cur_coro \in {0} \cup Live(coros)
    /\ \A ch \in Chans : inside[ch] \in 0 .. Alloc(ch) /\ closed[ch] \in BOOLEAN
    /\ want \in [Contexts -> SUBSET Cases]
    /\ phase \in [Contexts -> {"run", "yield", "blocked", "join"}]
    /\ chan_nblocked \in 0 .. Slots + 1
    /\ chan_stall \in 0 .. Slots + 2 /\ chan_stall_epoch \in Int /\ chan_epoch \in Nat
    /\ dead \in BOOLEAN /\ exited \in BOOLEAN

Blocked == {c \in {0} \cup Live(coros) : phase[c] = "blocked"}

\* The count the heuristic compares is the number of contexts suspended in
\* chan_block, and `blocked` marks the coroutines among them.
BlockedCounted ==
    /\ TypeOK
    /\ ~dead => /\ chan_nblocked = Cardinality(Blocked)
                /\ \A i \in Live(coros) : coros[i].blocked <=> i \in Blocked

\* A context is stuck when it waits inside a channel operation none of whose
\* cases can go through; main also when it only runs the others.
Stuck(c) ==
    \/ c = 0 /\ phase[0] = "join"
    \/ want[c] # {} /\ \A case \in want[c] : ~Ready(case)
AllStuck == \A c \in {0} \cup Live(coros) : Stuck(c)

\* "qela: deadlock, every coroutine is blocked on a channel" is only said
\* when it is so: nobody is left that could change a channel.
NoFalseAlarm == dead => AllStuck

\* A deadlock is reported rather than spun on (GUIDE, "Deadlock").
DeadlockReported == (Running /\ AllStuck /\ CoroPending(coros)) ~> dead
===============================================================================
