--------------------------------- MODULE Chan ---------------------------------
(***************************************************************************)
(* One channel of std/chan.qela shared by OS threads.  Every operation is  *)
(* the code's lock / look / change / unlock sequence, a value being stored *)
(* and counted, or read and removed, in two steps, so that the threads     *)
(* interleave wherever the real ones can; the epoch is bumped after the    *)
(* unlock, as in the code.                                                 *)
(*                                                                         *)
(* chan_block is here only what the caller sees of it: it comes back and   *)
(* the operation is tried again.  What it does to the scheduler and when   *)
(* it declares deadlock is in the modules ChanSched and ChanRegistry.      *)
(***************************************************************************)
EXTENDS Integers, Sequences, FiniteSets

CONSTANTS
    Threads,    \* the OS threads that share the channel
    Values,     \* values of the element type T
    Zero,       \* the zeroed element, `var zero T`
    Cap,        \* the capacity chan_init was given, 0 for a rendezvous
    Ops,        \* Ops[t]: the operations thread t calls
    MaxSends,   \* bound: sends and try_sends started
    MaxCloses   \* bound: chan_close calls started

OpNames == {"send", "try_send", "recv", "recv_range", "try_recv", "close"}

ASSUME ChanAssumption ==
    /\ Cap \in Nat
    /\ Zero \in Values
    /\ MaxSends \in Nat /\ MaxCloses \in Nat
    /\ Ops \in [Threads -> SUBSET OpNames]

VARIABLES
    buf, n, head, closed, waiting, lock,    \* the fields of Chan(T)
    epoch,          \* chan_epoch, process global
    exited,         \* some thread called sys_exit
    pc,             \* where each thread is inside its operation
    op, arg,        \* the operation it executes and the value it carries
    next,           \* where it goes once it has released the lock
    res,            \* what its last operation answered
    sent, taken,    \* history: values placed and values taken, in order
    ticket,         \* history: position in `sent` of the thread's last value
    calls           \* history: how many calls of each bounded kind were made

fields == <<buf, n, head, closed, waiting>>
local  == <<op, arg>>
hist   == <<sent, taken, ticket, calls>>
vars   == <<fields, lock, epoch, exited, pc, local, next, res, hist>>

Alloc == IF Cap < 1 THEN 1 ELSE Cap

\* Position of the k-th buffered value; the code wraps by subtraction.
Slot(k) == IF head + k >= Cap THEN head + k - Cap ELSE head + k

FullLate == IF Cap = 0 THEN waiting ELSE n > Cap     \* mutant of Full
Full     == IF Cap = 0 THEN waiting ELSE n = Cap
HasValue == IF Cap = 0 THEN waiting ELSE n # 0

\* Where the next value goes and where the oldest one is.
Rear  == IF Cap = 0 THEN 0 ELSE Slot(n)
Front == IF Cap = 0 THEN 0 ELSE head

\* The values inside the channel, oldest first.
Contents == IF Cap = 0
            THEN IF waiting THEN <<buf[0]>> ELSE << >>
            ELSE [i \in 1 .. n |-> buf[Slot(i - 1)]]

PC      == {"idle", "acquire", "crit", "publish", "remove", "release", "bump", "block"}
Answers == {"none", "sent", "full", "value", "drained", "empty", "closed"}

Init ==
    /\ buf = [i \in 0 .. Alloc - 1 |-> Zero]
    /\ n = 0 /\ head = 0 /\ closed = FALSE /\ waiting = FALSE /\ lock = 0
    /\ epoch = 0
    /\ exited = FALSE
    /\ pc = [t \in Threads |-> "idle"]
    /\ op = [t \in Threads |-> "close"]
    /\ arg = [t \in Threads |-> Zero]
    /\ next = [t \in Threads |-> "idle"]
    /\ res = [t \in Threads |-> [kind |-> "none", val |-> Zero]]
    /\ sent = << >> /\ taken = << >>
    /\ ticket = [t \in Threads |-> 0]
    /\ calls = [sends |-> 0, closes |-> 0]
-------------------------------------------------------------------------------
\* The caller enters an operation; sends and closes are bounded.
Call(t, o, v) ==
    /\ pc[t] = "idle"
    /\ o \in Ops[t]
    /\ o \in {"send", "try_send"} => calls.sends < MaxSends
    /\ o \notin {"send", "try_send"} => v = Zero
    /\ o = "close" => calls.closes < MaxCloses
    /\ calls' = [sends  |-> calls.sends + (IF o \in {"send", "try_send"} THEN 1 ELSE 0),
                 closes |-> calls.closes + (IF o = "close" THEN 1 ELSE 0)]
    /\ pc' = [pc EXCEPT ![t] = "acquire"]
    /\ op' = [op EXCEPT ![t] = o]
    /\ arg' = [arg EXCEPT ![t] = v]
    /\ res' = [res EXCEPT ![t] = [kind |-> "none", val |-> Zero]]
    /\ UNCHANGED <<fields, lock, epoch, exited, next, sent, taken, ticket>>

\* Mutant of Acquire: an exchange that does not look at the old value.
AcquireBlind(t) ==
    /\ pc[t] = "acquire"
    /\ lock' = 1
    /\ pc' = [pc EXCEPT ![t] = "crit"]
    /\ UNCHANGED <<fields, epoch, exited, local, next, res, hist>>

\* chan_lock: the compare-and-swap that succeeds.
Acquire(t) ==
    /\ pc[t] = "acquire"
    /\ lock = 0
    /\ lock' = 1
    /\ pc' = [pc EXCEPT ![t] = "crit"]
    /\ UNCHANGED <<fields, epoch, exited, local, next, res, hist>>

\* Mutant of Release: the lock is held across chan_block.
ReleaseUnlessBlocked(t) ==
    /\ pc[t] = "release"
    /\ lock' = IF next[t] = "block" THEN lock ELSE 0
    /\ pc' = [pc EXCEPT ![t] = IF next[t] = "exit" THEN "idle" ELSE next[t]]
    /\ exited' = (exited \/ next[t] = "exit")
    /\ UNCHANGED <<fields, epoch, local, next, res, hist>>

\* chan_unlock, then on to whatever the branch taken inside decided.
Release(t) ==
    /\ pc[t] = "release"
    /\ lock' = 0
    /\ pc' = [pc EXCEPT ![t] = IF next[t] = "exit" THEN "idle" ELSE next[t]]
    /\ exited' = (exited \/ next[t] = "exit")
    /\ UNCHANGED <<fields, epoch, local, next, res, hist>>

\* On to the unlock: what to do after it, and the answer.
Leave(t, to, kind, val) ==
    /\ pc' = [pc EXCEPT ![t] = "release"]
    /\ next' = [next EXCEPT ![t] = to]
    /\ res' = [res EXCEPT ![t] = [kind |-> kind, val |-> val]]
    /\ UNCHANGED <<lock, epoch, exited, local, calls>>

\* On to the second half of a critical section.
Proceed(t, to) ==
    /\ pc' = [pc EXCEPT ![t] = to]
    /\ UNCHANGED <<closed, lock, epoch, exited, op, next, res, hist>>

InCrit(t, ops) == pc[t] = "crit" /\ op[t] \in ops
-------------------------------------------------------------------------------
(* chan_send and chan_try_send *)

\* "qela: send on a closed channel", then sys_exit(1).
SendOnClosed(t) ==
    /\ InCrit(t, {"send", "try_send"})
    /\ closed
    /\ Leave(t, "exit", "none", Zero)
    /\ UNCHANGED <<fields, sent, taken, ticket>>

\* No room: the blocking send goes to chan_block, the other one gives up.
SendFull(t) ==
    /\ InCrit(t, {"send", "try_send"})
    /\ ~closed
    /\ Full
    /\ IF op[t] = "send" THEN Leave(t, "block", "none", Zero)
                         ELSE Leave(t, "idle", "full", Zero)
    /\ UNCHANGED <<fields, sent, taken, ticket>>

\* The value is stored, in the handoff slot or behind the buffered ones ...
Store(t) ==
    /\ buf' = [buf EXCEPT ![Rear] = arg[t]]
    /\ Proceed(t, "publish")
    /\ UNCHANGED <<n, head, waiting, arg>>

\* Mutants of SendStore: no look at closed; no look at the room.
SendStoreClosed(t) == InCrit(t, {"send", "try_send"}) /\ ~Full /\ Store(t)
SendStoreOver(t)   == InCrit(t, {"send", "try_send"}) /\ ~closed /\ Store(t)

SendStore(t) ==
    /\ InCrit(t, {"send", "try_send"})
    /\ ~closed
    /\ ~Full
    /\ Store(t)

\* ... and then counted, which is when a receiver can see it.
SendPublish(t) ==
    /\ pc[t] = "publish"
    /\ IF Cap = 0 THEN waiting' = TRUE /\ UNCHANGED n
                  ELSE n' = n + 1 /\ UNCHANGED waiting
    /\ sent' = Append(sent, arg[t])
    /\ ticket' = [ticket EXCEPT ![t] = Len(sent) + 1]
    /\ Leave(t, "bump", "sent", Zero)
    /\ UNCHANGED <<buf, head, closed, taken>>

\* Mutant of AwaitTaken: the slot is not looked at again.
AwaitNothing(t) ==
    /\ InCrit(t, {"await"})
    /\ Leave(t, "idle", "sent", Zero)
    /\ UNCHANGED <<fields, sent, taken, ticket>>

\* chan_send's second loop: a rendezvous send looks at the slot until it
\* finds it empty.
AwaitTaken(t) ==
    /\ InCrit(t, {"await"})
    /\ IF waiting THEN Leave(t, "block", "none", Zero)
                  ELSE Leave(t, "idle", "sent", Zero)
    /\ UNCHANGED <<fields, sent, taken, ticket>>
-------------------------------------------------------------------------------
(* chan_recv, chan_recv_range and chan_try_recv *)

Recvs == {"recv", "recv_range", "try_recv"}

\* The oldest value is read ...
RecvLoad(t) ==
    /\ InCrit(t, Recvs)
    /\ HasValue
    /\ arg' = [arg EXCEPT ![t] = buf[Front]]
    /\ Proceed(t, "remove")
    /\ UNCHANGED <<buf, n, head, waiting>>

\* ... and then removed, the head wrapping at the capacity.
RecvRemove(t) ==
    /\ pc[t] = "remove"
    /\ IF Cap = 0
       THEN waiting' = FALSE /\ UNCHANGED <<n, head>>
       ELSE /\ head' = IF head + 1 >= Cap THEN 0 ELSE head + 1
            /\ n' = n - 1
            /\ UNCHANGED waiting
    /\ taken' = Append(taken, arg[t])
    /\ Leave(t, "bump", "value", arg[t])
    /\ UNCHANGED <<buf, closed, sent, ticket>>

\* Mutant of RecvDrained: closed is looked at before the values.
RecvDrainedEarly(t) ==
    /\ InCrit(t, Recvs)
    /\ closed
    /\ Leave(t, "idle", "drained", Zero)
    /\ UNCHANGED <<fields, sent, taken, ticket>>

\* Closed and nothing left: a zeroed element.
RecvDrained(t) ==
    /\ InCrit(t, Recvs)
    /\ ~HasValue
    /\ closed
    /\ Leave(t, "idle", "drained", Zero)
    /\ UNCHANGED <<fields, sent, taken, ticket>>

\* Mutant of RecvEmpty: closed is not looked at.
RecvEmptyForever(t) ==
    /\ InCrit(t, Recvs)
    /\ ~HasValue
    /\ IF op[t] = "try_recv" THEN Leave(t, "idle", "empty", Zero)
                             ELSE Leave(t, "block", "none", Zero)
    /\ UNCHANGED <<fields, sent, taken, ticket>>

RecvEmpty(t) ==
    /\ InCrit(t, Recvs)
    /\ ~HasValue
    /\ ~closed
    /\ IF op[t] = "try_recv" THEN Leave(t, "idle", "empty", Zero)
                             ELSE Leave(t, "block", "none", Zero)
    /\ UNCHANGED <<fields, sent, taken, ticket>>
-------------------------------------------------------------------------------
\* Mutant of CloseBody: no atomic_add after the unlock.
CloseSilently(t) ==
    /\ InCrit(t, {"close"})
    /\ closed' = TRUE
    /\ Leave(t, "idle", "closed", Zero)
    /\ UNCHANGED <<buf, n, head, waiting, sent, taken, ticket>>

\* chan_close's critical section.
CloseBody(t) ==
    /\ InCrit(t, {"close"})
    /\ closed' = TRUE
    /\ Leave(t, "bump", "closed", Zero)
    /\ UNCHANGED <<buf, n, head, waiting, sent, taken, ticket>>

\* atomic_add(&chan_epoch, 1), after the unlock; a rendezvous send goes on
\* to wait for its value to be taken.
Bump(t) ==
    /\ pc[t] = "bump"
    /\ epoch' = epoch + 1
    /\ IF Cap = 0 /\ op[t] = "send"
       THEN /\ pc' = [pc EXCEPT ![t] = "acquire"]
            /\ op' = [op EXCEPT ![t] = "await"]
            /\ res' = [res EXCEPT ![t] = [kind |-> "none", val |-> Zero]]
       ELSE /\ pc' = [pc EXCEPT ![t] = "idle"]
            /\ UNCHANGED <<op, res>>
    /\ UNCHANGED <<fields, lock, exited, arg, next, hist>>

\* chan_block returned: try again.
Retry(t) ==
    /\ pc[t] = "block"
    /\ pc' = [pc EXCEPT ![t] = "acquire"]
    /\ UNCHANGED <<fields, lock, epoch, exited, local, next, res, hist>>

Crit(t) == \/ SendOnClosed(t) \/ SendFull(t) \/ SendStore(t) \/ SendPublish(t) \/ AwaitTaken(t)
           \/ RecvLoad(t) \/ RecvRemove(t) \/ RecvDrained(t) \/ RecvEmpty(t)
           \/ CloseBody(t)

Step(t) == Acquire(t) \/ Crit(t) \/ Release(t) \/ Bump(t) \/ Retry(t)

\* sys_exit ends every thread of the process.
Next == /\ ~exited
        /\ \E t \in Threads : \/ \E o \in OpNames, v \in Values : Call(t, o, v)
                              \/ Step(t)

Spec == Init /\ [][Next]_vars

\* A started operation keeps being scheduled, and a thread that finds the
\* spinlock free again and again gets it in the end (chan_lock yields the
\* processor between attempts).
Fairness == \A t \in Threads : /\ WF_vars(~exited /\ Step(t))
                               /\ SF_vars(~exited /\ Acquire(t))
FairSpec == Spec /\ Fairness
-------------------------------------------------------------------------------
(* Properties *)

FieldsType ==
    /\ buf \in [0 .. Alloc - 1 -> Values]
    /\ n \in 0 .. Cap
    /\ head \in 0 .. Alloc - 1
    /\ closed \in BOOLEAN /\ waiting \in BOOLEAN

ControlType ==
    /\ lock \in {0, 1} /\ epoch \in Nat /\ exited \in BOOLEAN
    /\ pc \in [Threads -> PC]
    /\ op \in [Threads -> OpNames \cup {"await"}]
    /\ arg \in [Threads -> Values]
    /\ next \in [Threads -> {"idle", "bump", "block", "exit"}]
    /\ res \in [Threads -> [kind : Answers, val : Values]]

HistoryType ==
    /\ sent \in Seq(Values) /\ taken \in Seq(Values)
    /\ ticket \in [Threads -> Nat]
    /\ calls \in [sends : Nat, closes : Nat]

\* Every variable has its type; the ring indices stay inside the buffer and
\* the count between 0 and the capacity.
TypeOK == FieldsType /\ ControlType /\ HistoryType

Holds(t) == pc[t] \in {"crit", "publish", "remove", "release"}

\* One thread at a time is between chan_lock and chan_unlock, and the lock word
\* says whether there is one.
MutualExclusion ==
    /\ \A t, u \in Threads : Holds(t) /\ Holds(u) => t = u
    /\ lock = 1 <=> \E t \in Threads : Holds(t)

\* Nothing is lost, duplicated or reordered: what was accepted is what was
\* handed out followed by what is still inside, whoever did either.
FifoNoLoss == sent = taken \o Contents

\* What a thread saw when it entered is still so when it counts or removes
\* the value: room and an open channel for the sender, the same oldest value
\* for the receiver.
StillSo ==
    \A t \in Threads :
        /\ pc[t] = "publish" => ~closed /\ ~Full /\ buf[Rear] = arg[t]
        /\ pc[t] = "remove" => HasValue /\ buf[Front] = arg[t]

\* "A spinlock guards every field above": the fields stay within their bounds,
\* one thread at a time is inside, and nobody changes what it acts on.
Guarded == TypeOK /\ MutualExclusion /\ StillSo

Delivered(t) == ticket[t] <= Len(taken)

\* A rendezvous chan_send "does not return until the receiver has actually
\* taken it out of the slot", also when other senders use the same slot.
RendezvousTaken ==
    \A t \in Threads : op[t] = "await" /\ pc[t] = "idle" => Delivered(t)

\* The closed-and-drained answer is final: whoever gets it, every value ever
\* accepted has been received and none will be accepted again.
DrainedIsFinal ==
    \A t \in Threads : res[t].kind = "drained" => closed /\ taken = sent

ClosesDone ==
    calls.closes - Cardinality({t \in Threads : op[t] = "close" /\ pc[t] \in {"acquire", "crit"}})

Owing == {t \in Threads : pc[t] = "bump" \/ (pc[t] = "release" /\ next[t] = "bump")}

\* The epoch counts every change of the channel exactly once, late by at
\* most the threads that are between their unlock and their atomic_add; the
\* stall heuristic of chan_block compares nothing else.
EpochAccounts ==
    epoch + Cardinality(Owing) = Len(sent) + Len(taken) + ClosesDone

\* The lock sequences implement the abstract channel.
Abs == INSTANCE ChanSpec WITH queue <- Contents, Room <- Alloc
AbsSpec == Abs!Spec

\* A receiver that waits on a closed channel comes back: with a value that
\* was left or with the drained answer, however the other threads compete.
ClosedReceiverReturns ==
    \A t \in Threads :
        (closed /\ op[t] \in Recvs /\ pc[t] # "idle") ~> (pc[t] = "idle" \/ exited)

\* A blocking receiver with a value inside the channel is not forgotten: the
\* value is handed out, to it or to a rival.
WaitingValueTaken ==
    \A t \in Threads :
        (HasValue /\ op[t] \in Recvs /\ pc[t] \in {"acquire", "block"})
            ~> (res[t].kind # "none" \/ ~HasValue \/ exited)
===============================================================================
