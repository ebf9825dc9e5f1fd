------------------------------ MODULE PoolProofs -------------------------------
(***************************************************************************)
(* Proofs about Pool, for any number of workers, any ring length, any      *)
(* table size and any tasks: rings give their requests out once and in     *)
(* order, nobody runs on a stack that is not his, and a context in a       *)
(* channel wait does not change worker; and a task, each with a go() of    *)
(* its own, is in one place at a time.                                     *)
(***************************************************************************)
EXTENDS Pool, CoroTableProofs

\* Threads between taking a ring's lock and giving it back, and those that
\* have a request in their hand.
Requests   == Tasks \cup {None}
InsideRing == {"pop", "advance", "gput"}
Carrying   == {"advance", "spawn", "glock", "gput"}
Labels     == {"idle", "drain", "look", "turn", "mail", "try", "offer", "donate", "switch", "run"}
              \cup InsideRing \cup Carrying

RingTypes ==
    /\ pool_queue \in [Workers -> [0 .. QueueLen - 1 -> Requests]]
    /\ pool_head \in [Workers -> Nat] /\ pool_tail \in [Workers -> Nat]
    /\ \A v \in Workers : pool_head[v] <= pool_tail[v] /\ pool_tail[v] <= pool_head[v] + QueueLen
    /\ pool_lock \in [Workers -> 0 .. 1] /\ pool_next \in Nat
    /\ pc \in [Threads -> Labels] /\ at \in [Threads -> Workers]
    /\ hand \in [Threads -> Requests]
    /\ accepted \in [Workers -> Seq(Tasks)] /\ popped \in [Workers -> Seq(Tasks)]

\* A request is in the hand of whoever is on the way with one.
HandsFull == \A t \in Threads : pc[t] \in Carrying => hand[t] \in Tasks

\* The try-lock keeps two threads out of one ring.
LockHeld ==
    /\ \A t \in Threads : pc[t] \in InsideRing => pool_lock[at[t]] = 1
    /\ \A t, u \in Threads :
           pc[t] \in InsideRing /\ pc[u] \in InsideRing /\ at[t] = at[u] => t = u

\* What was copied out is still the request in front.
CopyRight ==
    \A t \in Threads : pc[t] = "advance" =>
        /\ pool_head[at[t]] < pool_tail[at[t]]
        /\ hand[t] = pool_queue[at[t]][pool_head[at[t]] % QueueLen]

Fifo == \A v \in Workers : accepted[v] = popped[v] \o InRing(v)

RingInv == RingTypes /\ HandsFull /\ LockHeld /\ CopyRight /\ Fifo

TableTypes ==
    /\ coros \in [Workers -> Seq(SlotType(Tasks))]
    /\ \A w \in Workers : Len(coros[w]) < Slots
    /\ cur_coro \in [Workers -> Nat]
    /\ coro_handoff \in [Workers -> [state : {"EMPTY", "REQUEST", "BUSY", "READY"},
                                     who : Tasks \cup {None}]]
    /\ done_at \in [Tasks -> Nat] /\ waits_at \in [Tasks -> 0 .. N]
    /\ listed \in Nat
    /\ ended \subseteq Tasks /\ refused \subseteq Tasks

MailFull == \A w \in Workers : coro_handoff[w].state = "READY" => coro_handoff[w].who \in Tasks

\* Control is in a coroutine when its code runs.
InCoroutine == \A w \in Workers : pc[w] \in {"run", "glock", "gput"} => cur_coro[w] # 0

\* A task in a channel wait has a live slot that is marked blocked, on the
\* worker where the wait began, and has got no further in its body.
WaitsBlocked ==
    \A t \in Tasks : waits_at[t] # N =>
        /\ \E i \in Live(coros[waits_at[t]]) :
               coros[waits_at[t]][i].who = t /\ coros[waits_at[t]][i].blocked
        /\ done_at[t] < Len(Body[t]) /\ Body[t][done_at[t] + 1][1] = "wait"

TableInv == TableTypes /\ MailFull /\ InCoroutine /\ RunsWhatItOwns /\ WaitsBlocked

\* The inductive invariant.
PoolInv == RingInv /\ TableInv
--------------------------------------------------------------------------------
(* Positions of a ring *)

\* A remainder is below what is divided by.
LEMMA ModRange ==
    ASSUME NEW a \in Nat, NEW n \in Nat \ {0}
    PROVE  a % n \in 0 .. n - 1
OBVIOUS

\* Fewer than n steps further is another place of a ring of n.
LEMMA ModApart ==
    ASSUME NEW a \in Nat, NEW b \in Nat, NEW n \in Nat \ {0}, a < b, b < a + n
    PROVE  a % n # b % n
<1> DEFINE k == (b \div n) - (a \div n)
<1>1. a = (n * (a \div n)) + (a % n) /\ b = (n * (b \div n)) + (b % n)
      OBVIOUS
<1>2. a \div n \in Int /\ b \div n \in Int
      OBVIOUS
<1> SUFFICES ASSUME a % n = b % n PROVE FALSE
    OBVIOUS
<1>3. k \in Int /\ b - a = n * k
      BY <1>1, <1>2
<1> HIDE DEF k
<1>4. CASE k >= 1
      <2>1. n * k >= n
            BY <1>3, <1>4
      <2> QED BY <1>3, <2>1
<1>5. CASE k <= 0
      <2>1. n * k <= 0
            BY <1>3, <1>5
      <2> QED BY <1>3, <2>1
<1> QED BY <1>3, <1>4, <1>5

\* A ring read from its head to its tail.
Read(q, h, tl) == [i \in 1 .. tl - h |-> q[(h + i - 1) % QueueLen]]

\* Reading a ring gives a sequence of what its slots hold.
LEMMA ReadIsSeq ==
    ASSUME NEW q \in [0 .. QueueLen - 1 -> Requests], NEW h \in Nat, NEW tl \in Nat, h <= tl
    PROVE  /\ Read(q, h, tl) \in Seq(Requests) /\ Len(Read(q, h, tl)) = tl - h
           /\ \A i \in 1 .. tl - h : Read(q, h, tl)[i] = q[(h + i - 1) % QueueLen]
<1>1. \A i \in 1 .. tl - h : (h + i - 1) % QueueLen \in 0 .. QueueLen - 1
      <2> TAKE i \in 1 .. tl - h
      <2>1. h + i - 1 \in Nat
            OBVIOUS
      <2> QED BY <2>1, ModRange, PoolAssumption DEF PoolAssumption
<1>2. \A i \in 1 .. tl - h : q[(h + i - 1) % QueueLen] \in Requests
      BY <1>1
<1>3. tl - h \in Nat
      OBVIOUS
<1> QED BY <1>2, <1>3 DEF Read

\* Storing at the tail appends.
LEMMA PushAppends ==
    ASSUME NEW q \in [0 .. QueueLen - 1 -> Requests], NEW h \in Nat, NEW tl \in Nat,
           h <= tl, tl < h + QueueLen, NEW x \in Requests,
           NEW q2 \in [0 .. QueueLen - 1 -> Requests], q2[tl % QueueLen] = x,
           \A j \in 0 .. QueueLen - 1 : j # tl % QueueLen => q2[j] = q[j],
           NEW t2, t2 = tl + 1
    PROVE  Read(q2, h, t2) = Append(Read(q, h, tl), x)
<1>1. QueueLen \in Nat \ {0} /\ tl % QueueLen \in 0 .. QueueLen - 1
      BY ModRange, PoolAssumption DEF PoolAssumption
<1>2. tl + 1 \in Nat /\ h <= tl + 1 /\ tl + 1 - h \in Nat /\ tl - h \in Nat
      OBVIOUS
<1>3. PICK s : s = Read(q, h, tl)
      OBVIOUS
<1>4. PICK s2 : s2 = Read(q2, h, t2)
      OBVIOUS
<1>5. /\ s \in Seq(Requests) /\ Len(s) = tl - h
      /\ \A i \in 1 .. tl - h : s[i] = q[(h + i - 1) % QueueLen]
      BY <1>3, ReadIsSeq
<1>6. /\ s2 \in Seq(Requests) /\ Len(s2) = tl + 1 - h
      /\ \A i \in 1 .. tl + 1 - h : s2[i] = q2[(h + i - 1) % QueueLen]
      <2>1. t2 \in Nat /\ h <= t2
            BY <1>2
      <2>2. /\ s2 \in Seq(Requests) /\ Len(s2) = t2 - h
            /\ \A i \in 1 .. t2 - h : s2[i] = q2[(h + i - 1) % QueueLen]
            BY ZenonT(40), <1>4, <2>1, ReadIsSeq
      <2> QED BY <2>2
<1>7. \A i \in 1 .. tl - h : s2[i] = s[i]
      <2> TAKE i \in 1 .. tl - h
      <2>1. h + i - 1 \in Nat /\ h + i - 1 < tl /\ tl < (h + i - 1) + QueueLen
            BY <1>1
      <2>2. (h + i - 1) % QueueLen # tl % QueueLen
            BY <1>1, <2>1, ModApart
      <2>3. (h + i - 1) % QueueLen \in 0 .. QueueLen - 1
            BY <1>1, <2>1, ModRange
      <2>4. i \in 1 .. tl + 1 - h
            OBVIOUS
      <2>5. s2[i] = q2[(h + i - 1) % QueueLen] /\ s[i] = q[(h + i - 1) % QueueLen]
            BY <1>5, <1>6, <2>4
      <2> QED BY <2>2, <2>3, <2>5
<1>8. s2[tl + 1 - h] = x
       <2>1. h + (tl + 1 - h) - 1 = tl /\ tl + 1 - h \in 1 .. tl + 1 - h
             OBVIOUS
       <2> QED BY <1>6, <2>1
<1>9. Len(Append(s, x)) = tl + 1 - h /\ Append(s, x) \in Seq(Requests)
       BY <1>5
<1>10. \A i \in 1 .. tl + 1 - h : Append(s, x)[i] = s2[i]
       BY <1>5, <1>7, <1>8
<1>11. s2 = Append(s, x)
       BY <1>6, <1>9, <1>10
<1> QED BY <1>3, <1>4, <1>11

\* One more at the end, on either side of the bracket.
LEMMA AppendAfter ==
    ASSUME NEW p \in Seq(Requests), NEW s \in Seq(Requests), NEW x \in Requests
    PROVE  p \o Append(s, x) = Append(p \o s, x)
<1>1. /\ p \o Append(s, x) \in Seq(Requests) /\ Append(p \o s, x) \in Seq(Requests)
      /\ Len(p \o Append(s, x)) = Len(Append(p \o s, x))
      OBVIOUS
<1>2. \A i \in 1 .. Len(Append(p \o s, x)) : (p \o Append(s, x))[i] = Append(p \o s, x)[i]
      OBVIOUS
<1> QED BY <1>1, <1>2

\* Taking the first of a sequence over to another changes nothing together.
LEMMA MoveFirst ==
    ASSUME NEW p \in Seq(Requests), NEW s \in Seq(Requests), NEW r \in Seq(Requests),
           Len(s) = Len(r) + 1, \A i \in 1 .. Len(r) : r[i] = s[i + 1]
    PROVE  Append(p, s[1]) \o r = p \o s
<1>1. s[1] \in Requests /\ Append(p, s[1]) \in Seq(Requests)
      OBVIOUS
<1>2. /\ Append(p, s[1]) \o r \in Seq(Requests) /\ p \o s \in Seq(Requests)
      /\ Len(Append(p, s[1]) \o r) = Len(p \o s)
      BY SMTT(30), <1>1
<1>3. \A i \in 1 .. Len(p \o s) : (Append(p, s[1]) \o r)[i] = (p \o s)[i]
      <2> TAKE i \in 1 .. Len(p \o s)
      <2>1. CASE i <= Len(p)
            BY <1>1, <2>1
      <2>2. CASE i = Len(p) + 1
            BY <1>1, <2>2
      <2>3. CASE i > Len(p) + 1
            <3>1. i - Len(p) - 1 \in 1 .. Len(r) /\ (i - Len(p) - 1) + 1 = i - Len(p)
                  BY <2>3
            <3>2. (Append(p, s[1]) \o r)[i] = r[i - Len(p) - 1]
                  BY <1>1, <2>3
            <3>3. (p \o s)[i] = s[i - Len(p)]
                  BY <2>3
            <3> QED BY <3>1, <3>2, <3>3
      <2> QED BY <2>1, <2>2, <2>3
<1> QED BY <1>2, <1>3

\* Moving the head takes the first one off.
LEMMA AdvanceTakes ==
    ASSUME NEW q \in [0 .. QueueLen - 1 -> Requests], NEW h \in Nat, NEW tl \in Nat, h < tl,
           NEW p \in Seq(Requests)
    PROVE  Append(p, q[h % QueueLen]) \o Read(q, h + 1, tl) = p \o Read(q, h, tl)
<1>1. h + 1 \in Nat /\ h + 1 <= tl /\ h <= tl
      OBVIOUS
<1>2. PICK s : s = Read(q, h, tl)
      OBVIOUS
<1>3. PICK r : r = Read(q, h + 1, tl)
      OBVIOUS
<1>4. /\ s \in Seq(Requests) /\ Len(s) = tl - h
      /\ \A i \in 1 .. tl - h : s[i] = q[(h + i - 1) % QueueLen]
      BY ZenonT(40), <1>1, <1>2, ReadIsSeq
<1>5. /\ r \in Seq(Requests) /\ Len(r) = tl - (h + 1)
      /\ \A i \in 1 .. tl - (h + 1) : r[i] = q[(h + 1 + i - 1) % QueueLen]
      BY ZenonT(40), <1>1, <1>3, ReadIsSeq
<1>6. s[1] = q[h % QueueLen]
      <2>1. h + 1 - 1 = h /\ 1 \in 1 .. tl - h
            OBVIOUS
      <2> QED BY <1>4, <2>1
<1>7. \A i \in 1 .. Len(r) : r[i] = s[i + 1]
      <2> TAKE i \in 1 .. Len(r)
      <2>1. i + 1 \in 1 .. tl - h /\ h + (i + 1) - 1 = h + 1 + i - 1
            BY <1>5
      <2>2. s[i + 1] = q[(h + (i + 1) - 1) % QueueLen]
            BY <1>4, <2>1
      <2> QED BY <1>5, <2>1, <2>2
<1>8. Len(s) = Len(r) + 1
      BY <1>4, <1>5
<1>9. Append(p, s[1]) \o r = p \o s
      BY <1>4, <1>5, <1>7, <1>8, MoveFirst
<1> QED BY <1>2, <1>3, <1>6, <1>9
--------------------------------------------------------------------------------
(* What keeps the rings in order *)

\* What a ring holds is Read from it.
LEMMA InRingIsRead ==
    /\ \A v : InRing(v) = Read(pool_queue[v], pool_head[v], pool_tail[v])
    /\ \A v : InRing(v)' = Read(pool_queue[v]', pool_head[v]', pool_tail[v]')
BY DEF InRing, Read

\* Workers are threads.
LEMMA WorkersAreThreads == Workers \subseteq Threads /\ Main \in Threads /\ Main \notin Workers
BY PoolAssumption DEF PoolAssumption, Workers, Threads, Main

\* One who holds no ring and no request goes somewhere where neither is held.
LEMMA MoveKeepsRing ==
    ASSUME RingInv, NEW w \in Workers, pc[w] \notin InsideRing \cup Carrying,
           NEW l \in Labels \ (InsideRing \cup Carrying), pc' = [pc EXCEPT ![w] = l],
           at' \in [Threads -> Workers], \A t \in Threads : t # w => at'[t] = at[t],
           UNCHANGED <<ring, pool_lock, pool_next, hand>>
    PROVE  RingInv'
<1>1. w \in Threads /\ pc \in [Threads -> Labels]
      BY WorkersAreThreads DEF RingInv, RingTypes
<1>2. pc' \in [Threads -> Labels] /\ pc'[w] = l /\ \A t \in Threads : t # w => pc'[t] = pc[t]
      BY <1>1
<1>3. RingTypes'
      BY <1>2 DEF RingInv, RingTypes, ring
<1>4. HandsFull'
      BY <1>2 DEF RingInv, HandsFull
<1>5. LockHeld'
      BY <1>2 DEF RingInv, LockHeld
<1>6. CopyRight'
      BY <1>2 DEF RingInv, CopyRight, ring, Carrying
<1>7. Fifo'
      BY InRingIsRead DEF RingInv, Fifo, ring
<1> QED BY <1>3, <1>4, <1>5, <1>6, <1>7 DEF RingInv

\* Where a look that gave nothing leads.
LEMMA LooksOn ==
    ASSUME RingInv, NEW w \in Workers, GaveNothing(w) \/ Further(w)
    PROVE  /\ \E l \in {"turn", "look", "mail"} : pc' = [pc EXCEPT ![w] = l]
           /\ at' \in [Threads -> Workers] /\ \A t \in Threads : t # w => at'[t] = at[t]
<1>1. w \in Threads /\ at \in [Threads -> Workers]
      BY WorkersAreThreads DEF RingInv, RingTypes
<1>2. (at[w] + 1) % N \in Workers
      <2>1. at[w] + 1 \in Nat
            BY <1>1 DEF Workers
      <2>2. (at[w] + 1) % N \in 0 .. N - 1
            BY <2>1, ModRange, PoolAssumption DEF PoolAssumption
      <2> QED BY <2>2 DEF Workers
<1> QED BY <1>1, <1>2 DEF GaveNothing, Further, Goto, Aim

\* A lock word is 0 or 1 again.
LEMMA LockTypes ==
    ASSUME RingInv, NEW v \in Workers, NEW b \in {0, 1}, pool_lock' = [pool_lock EXCEPT ![v] = b]
    PROVE  pool_lock' \in [Workers -> 0 .. 1]
<1>1. pool_lock \in [Workers -> 0 .. 1] /\ b \in 0 .. 1
      BY DEF RingInv, RingTypes
<1> QED BY <1>1

\* Going in where nobody is.
LEMMA EnterKeepsLock ==
    ASSUME RingTypes, LockHeld, NEW t \in Threads, pool_lock[at[t]] = 0,
           pc'[t] \in InsideRing, \A u \in Threads : u # t => pc'[u] = pc[u],
           pool_lock' = [pool_lock EXCEPT ![at[t]] = 1], at' = at
    PROVE  LockHeld'
<1>1. \A u \in Threads : u # t /\ pc'[u] \in InsideRing => at[u] # at[t]
      BY DEF LockHeld
<1>2. at \in [Threads -> Workers] /\ pool_lock \in [Workers -> 0 .. 1]
      BY DEF RingTypes
<1>3. pool_lock'[at[t]] = 1 /\ \A v \in Workers : v # at[t] => pool_lock'[v] = pool_lock[v]
      BY <1>2
<1> QED BY <1>1, <1>2, <1>3 DEF LockHeld

\* Going out.
LEMMA LeaveKeepsLock ==
    ASSUME RingTypes, LockHeld, NEW t \in Threads, pc[t] \in InsideRing,
           pc'[t] \notin InsideRing, \A u \in Threads : u # t => pc'[u] = pc[u] /\ at'[u] = at[u],
           pool_lock' = [pool_lock EXCEPT ![at[t]] = 0]
    PROVE  LockHeld'
<1>1. \A u \in Threads : u # t /\ pc'[u] \in InsideRing => at[u] # at[t]
      BY DEF LockHeld
<1>2. at \in [Threads -> Workers] /\ pool_lock \in [Workers -> 0 .. 1]
      BY DEF RingTypes
<1>3. \A v \in Workers : v # at[t] => pool_lock'[v] = pool_lock[v]
      BY <1>2
<1> QED BY <1>1, <1>2, <1>3 DEF LockHeld

\* One inside a ring is the only one who may change it under somebody's copy.
LEMMA AloneInside ==
    ASSUME LockHeld, NEW t \in Threads, pc[t] \in InsideRing,
           NEW u \in Threads, u # t, pc[u] = "advance"
    PROVE  at[u] # at[t]
BY DEF LockHeld, InsideRing

\* The other clauses of the invariant, when a step changes no ring.
LEMMA RingsAlone ==
    ASSUME RingInv, UNCHANGED ring
    PROVE  Fifo'
BY InRingIsRead DEF RingInv, Fifo, ring
--------------------------------------------------------------------------------
(* The steps that touch a ring, its lock or a request *)

\* Try-lock: taken where it was free, or on to the next queue.
LEMMA TryKeepsRing ==
    ASSUME RingInv, NEW w \in Workers, TryLock(w)
    PROVE  RingInv'
<1> USE DEF TryLock
<1>1. w \in Threads /\ pc[w] = "try" /\ UNCHANGED <<ring, pool_next, hand>>
      BY WorkersAreThreads
<1>2. CASE pool_lock[at[w]] = 0
      <2>1. pc' = [pc EXCEPT ![w] = "pop"] /\ at' = at /\ pool_lock' = [pool_lock EXCEPT ![at[w]] = 1]
            BY <1>2 DEF Goto
      <2>2. /\ pc' \in [Threads -> Labels] /\ pc'[w] = "pop"
            /\ \A t \in Threads : t # w => pc'[t] = pc[t]
            BY <1>1, <2>1 DEF RingInv, RingTypes, Labels, InsideRing
      <2>3. pool_lock' \in [Workers -> 0 .. 1]
            <3>1. at[w] \in Workers
                  BY <1>1 DEF RingInv, RingTypes
            <3> QED BY <2>1, <3>1, LockTypes
      <2>4. RingTypes'
            BY <1>1, <2>1, <2>2, <2>3 DEF RingInv, RingTypes, ring
      <2>5. HandsFull'
            BY <1>1, <2>2 DEF RingInv, HandsFull, Carrying
      <2>6. LockHeld'
            BY <1>1, <1>2, <2>1, <2>2, EnterKeepsLock DEF RingInv, InsideRing
      <2>7. CopyRight'
            BY <1>1, <2>1, <2>2 DEF RingInv, CopyRight, ring
      <2>8. Fifo'
            BY <1>1, RingsAlone
      <2> QED BY <2>4, <2>5, <2>6, <2>7, <2>8 DEF RingInv
<1>3. CASE pool_lock[at[w]] # 0
      <2>1. GaveNothing(w) /\ UNCHANGED pool_lock
            BY <1>3
      <2>2. PICK l \in {"turn", "look", "mail"} : pc' = [pc EXCEPT ![w] = l]
            BY <2>1, LooksOn
      <2>3. l \in Labels \ (InsideRing \cup Carrying) /\ pc[w] \notin InsideRing \cup Carrying
            BY <1>1 DEF Labels, InsideRing, Carrying
      <2> QED BY <1>1, <2>1, <2>2, <2>3, LooksOn, MoveKeepsRing
<1> QED BY <1>2, <1>3

\* A queue found empty under its lock.
LEMMA PopEmptyKeepsRing ==
    ASSUME RingInv, NEW w \in Workers, PopEmpty(w)
    PROVE  RingInv'
<1>1. w \in Threads /\ pc[w] = "pop" /\ UNCHANGED <<ring, pool_next, hand>>
      BY WorkersAreThreads DEF PopEmpty
<1>2. PICK l \in {"turn", "look", "mail"} : pc' = [pc EXCEPT ![w] = l]
      BY LooksOn DEF PopEmpty
<1>3. at' \in [Threads -> Workers] /\ \A t \in Threads : t # w => at'[t] = at[t]
      BY LooksOn DEF PopEmpty
<1>4. /\ pc' \in [Threads -> Labels] /\ pc'[w] = l
      /\ \A t \in Threads : t # w => pc'[t] = pc[t]
      BY <1>1, <1>2 DEF RingInv, RingTypes, Labels
<1>5. pool_lock' = [pool_lock EXCEPT ![at[w]] = 0] /\ pool_lock' \in [Workers -> 0 .. 1]
      <2>1. pool_lock' = [pool_lock EXCEPT ![at[w]] = 0]
            BY DEF PopEmpty, Unlock
      <2>2. at[w] \in Workers
            BY <1>1 DEF RingInv, RingTypes
      <2> QED BY <2>1, <2>2, LockTypes
<1>6. RingTypes'
      BY <1>1, <1>3, <1>4, <1>5 DEF RingInv, RingTypes, ring
<1>7. HandsFull'
      BY <1>1, <1>4 DEF RingInv, HandsFull, Carrying
<1>8. LockHeld'
      BY <1>1, <1>3, <1>4, <1>5, LeaveKeepsLock DEF RingInv, InsideRing
<1>9. CopyRight'
      BY <1>1, <1>3, <1>4 DEF RingInv, CopyRight, ring
<1> QED BY <1>1, <1>6, <1>7, <1>8, <1>9, RingsAlone DEF RingInv

\* The request in front of a ring that is not empty is one of the tasks.
LEMMA FrontIsTask ==
    ASSUME RingInv, NEW v \in Workers, ~QueueEmpty(v)
    PROVE  pool_head[v] < pool_tail[v] /\ pool_queue[v][pool_head[v] % QueueLen] \in Tasks
<1>1. /\ pool_queue[v] \in [0 .. QueueLen - 1 -> Requests]
      /\ pool_head[v] \in Nat /\ pool_tail[v] \in Nat /\ pool_head[v] < pool_tail[v]
      /\ accepted[v] \in Seq(Tasks) /\ popped[v] \in Seq(Tasks)
      BY DEF RingInv, RingTypes, QueueEmpty
<1>2. PICK s : s = Read(pool_queue[v], pool_head[v], pool_tail[v])
      OBVIOUS
<1>3. /\ s \in Seq(Requests) /\ Len(s) = pool_tail[v] - pool_head[v]
      /\ \A i \in 1 .. pool_tail[v] - pool_head[v] :
            s[i] = pool_queue[v][(pool_head[v] + i - 1) % QueueLen]
      <2>1. PICK q, h, tl : q = pool_queue[v] /\ h = pool_head[v] /\ tl = pool_tail[v]
            OBVIOUS
      <2>2. q \in [0 .. QueueLen - 1 -> Requests] /\ h \in Nat /\ tl \in Nat /\ h <= tl
            BY <1>1, <2>1
      <2>3. s = Read(q, h, tl)
            BY <1>2, <2>1
      <2>4. /\ s \in Seq(Requests) /\ Len(s) = tl - h
            /\ \A i \in 1 .. tl - h : s[i] = q[(h + i - 1) % QueueLen]
            BY <2>2, <2>3, ReadIsSeq
      <2> QED BY <2>1, <2>4
<1>4. accepted[v] = popped[v] \o s
      BY <1>2, InRingIsRead DEF RingInv, Fifo
<1>5. s[1] = pool_queue[v][pool_head[v] % QueueLen]
      <2>1. pool_head[v] + 1 - 1 = pool_head[v] /\ 1 \in 1 .. pool_tail[v] - pool_head[v]
            BY <1>1
      <2> QED BY <1>3, <2>1
<1>6. accepted[v][Len(popped[v]) + 1] = s[1] /\ Len(popped[v]) + 1 \in 1 .. Len(accepted[v])
      BY <1>1, <1>3, <1>4
<1>7. s[1] \in Tasks
      BY <1>1, <1>6
<1> QED BY <1>1, <1>5, <1>7

\* Copying out.
LEMMA CopyKeepsRing ==
    ASSUME RingInv, NEW w \in Workers, PopCopy(w)
    PROVE  RingInv'
<1> DEFINE v == at[w]
<1>1. /\ w \in Threads /\ pc[w] = "pop" /\ UNCHANGED <<ring, pool_next, pool_lock, at>>
      /\ v \in Workers /\ ~QueueEmpty(v)
      BY WorkersAreThreads DEF PopCopy, RingInv, RingTypes
<1>2. /\ pool_head[v] < pool_tail[v] /\ pool_queue[v][pool_head[v] % QueueLen] \in Tasks
      BY <1>1, FrontIsTask
<1>3. /\ pc' \in [Threads -> Labels] /\ pc'[w] = "advance"
      /\ \A t \in Threads : t # w => pc'[t] = pc[t]
      BY <1>1 DEF PopCopy, Goto, RingInv, RingTypes, Labels, InsideRing
<1>4. /\ hand' \in [Threads -> Requests]
      /\ hand'[w] = pool_queue[v][pool_head[v] % QueueLen]
      /\ \A t \in Threads : t # w => hand'[t] = hand[t]
      BY <1>1, <1>2 DEF PopCopy, RingInv, RingTypes, Requests
<1>5. RingTypes'
      BY <1>1, <1>3, <1>4 DEF RingInv, RingTypes, ring
<1>6. HandsFull'
      BY <1>2, <1>3, <1>4 DEF RingInv, HandsFull
<1>7. LockHeld'
      BY <1>1, <1>3 DEF RingInv, LockHeld, InsideRing
<1>8. CopyRight'
      BY <1>1, <1>2, <1>3, <1>4 DEF RingInv, CopyRight, ring
<1> QED BY <1>1, <1>5, <1>6, <1>7, <1>8, RingsAlone DEF RingInv

\* Giving the slot back.
LEMMA AdvanceKeepsRing ==
    ASSUME RingInv, NEW w \in Workers, PopAdvance(w)
    PROVE  RingInv'
<1> DEFINE v == at[w]
<1>1. /\ w \in Threads /\ pc[w] = "advance" /\ v \in Workers
      /\ UNCHANGED <<pool_queue, pool_tail, accepted, pool_next, at, hand>>
      BY WorkersAreThreads DEF PopAdvance, RingInv, RingTypes
<1>2. /\ pool_head[v] < pool_tail[v] /\ hand[w] \in Tasks
      /\ hand[w] = pool_queue[v][pool_head[v] % QueueLen]
      BY <1>1 DEF RingInv, CopyRight, HandsFull, Carrying
<1>3. /\ pc' \in [Threads -> Labels] /\ pc'[w] = "spawn"
      /\ \A t \in Threads : t # w => pc'[t] = pc[t]
      BY <1>1 DEF PopAdvance, Goto, RingInv, RingTypes, Labels, Carrying
<1>4. /\ pool_head' \in [Workers -> Nat] /\ pool_head'[v] = pool_head[v] + 1
      /\ \A u \in Workers : u # v => pool_head'[u] = pool_head[u]
      BY <1>1 DEF PopAdvance, RingInv, RingTypes
<1>5. /\ popped' \in [Workers -> Seq(Tasks)] /\ popped'[v] = Append(popped[v], hand[w])
      /\ \A u \in Workers : u # v => popped'[u] = popped[u]
      BY <1>1, <1>2 DEF PopAdvance, RingInv, RingTypes
<1>6. pool_lock' = [pool_lock EXCEPT ![v] = 0] /\ pool_lock' \in [Workers -> 0 .. 1]
      <2>1. pool_lock' = [pool_lock EXCEPT ![v] = 0]
            BY DEF PopAdvance, Unlock
      <2> QED BY <1>1, <2>1, LockTypes
<1>7. \A u \in Workers : pool_head'[u] <= pool_tail[u] /\ pool_tail[u] <= pool_head'[u] + QueueLen
      <2>1. \A u \in Workers : /\ pool_head[u] \in Nat /\ pool_tail[u] \in Nat
                                 /\ pool_head[u] <= pool_tail[u]
                                 /\ pool_tail[u] <= pool_head[u] + QueueLen
            BY DEF RingInv, RingTypes
      <2>2. QueueLen \in Nat
            BY PoolAssumption DEF PoolAssumption
      <2> QED BY <1>1, <1>2, <1>4, <2>1, <2>2
<1>8. RingTypes'
      BY <1>1, <1>3, <1>4, <1>5, <1>6, <1>7 DEF RingInv, RingTypes
<1>9. HandsFull'
      BY <1>1, <1>2, <1>3 DEF RingInv, HandsFull
<1>10. LockHeld'
       BY <1>1, <1>3, <1>6, LeaveKeepsLock DEF RingInv, InsideRing
<1>11. CopyRight'
       <2> SUFFICES ASSUME NEW t \in Threads, pc'[t] = "advance"
                    PROVE  /\ pool_head'[at[t]] < pool_tail[at[t]]
                           /\ hand[t] = pool_queue[at[t]][pool_head'[at[t]] % QueueLen]
           BY <1>1 DEF CopyRight
       <2>1. t # w /\ pc[t] = "advance"
             BY <1>3
       <2>2. at[t] # v /\ at[t] \in Workers
             BY <1>1, <2>1, AloneInside DEF RingInv, RingTypes, InsideRing
       <2> QED BY <1>4, <2>1, <2>2 DEF RingInv, CopyRight
<1>12. Fifo'
       <2> SUFFICES ASSUME NEW u \in Workers
                    PROVE  accepted[u] = popped'[u] \o Read(pool_queue[u], pool_head'[u], pool_tail[u])
           BY <1>1, InRingIsRead DEF Fifo
       <2>1. accepted[u] = popped[u] \o Read(pool_queue[u], pool_head[u], pool_tail[u])
             BY InRingIsRead DEF RingInv, Fifo
       <2>2. CASE u # v
             BY <1>4, <1>5, <2>1, <2>2
       <2>3. CASE u = v
             <3>1. /\ pool_queue[v] \in [0 .. QueueLen - 1 -> Requests]
                   /\ pool_head[v] \in Nat /\ pool_tail[v] \in Nat
                   /\ popped[v] \in Seq(Requests)
                   BY <1>1 DEF RingInv, RingTypes, Requests
             <3>2. Append(popped[v], pool_queue[v][pool_head[v] % QueueLen])
                       \o Read(pool_queue[v], pool_head[v] + 1, pool_tail[v])
                   = popped[v] \o Read(pool_queue[v], pool_head[v], pool_tail[v])
                   BY <1>2, <3>1, AdvanceTakes
             <3> QED BY <1>2, <1>4, <1>5, <2>1, <2>3, <3>2
       <2> QED BY <2>2, <2>3
<1> QED BY <1>8, <1>9, <1>10, <1>11, <1>12 DEF RingInv

\* coro_spawn of the request: the hand is empty again.
LEMMA SpawnKeepsRing ==
    ASSUME RingInv, NEW w \in Workers, SpawnRequest(w)
    PROVE  RingInv'
<1>1. /\ w \in Threads /\ pc[w] = "spawn"
      /\ UNCHANGED <<ring, pool_lock, pool_next, at>>
      BY WorkersAreThreads DEF SpawnRequest
<1>2. PICK l \in {"turn", "drain"} : pc' = [pc EXCEPT ![w] = l]
      BY DEF SpawnRequest, Goto
<1>3. /\ pc' \in [Threads -> Labels] /\ pc'[w] = l
      /\ \A t \in Threads : t # w => pc'[t] = pc[t]
      BY <1>1, <1>2 DEF RingInv, RingTypes, Labels
<1>4. hand' \in [Threads -> Requests] /\ \A t \in Threads : t # w => hand'[t] = hand[t]
      BY <1>1 DEF SpawnRequest, RingInv, RingTypes, Requests
<1>5. RingTypes'
      BY <1>1, <1>3, <1>4 DEF RingInv, RingTypes, ring
<1>6. HandsFull'
      BY <1>3, <1>4 DEF RingInv, HandsFull, Carrying
<1>7. LockHeld'
      BY <1>1, <1>3 DEF RingInv, LockHeld, InsideRing
<1>8. CopyRight'
      BY <1>1, <1>3, <1>4 DEF RingInv, CopyRight, ring
<1> QED BY <1>1, <1>5, <1>6, <1>7, <1>8, RingsAlone DEF RingInv

\* go begins: a ring is picked for the task.
LEMMA PickKeepsRing ==
    ASSUME RingInv, NEW t \in Threads, pc[t] \in {"idle", "run"}, NEW task \in Tasks,
           Pick(t, task), UNCHANGED <<ring, pool_lock>>
    PROVE  RingInv'
<1>1. pool_next % N \in Workers
      <2>1. pool_next \in Nat
            BY DEF RingInv, RingTypes
      <2> QED BY <2>1, ModRange, PoolAssumption DEF PoolAssumption, Workers
<1>2. /\ pc' \in [Threads -> Labels] /\ pc'[t] = "glock"
      /\ \A u \in Threads : u # t => pc'[u] = pc[u]
      BY DEF Pick, Goto, RingInv, RingTypes, Labels, Carrying
<1>3. at' \in [Threads -> Workers] /\ \A u \in Threads : u # t => at'[u] = at[u]
      BY <1>1 DEF Pick, Aim, RingInv, RingTypes
<1>4. /\ hand' \in [Threads -> Requests] /\ hand'[t] = task
      /\ \A u \in Threads : u # t => hand'[u] = hand[u]
      BY DEF Pick, RingInv, RingTypes, Requests
<1>5. pool_next' \in Nat
      BY DEF Pick, RingInv, RingTypes
<1>6. RingTypes'
      BY <1>2, <1>3, <1>4, <1>5 DEF RingInv, RingTypes, ring
<1>7. HandsFull'
      BY <1>2, <1>4 DEF RingInv, HandsFull
<1>8. LockHeld'
      BY <1>2, <1>3 DEF RingInv, LockHeld, InsideRing
<1>9. CopyRight'
      BY <1>2, <1>3, <1>4 DEF RingInv, CopyRight, ring
<1> QED BY <1>6, <1>7, <1>8, <1>9, RingsAlone DEF RingInv

\* go waits for the lock, and gives it back when the ring is full.
LEMMA GoLockKeepsRing ==
    ASSUME RingInv, NEW t \in Threads, GoLock(t) \/ GoFull(t)
    PROVE  RingInv'
<1>1. UNCHANGED <<ring, pool_next, at, hand>> /\ at[t] \in Workers
      BY DEF GoLock, GoFull, RingInv, RingTypes
<1>2. \A b \in {0, 1} : pool_lock' = [pool_lock EXCEPT ![at[t]] = b]
                          => pool_lock' \in [Workers -> 0 .. 1]
      BY <1>1, LockTypes
<1>3. CASE GoLock(t)
      <2>1. /\ pc[t] = "glock" /\ pool_lock[at[t]] = 0
            /\ pool_lock' = [pool_lock EXCEPT ![at[t]] = 1]
            BY <1>3 DEF GoLock
      <2>2. /\ pc' \in [Threads -> Labels] /\ pc'[t] = "gput"
            /\ \A u \in Threads : u # t => pc'[u] = pc[u]
            BY <1>3 DEF GoLock, Goto, RingInv, RingTypes, Labels, Carrying
      <2>3. RingTypes'
            BY <1>1, <1>2, <2>1, <2>2 DEF RingInv, RingTypes, ring
      <2>4. HandsFull'
            BY <1>1, <2>1, <2>2 DEF RingInv, HandsFull, Carrying
      <2>5. LockHeld'
            BY <1>1, <2>1, <2>2, EnterKeepsLock DEF RingInv, InsideRing
      <2>6. CopyRight'
            BY <1>1, <2>2 DEF RingInv, CopyRight, ring
      <2> QED BY <1>1, <2>3, <2>4, <2>5, <2>6, RingsAlone DEF RingInv
<1>4. CASE GoFull(t)
      <2>1. pc[t] = "gput" /\ pool_lock' = [pool_lock EXCEPT ![at[t]] = 0]
            BY <1>4 DEF GoFull, Unlock
      <2>2. /\ pc' \in [Threads -> Labels] /\ pc'[t] = "glock"
            /\ \A u \in Threads : u # t => pc'[u] = pc[u]
            BY <1>4 DEF GoFull, Goto, RingInv, RingTypes, Labels, Carrying
      <2>3. RingTypes'
            BY <1>1, <1>2, <2>1, <2>2 DEF RingInv, RingTypes, ring
      <2>4. HandsFull'
            BY <1>1, <2>1, <2>2 DEF RingInv, HandsFull, Carrying
      <2>5. LockHeld'
            BY <1>1, <2>1, <2>2, LeaveKeepsLock DEF RingInv, InsideRing
      <2>6. CopyRight'
            BY <1>1, <2>2 DEF RingInv, CopyRight, ring
      <2> QED BY <1>1, <2>3, <2>4, <2>5, <2>6, RingsAlone DEF RingInv
<1> QED BY <1>3, <1>4

\* go stores the task at the tail.
LEMMA PutKeepsRing ==
    ASSUME RingInv, NEW t \in Threads, GoPut(t)
    PROVE  RingInv'
<1> DEFINE v == at[t]
           p == pool_tail[v] % QueueLen
<1>1. /\ pc[t] = "gput" /\ v \in Workers /\ UNCHANGED <<pool_head, popped, pool_next, at>>
      BY DEF GoPut, RingInv, RingTypes
<1>2. hand[t] \in Tasks
      BY <1>1 DEF RingInv, HandsFull, Carrying
<1>3. /\ QueueLen \in Nat \ {0}
      /\ \A u \in Workers : /\ pool_head[u] \in Nat /\ pool_tail[u] \in Nat
                             /\ pool_head[u] <= pool_tail[u]
                             /\ pool_tail[u] <= pool_head[u] + QueueLen
      BY PoolAssumption DEF PoolAssumption, RingInv, RingTypes
<1>4. pool_tail[v] < pool_head[v] + QueueLen
      BY <1>1, <1>3 DEF GoPut, RingFull
<1>5. p \in 0 .. QueueLen - 1
      BY <1>1, <1>3, ModRange
<1>6. PICK l \in {"idle", "run"} : pc' = [pc EXCEPT ![t] = l]
      BY DEF GoPut, Goto
<1>7. /\ pc' \in [Threads -> Labels] /\ pc'[t] = l
      /\ \A u \in Threads : u # t => pc'[u] = pc[u]
      BY <1>6 DEF RingInv, RingTypes, Labels
<1>8. /\ pool_tail' \in [Workers -> Nat] /\ pool_tail'[v] = pool_tail[v] + 1
      /\ \A u \in Workers : u # v => pool_tail'[u] = pool_tail[u]
      BY <1>1 DEF GoPut, RingInv, RingTypes
<1>9. /\ accepted' \in [Workers -> Seq(Tasks)] /\ accepted'[v] = Append(accepted[v], hand[t])
      /\ \A u \in Workers : u # v => accepted'[u] = accepted[u]
      BY <1>1, <1>2 DEF GoPut, RingInv, RingTypes
<1>10. pool_lock' = [pool_lock EXCEPT ![v] = 0] /\ pool_lock' \in [Workers -> 0 .. 1]
       <2>1. pool_lock' = [pool_lock EXCEPT ![v] = 0]
             BY DEF GoPut, Unlock
       <2> QED BY <1>1, <2>1, LockTypes
<1>11. hand' \in [Threads -> Requests] /\ \A u \in Threads : u # t => hand'[u] = hand[u]
       BY DEF GoPut, RingInv, RingTypes, Requests
<1>12. /\ pool_queue' \in [Workers -> [0 .. QueueLen - 1 -> Requests]]
       /\ pool_queue'[v][p] = hand[t]
       /\ \A j \in 0 .. QueueLen - 1 : j # p => pool_queue'[v][j] = pool_queue[v][j]
       /\ \A u \in Workers : u # v => pool_queue'[u] = pool_queue[u]
       <2>1. pool_queue' = [pool_queue EXCEPT ![v] = [pool_queue[v] EXCEPT ![p] = hand[t]]]
             BY <1>1 DEF GoPut
       <2>2. pool_queue \in [Workers -> [0 .. QueueLen - 1 -> Requests]] /\ hand[t] \in Requests
             BY <1>2 DEF RingInv, RingTypes, Requests
       <2> HIDE DEF p, v
       <2>3. [pool_queue[v] EXCEPT ![p] = hand[t]] \in [0 .. QueueLen - 1 -> Requests]
             BY <1>1, <1>5, <2>2
       <2> QED BY <1>1, <1>5, <2>1, <2>2, <2>3
<1>13. RingTypes'
       <2>1. \A u \in Workers : pool_head[u] <= pool_tail'[u] /\ pool_tail'[u] <= pool_head[u] + QueueLen
             BY <1>1, <1>3, <1>4, <1>8
       <2> QED BY <1>1, <1>7, <1>8, <1>9, <1>10, <1>11, <1>12, <2>1 DEF RingInv, RingTypes
<1>14. HandsFull'
       BY <1>7, <1>11 DEF RingInv, HandsFull, Carrying
<1>15. LockHeld'
       BY <1>1, <1>7, <1>10, LeaveKeepsLock DEF RingInv, InsideRing
<1>16. CopyRight'
       <2> SUFFICES ASSUME NEW u \in Threads, pc'[u] = "advance"
                    PROVE  /\ pool_head[at[u]] < pool_tail'[at[u]]
                           /\ hand'[u] = pool_queue'[at[u]][pool_head[at[u]] % QueueLen]
           BY <1>1 DEF CopyRight
       <2>1. u # t /\ pc[u] = "advance"
             BY <1>7
       <2>2. at[u] # v /\ at[u] \in Workers
             BY <1>1, <2>1, AloneInside DEF RingInv, RingTypes, InsideRing
       <2> QED BY <1>8, <1>11, <1>12, <2>1, <2>2 DEF RingInv, CopyRight
<1>17. Fifo'
       <2> SUFFICES ASSUME NEW u \in Workers
                    PROVE  accepted'[u] = popped[u] \o Read(pool_queue'[u], pool_head[u], pool_tail'[u])
           BY <1>1, InRingIsRead DEF Fifo
       <2>1. accepted[u] = popped[u] \o Read(pool_queue[u], pool_head[u], pool_tail[u])
             BY InRingIsRead DEF RingInv, Fifo
       <2>2. CASE u # v
             BY <1>8, <1>9, <1>12, <2>1, <2>2
       <2>3. CASE u = v
             <3>1. PICK q, q2, h, tl, x : /\ q = pool_queue[v] /\ q2 = pool_queue'[v]
                                         /\ h = pool_head[v] /\ tl = pool_tail[v] /\ x = hand[t]
                   OBVIOUS
             <3>2. /\ q \in [0 .. QueueLen - 1 -> Requests] /\ q2 \in [0 .. QueueLen - 1 -> Requests]
                   /\ h \in Nat /\ tl \in Nat /\ h <= tl /\ tl < h + QueueLen
                   /\ x \in Requests /\ popped[v] \in Seq(Requests)
                   BY SMTT(30), <1>1, <1>2, <1>3, <1>4, <1>12, <3>1 DEF RingInv, RingTypes, Requests
             <3>3. q2[tl % QueueLen] = x /\ \A j \in 0 .. QueueLen - 1 : j # tl % QueueLen => q2[j] = q[j]
                   BY <1>12, <3>1
             <3>4. \A t2 : t2 = tl + 1 => Read(q2, h, t2) = Append(Read(q, h, tl), x)
                   BY ZenonT(40), <3>2, <3>3, PushAppends
             <3>5. Read(q, h, tl) \in Seq(Requests)
                   BY <3>2, ReadIsSeq
             <3>6. popped[v] \o Append(Read(q, h, tl), x) = Append(popped[v] \o Read(q, h, tl), x)
                   BY <3>2, <3>5, AppendAfter
             <3>7. accepted'[v] = Append(accepted[v], x) /\ pool_tail'[v] = tl + 1
                   BY <1>8, <1>9, <3>1
             <3> QED BY <2>1, <2>3, <3>1, <3>4, <3>6, <3>7
       <2> QED BY <2>2, <2>3
<1> QED BY <1>13, <1>14, <1>15, <1>16, <1>17 DEF RingInv
--------------------------------------------------------------------------------
(* What keeps the tables in order *)

InCode == {"run", "glock", "gput"}

\* Steps that leave the tables alone.
LEMMA TableAlone ==
    ASSUME TableInv, UNCHANGED <<coros, cur_coro, coro_handoff, done_at, waits_at, ended, refused>>,
           listed' \in Nat, \A w \in Workers : pc'[w] \in InCode => pc[w] \in InCode
    PROVE  TableInv'
<1>1. TableTypes'
      BY DEF TableInv, TableTypes
<1>2. MailFull' /\ RunsWhatItOwns'
      BY DEF TableInv, MailFull, RunsWhatItOwns
<1>3. InCoroutine'
      BY DEF TableInv, InCoroutine, InCode
<1>4. WaitsBlocked'
      BY DEF TableInv, WaitsBlocked
<1> QED BY <1>1, <1>2, <1>3, <1>4 DEF TableInv

\* Where a worker's step leads, for the others too.
LEMMA OnlyMoves ==
    ASSUME RingInv, NEW t \in Threads, NEW l, Goto(t, l)
    PROVE  pc'[t] = l /\ \A u \in Threads : u # t => pc'[u] = pc[u]
BY DEF Goto, RingInv, RingTypes

\* Mailboxes change, tables do not.
LEMMA MailChanges ==
    ASSUME RingInv, TableInv, UNCHANGED <<coros, cur_coro, done_at, waits_at, ended, refused, listed>>,
           coro_handoff' \in [Workers -> [state : {"EMPTY", "REQUEST", "BUSY", "READY"},
                                          who : Tasks \cup {None}]],
           MailFull', \A w \in Workers : pc'[w] \in InCode => pc[w] \in InCode
    PROVE  TableInv'
<1>1. TableTypes'
      BY DEF TableInv, TableTypes
<1>2. RunsWhatItOwns'
      BY DEF TableInv, RunsWhatItOwns
<1>3. InCoroutine'
      BY DEF TableInv, InCoroutine, InCode
<1>4. WaitsBlocked'
      BY DEF TableInv, WaitsBlocked
<1> QED BY <1>1, <1>2, <1>3, <1>4 DEF TableInv

\* A mailbox is put into another state than READY.
LEMMA MailSet ==
    ASSUME TableInv, NEW v \in Workers, NEW st \in {"EMPTY", "REQUEST", "BUSY"},
           coro_handoff' = [coro_handoff EXCEPT ![v].state = st]
    PROVE  /\ coro_handoff' \in [Workers -> [state : {"EMPTY", "REQUEST", "BUSY", "READY"},
                                             who : Tasks \cup {None}]]
           /\ MailFull'
<1>1. coro_handoff \in [Workers -> [state : {"EMPTY", "REQUEST", "BUSY", "READY"},
                                    who : Tasks \cup {None}]]
      BY DEF TableInv, TableTypes
<1>2. coro_handoff[v].who \in Tasks \cup {None}
      BY <1>1
<1>3. PICK box : box = [coro_handoff[v] EXCEPT !.state = st]
      OBVIOUS
<1>4. coro_handoff' = [coro_handoff EXCEPT ![v] = box]
      BY <1>3
<1>5. /\ box \in [state : {"EMPTY", "REQUEST", "BUSY", "READY"}, who : Tasks \cup {None}]
      /\ box.state = st
      BY <1>1, <1>3
<1>6. \A w \in Workers : coro_handoff'[w] = IF w = v THEN box ELSE coro_handoff[w]
      BY <1>1, <1>4
<1>7. \A w \in Workers : coro_handoff[w].state = "READY" => coro_handoff[w].who \in Tasks
      BY DEF TableInv, MailFull
<1> QED BY <1>1, <1>4, <1>5, <1>6, <1>7 DEF MailFull

\* Replacing the contents of a slot.
LEMMA ChangeSlot ==
    ASSUME NEW tab \in Seq(SlotType(Tasks)), NEW i \in 1 .. Len(tab), NEW slot \in SlotType(Tasks),
           NEW tab2, tab2 = [tab EXCEPT ![i] = slot]
    PROVE  /\ tab2 \in Seq(SlotType(Tasks)) /\ Len(tab2) = Len(tab)
           /\ \A j \in 1 .. Len(tab) : tab2[j] = IF j = i THEN slot ELSE tab[j]
OBVIOUS

\* One worker's table changes: the types.
LEMMA TabTypes ==
    ASSUME TableInv, NEW w \in Workers, NEW tab \in Seq(SlotType(Tasks)), Len(tab) < Slots,
           coros' = [coros EXCEPT ![w] = tab]
    PROVE  /\ coros' \in [Workers -> Seq(SlotType(Tasks))] /\ \A v \in Workers : Len(coros'[v]) < Slots
           /\ coros'[w] = tab /\ \A v \in Workers : v # w => coros'[v] = coros[v]
<1>1. coros \in [Workers -> Seq(SlotType(Tasks))] /\ \A v \in Workers : Len(coros[v]) < Slots
      BY DEF TableInv, TableTypes
<1> QED BY <1>1

\* A context in a channel wait stays where and what it is.
KeepsBlocked(tab, tab2) ==
    \A i \in Live(tab) : tab[i].blocked =>
        i \in Live(tab2) /\ tab2[i].who = tab[i].who /\ tab2[i].blocked

\* One worker's table changes, but not under a context in a channel wait.
LEMMA HomeKept ==
    ASSUME TableInv, NEW w \in Workers, KeepsBlocked(coros[w], coros'[w]),
           \A v \in Workers : v # w => coros'[v] = coros[v],
           UNCHANGED <<waits_at, done_at>>
    PROVE  WaitsBlocked'
<1> SUFFICES ASSUME NEW t \in Tasks, waits_at[t] # N
             PROVE  /\ \E i \in Live(coros'[waits_at[t]]) :
                           /\ coros'[waits_at[t]][i].who = t
                           /\ coros'[waits_at[t]][i].blocked
                    /\ done_at[t] < Len(Body[t]) /\ Body[t][done_at[t] + 1][1] = "wait"
    BY DEF WaitsBlocked
<1>1. /\ \E i \in Live(coros[waits_at[t]]) :
             coros[waits_at[t]][i].who = t /\ coros[waits_at[t]][i].blocked
      /\ done_at[t] < Len(Body[t]) /\ Body[t][done_at[t] + 1][1] = "wait"
      BY DEF TableInv, WaitsBlocked
<1>2. waits_at[t] \in Workers
      BY PoolAssumption DEF TableInv, TableTypes, Workers, PoolAssumption
<1>3. CASE waits_at[t] = w
      BY <1>1, <1>3 DEF KeepsBlocked
<1>4. CASE waits_at[t] # w
      BY <1>1, <1>2, <1>4
<1> QED BY <1>1, <1>3, <1>4

\* A slot that is not live is filled: nothing happens to the others.
LEMMA FillKeeps ==
    ASSUME NEW T, NEW tab \in Seq(T), Len(tab) < Slots, NEW id, id = FreeSlot(tab), id # 0,
           NEW slot \in T, ~slot.done, ~slot.moved
    PROVE  /\ Fill(tab, id, slot) \in Seq(T) /\ Len(Fill(tab, id, slot)) < Slots
           /\ Live(tab) \subseteq Live(Fill(tab, id, slot))
           /\ KeepsBlocked(tab, Fill(tab, id, slot))
<1>1. id \in 0 .. Slots - 1 /\ id <= Len(tab) + 1 /\ id \notin Live(tab)
      BY FreeSlotIsFree, PoolAssumption DEF PoolAssumption
<1>2. id \in 1 .. Len(tab) + 1
      BY <1>1
<1>3. PICK tab2 : tab2 = Fill(tab, id, slot)
      OBVIOUS
<1>4. /\ tab2 \in Seq(T)
      /\ Len(tab2) = IF id > Len(tab) THEN Len(tab) + 1 ELSE Len(tab)
      /\ \A j \in 1 .. Len(tab2) : tab2[j] = IF j = id THEN slot ELSE tab[j]
      <2>1. /\ Fill(tab, id, slot) \in Seq(T)
            /\ Len(Fill(tab, id, slot)) = IF id > Len(tab) THEN Len(tab) + 1 ELSE Len(tab)
            /\ \A j \in 1 .. Len(Fill(tab, id, slot)) :
                 Fill(tab, id, slot)[j] = IF j = id THEN slot ELSE tab[j]
            BY ONLY <1>2, FillSlot, tab \in Seq(T), slot \in T
      <2> QED BY <1>3, <2>1
<1>5. \A i \in Live(tab) : i \in 1 .. Len(tab) /\ i # id /\ ~tab[i].done /\ ~tab[i].moved
      BY <1>1 DEF Live, Runnable
<1>6. \A i \in Live(tab) : i \in 1 .. Len(tab2) /\ tab2[i] = tab[i]
      BY <1>2, <1>4, <1>5
<1>7. \A i \in Live(tab) : i \in Live(tab2)
      BY <1>4, <1>5, <1>6 DEF Live, Runnable
<1>8. Len(tab2) < Slots
      <2>1. Slots \in Nat /\ Len(tab) \in Nat
            BY PoolAssumption DEF PoolAssumption
      <2> QED BY <1>1, <1>4, <2>1
<1> QED BY <1>3, <1>4, <1>6, <1>7, <1>8 DEF KeepsBlocked

\* What is known of a running coroutine and of what it does next.
LEMMA RunningIsTask ==
    ASSUME PoolInv, NEW w \in Workers, pc[w] = "run"
    PROVE  /\ cur_coro[w] \in Live(coros[w]) /\ cur_coro[w] \in 1 .. Len(coros[w])
           /\ coros[w] \in Seq(SlotType(Tasks)) /\ Len(coros[w]) < Slots
           /\ coros[w][cur_coro[w]] \in SlotType(Tasks) /\ Running(w) \in Tasks
           /\ Op(w)[1] # "end" => /\ done_at[Running(w)] < Len(Body[Running(w)])
                                  /\ Op(w) = Body[Running(w)][done_at[Running(w)] + 1]
           /\ Op(w)[1] = "go" => Op(w)[2] \in Tasks
<1>1. coros[w] \in Seq(SlotType(Tasks)) /\ Len(coros[w]) < Slots
      BY DEF PoolInv, TableInv, TableTypes
<1>2. cur_coro[w] \in Live(coros[w])
      BY DEF PoolInv, TableInv, InCoroutine, RunsWhatItOwns
<1>3. cur_coro[w] \in 1 .. Len(coros[w])
      BY <1>1, <1>2 DEF Live
<1>4. coros[w][cur_coro[w]] \in SlotType(Tasks)
      BY <1>1, <1>3
<1>5. Running(w) \in Tasks
      BY <1>4 DEF Running, SlotType
<1>6. Op(w)[1] # "end" => /\ done_at[Running(w)] < Len(Body[Running(w)])
                          /\ Op(w) = Body[Running(w)][done_at[Running(w)] + 1]
      <2>1. CASE done_at[Running(w)] < Len(Body[Running(w)])
            BY <2>1 DEF Op
      <2>2. CASE ~ (done_at[Running(w)] < Len(Body[Running(w)]))
            <3>1. Op(w) = <<"end">>
                  BY <2>2 DEF Op
            <3> QED BY <3>1
      <2> QED BY <2>1, <2>2
<1>7. ASSUME Op(w)[1] = "go" PROVE Op(w)[2] \in Tasks
      <2>1. Body[Running(w)] \in Seq({<<"yield">>} \cup ({"go", "wait"} \X Tasks))
            BY <1>5, PoolAssumption DEF PoolAssumption
      <2>2. done_at[Running(w)] \in Nat
            BY <1>5 DEF PoolInv, TableInv, TableTypes
      <2>3. done_at[Running(w)] + 1 \in 1 .. Len(Body[Running(w)])
            BY <1>6, <1>7, <2>1, <2>2
      <2>4. Op(w) \in {<<"yield">>} \cup ({"go", "wait"} \X Tasks)
            BY <1>6, <1>7, <2>1, <2>3
      <2>5. <<"yield">>[1] # "go"
            OBVIOUS
      <2>6. Op(w) \in {"go", "wait"} \X Tasks
            BY <1>7, <2>4, <2>5
      <2> QED BY <2>6
<1> QED BY <1>1, <1>2, <1>3, <1>4, <1>5, <1>6, <1>7

\* A request, or a context from the mailbox, gets a slot.
LEMMA SpawnKeepsTables ==
    ASSUME PoolInv, NEW w \in Workers, SpawnRequest(w) \/ TakeReady(w)
    PROVE  TableInv'
<1> DEFINE id == FreeSlot(coros[w])
<1>1. w \in Threads /\ UNCHANGED <<cur_coro, done_at, waits_at, listed, ended>>
      BY WorkersAreThreads DEF SpawnRequest, TakeReady
<1>2. coros[w] \in Seq(SlotType(Tasks)) /\ Len(coros[w]) < Slots
      BY DEF PoolInv, TableInv, TableTypes
<1>3. \A v \in Workers : pc'[v] \in InCode => pc[v] \in InCode
      <2>1. \E l \in {"turn", "drain"} : Goto(w, l)
            BY DEF SpawnRequest, TakeReady
      <2> QED BY <1>1, <2>1, OnlyMoves, WorkersAreThreads DEF PoolInv, InCode
<1>4. /\ coro_handoff' \in [Workers -> [state : {"EMPTY", "REQUEST", "BUSY", "READY"},
                                         who : Tasks \cup {None}]]
      /\ MailFull'
      <2>1. CASE coro_handoff' = coro_handoff
            BY <2>1 DEF PoolInv, TableInv, TableTypes, MailFull
      <2>2. CASE coro_handoff' = [coro_handoff EXCEPT ![w].state = "EMPTY"]
            BY <2>2, MailSet DEF PoolInv
      <2>3. CASE coro_handoff' = [coro_handoff EXCEPT ![w] = [state |-> "EMPTY", who |-> None]]
            BY <2>3 DEF PoolInv, TableInv, TableTypes, MailFull
      <2> QED BY <2>1, <2>2, <2>3 DEF SpawnRequest, TakeReady
<1>5. PICK slot \in SlotType(Tasks), who \in Tasks :
         /\ ~slot.done /\ ~slot.moved
         /\ IF id = 0 THEN refused' = refused \cup {who} /\ UNCHANGED coros
            ELSE coros' = [coros EXCEPT ![w] = Fill(@, id, slot)] /\ UNCHANGED refused
      <2>1. CASE SpawnRequest(w)
            <3>1. hand[w] \in Tasks
                  BY <1>1, <2>1 DEF SpawnRequest, PoolInv, RingInv, HandsFull, Carrying
            <3>2. Fresh(hand[w]) \in SlotType(Tasks) /\ ~Fresh(hand[w]).done /\ ~Fresh(hand[w]).moved
                  BY <3>1 DEF Fresh, SlotType
            <3> QED BY <2>1, <3>1, <3>2 DEF SpawnRequest
      <2>2. CASE TakeReady(w)
            <3>1. coro_handoff[w].who \in Tasks
                  BY <2>2 DEF TakeReady, PoolInv, TableInv, MailFull
            <3>2. PICK slot : slot = Imported(coro_handoff[w].who)
                  OBVIOUS
            <3>3. slot \in SlotType(Tasks) /\ ~slot.done /\ ~slot.moved
                  BY <3>1, <3>2 DEF Imported, Fresh, SlotType
            <3> QED BY <2>2, <3>1, <3>2, <3>3 DEF TakeReady
      <2> QED BY <2>1, <2>2
<1>6. refused' \subseteq Tasks
      BY <1>5 DEF PoolInv, TableInv, TableTypes
<1>7. CASE id = 0
      <2>1. UNCHANGED coros
            BY <1>5, <1>7
      <2>2. TableTypes'
            BY <1>1, <1>4, <1>6, <2>1 DEF PoolInv, TableInv, TableTypes
      <2>3. RunsWhatItOwns' /\ WaitsBlocked'
            BY <1>1, <2>1 DEF PoolInv, TableInv, RunsWhatItOwns, WaitsBlocked
      <2>4. InCoroutine'
            BY <1>1, <1>3 DEF PoolInv, TableInv, InCoroutine, InCode
      <2> QED BY <1>4, <2>2, <2>3, <2>4 DEF TableInv
<1>8. CASE id # 0
      <2>1. PICK tab : tab = Fill(coros[w], id, slot)
            OBVIOUS
      <2>2. /\ tab \in Seq(SlotType(Tasks)) /\ Len(tab) < Slots
            /\ Live(coros[w]) \subseteq Live(tab) /\ KeepsBlocked(coros[w], tab)
            BY <1>2, <1>5, <1>8, <2>1, FillKeeps
      <2>3. coros' = [coros EXCEPT ![w] = tab]
            BY <1>5, <1>8, <2>1
      <2>4. /\ coros' \in [Workers -> Seq(SlotType(Tasks))] /\ \A v \in Workers : Len(coros'[v]) < Slots
            /\ coros'[w] = tab /\ \A v \in Workers : v # w => coros'[v] = coros[v]
            BY <2>2, <2>3, TabTypes DEF PoolInv
      <2>5. TableTypes'
            BY <1>1, <1>4, <1>6, <2>4 DEF PoolInv, TableInv, TableTypes
      <2>6. RunsWhatItOwns'
            BY <1>1, <2>2, <2>4 DEF PoolInv, TableInv, RunsWhatItOwns
      <2>7. WaitsBlocked'
            BY <1>1, <2>2, <2>4, HomeKept DEF PoolInv
      <2>8. InCoroutine'
            BY <1>1, <1>3 DEF PoolInv, TableInv, InCoroutine, InCode
      <2> QED BY <1>4, <2>5, <2>6, <2>7, <2>8 DEF TableInv
<1> QED BY <1>7, <1>8

\* Asking, taking a request on, and having nothing for it.
LEMMA MailKeepsTables ==
    ASSUME PoolInv, NEW w \in Workers, AskForOne(w) \/ Offer(w) \/ NothingToSpare(w)
    PROVE  TableInv'
<1>1. /\ w \in Threads /\ at[w] \in Workers
      /\ UNCHANGED <<coros, cur_coro, done_at, waits_at, ended, refused, listed>>
      BY WorkersAreThreads DEF AskForOne, Offer, NothingToSpare, PoolInv, RingInv, RingTypes
<1>2. \A v \in Workers : pc'[v] \in InCode => pc[v] \in InCode
      <2>1. pc' = pc \/ \E l \in {"drain", "donate", "switch", "offer"} : Goto(w, l)
            BY DEF AskForOne, Offer, NextOffer, NothingToSpare
      <2> QED BY <1>1, <2>1, OnlyMoves, WorkersAreThreads DEF PoolInv, InCode
<1>3. /\ coro_handoff' \in [Workers -> [state : {"EMPTY", "REQUEST", "BUSY", "READY"},
                                         who : Tasks \cup {None}]]
      /\ MailFull'
      <2>1. CASE coro_handoff' = coro_handoff
            BY <2>1 DEF PoolInv, TableInv, TableTypes, MailFull
      <2>2. CASE \E v \in Workers, st \in {"EMPTY", "REQUEST", "BUSY"} :
                     coro_handoff' = [coro_handoff EXCEPT ![v].state = st]
            BY <2>2, MailSet DEF PoolInv
      <2> QED BY <1>1, <2>1, <2>2 DEF AskForOne, Offer, NothingToSpare
<1> QED BY <1>1, <1>2, <1>3, MailChanges DEF PoolInv

\* A context that may leave is not the running one and not in a channel wait.
LEMMA DonateKeepsTables ==
    ASSUME PoolInv, NEW w \in Workers, Donate(w)
    PROVE  TableInv'
<1> DEFINE spare == Spare(coros[w], cur_coro[w])
<1>0. PICK i : i = Least(spare)
      OBVIOUS
<1>1. /\ w \in Threads /\ at[w] \in Workers
      /\ UNCHANGED <<cur_coro, done_at, waits_at, listed, ended, refused>>
      BY WorkersAreThreads DEF Donate, PoolInv, RingInv, RingTypes
<1>2. coros[w] \in Seq(SlotType(Tasks)) /\ Len(coros[w]) < Slots
      BY DEF PoolInv, TableInv, TableTypes
<1>3. /\ i \in 1 .. Len(coros[w]) /\ i \in Live(coros[w])
      /\ i # cur_coro[w] /\ ~coros[w][i].blocked
      <2>1. spare \subseteq Nat /\ spare # {}
            <3>1. spare # {}
                  BY DEF Donate
            <3>2. spare \subseteq DOMAIN coros[w]
                  BY DEF Spare, Live
            <3>3. DOMAIN coros[w] \subseteq Nat
                  BY <1>2
            <3> QED BY <3>1, <3>2, <3>3
      <2>2. i \in spare
            BY <1>0, <2>1, LeastOf
      <2> QED BY <1>2, <2>2 DEF Spare, Live
<1>4. coros[w][i] \in SlotType(Tasks) /\ coros[w][i].who \in Tasks
      <2>1. coros[w][i] \in SlotType(Tasks)
            BY <1>2, <1>3
      <2> QED BY <2>1 DEF SlotType
<1>5. PICK slot : slot = [coros[w][i] EXCEPT !.moved = TRUE]
      OBVIOUS
<1>6. slot \in SlotType(Tasks)
      BY <1>4, <1>5 DEF SlotType
<1>7. PICK tab : tab = [coros[w] EXCEPT ![i] = slot]
      OBVIOUS
<1>8. coros' = [coros EXCEPT ![w] = tab]
      BY <1>0, <1>5, <1>7 DEF Donate
<1>9. /\ coro_handoff' = [coro_handoff EXCEPT ![at[w]] =
                             [state |-> "READY", who |-> coros[w][i].who]]
      BY <1>0 DEF Donate
<1> HIDE DEF spare
<1>10. /\ tab \in Seq(SlotType(Tasks)) /\ Len(tab) = Len(coros[w])
       /\ \A j \in 1 .. Len(coros[w]) : tab[j] = IF j = i THEN slot ELSE coros[w][j]
       BY <1>2, <1>3, <1>6, <1>7, ChangeSlot
<1>11. \A j \in Live(coros[w]) : j # i => j \in Live(tab) /\ tab[j] = coros[w][j]
       BY <1>2, <1>10 DEF Live, Runnable
<1>12. KeepsBlocked(coros[w], tab)
       BY <1>3, <1>11 DEF KeepsBlocked
<1>13. /\ coros' \in [Workers -> Seq(SlotType(Tasks))] /\ \A v \in Workers : Len(coros'[v]) < Slots
       /\ coros'[w] = tab /\ \A v \in Workers : v # w => coros'[v] = coros[v]
       BY <1>2, <1>8, <1>10, TabTypes DEF PoolInv
<1>14. /\ coro_handoff' \in [Workers -> [state : {"EMPTY", "REQUEST", "BUSY", "READY"},
                                          who : Tasks \cup {None}]]
       /\ MailFull'
       BY <1>1, <1>4, <1>9 DEF PoolInv, TableInv, TableTypes, MailFull
<1>15. TableTypes'
       BY <1>1, <1>13, <1>14 DEF PoolInv, TableInv, TableTypes
<1>16. RunsWhatItOwns'
       BY <1>1, <1>3, <1>11, <1>13 DEF PoolInv, TableInv, RunsWhatItOwns
<1>17. WaitsBlocked'
       BY <1>1, <1>12, <1>13, HomeKept DEF PoolInv
<1>18. InCoroutine'
       BY <1>1, OnlyMoves, WorkersAreThreads DEF Donate, PoolInv, TableInv, InCoroutine
<1> QED BY <1>14, <1>15, <1>16, <1>17, <1>18 DEF TableInv

\* Control goes to main or to a live context, of a table whose live contexts
\* after the running one are still live.
LEMMA ResumeOwns ==
    ASSUME PoolInv, NEW w \in Workers, Resume(w, CoroNext(coros[w], cur_coro[w])),
           \A j \in Live(coros[w]) : j # cur_coro[w] => j \in Live(coros'[w]),
           \A v \in Workers : v # w => coros'[v] = coros[v]
    PROVE  /\ cur_coro' \in [Workers -> Nat]
           /\ RunsWhatItOwns' /\ InCoroutine'
<1> DEFINE to == CoroNext(coros[w], cur_coro[w])
<1>1. w \in Threads /\ coros[w] \in Seq(SlotType(Tasks)) /\ cur_coro \in [Workers -> Nat]
      BY WorkersAreThreads DEF PoolInv, TableInv, TableTypes
<1>2. to \in {0} \cup Live(coros[w]) /\ (to # 0 => to > cur_coro[w])
      BY <1>1, NextIsLive
<1>3. to \in Nat /\ to \in {0} \cup Live(coros'[w])
      BY <1>1, <1>2 DEF Live
<1>4. cur_coro' = [cur_coro EXCEPT ![w] = to] /\ Goto(w, IF to = 0 THEN "drain" ELSE "run")
      BY DEF Resume
<1> HIDE DEF to
<1>5. pc'[w] = (IF to = 0 THEN "drain" ELSE "run") /\ \A u \in Threads : u # w => pc'[u] = pc[u]
      BY <1>1, <1>4, OnlyMoves DEF PoolInv
<1>6. /\ cur_coro' \in [Workers -> Nat] /\ cur_coro'[w] = to
      /\ \A v \in Workers : v # w => cur_coro'[v] = cur_coro[v]
      BY <1>1, <1>3, <1>4
<1>7. RunsWhatItOwns'
      BY <1>3, <1>6 DEF PoolInv, TableInv, RunsWhatItOwns
<1>8. InCoroutine'
      BY <1>1, <1>5, <1>6, WorkersAreThreads DEF PoolInv, TableInv, InCoroutine
<1> QED BY <1>6, <1>7, <1>8

\* A yield marks the context it leaves.
LEMMA SwitchKeepsTables ==
    ASSUME PoolInv, NEW w \in Workers, Switch(w)
    PROVE  TableInv'
<1> DEFINE from == cur_coro[w]
<1>1. UNCHANGED <<coro_handoff, done_at, waits_at, listed, ended, refused>>
      BY DEF Switch
<1>2. coros[w] \in Seq(SlotType(Tasks)) /\ Len(coros[w]) < Slots /\ from \in {0} \cup Live(coros[w])
      BY DEF PoolInv, TableInv, TableTypes, RunsWhatItOwns
<1>3. Resume(w, CoroNext(coros[w], cur_coro[w]))
      BY DEF Switch
<1>4. PICK tab \in Seq(SlotType(Tasks)) :
         /\ coros' = [coros EXCEPT ![w] = tab] /\ Len(tab) < Slots
         /\ Live(coros[w]) \subseteq Live(tab) /\ KeepsBlocked(coros[w], tab)
      <2>1. CASE coros' = coros
            <3>1. coros' = [coros EXCEPT ![w] = coros[w]]
                  BY <2>1 DEF PoolInv, TableInv, TableTypes
            <3> QED BY <1>2, <3>1 DEF KeepsBlocked
      <2>2. CASE from # 0 /\ coros' = [coros EXCEPT ![w][from].parked = TRUE]
            <3>1. from \in 1 .. Len(coros[w])
                  BY <1>2, <2>2 DEF Live
            <3>2. PICK slot : slot = [coros[w][from] EXCEPT !.parked = TRUE]
                  OBVIOUS
            <3>3. coros[w][from] \in SlotType(Tasks)
                  BY <1>2, <3>1
            <3>4. /\ slot \in SlotType(Tasks) /\ slot.done = coros[w][from].done
                  /\ slot.moved = coros[w][from].moved /\ slot.who = coros[w][from].who
                  /\ slot.blocked = coros[w][from].blocked
                  BY <3>2, <3>3 DEF SlotType
            <3>5. PICK tab : tab = [coros[w] EXCEPT ![from] = slot]
                  OBVIOUS
            <3>6. coros' = [coros EXCEPT ![w] = tab]
                  BY <2>2, <3>2, <3>5
            <3> HIDE DEF from
            <3>7. /\ tab \in Seq(SlotType(Tasks)) /\ Len(tab) = Len(coros[w])
                  /\ \A j \in 1 .. Len(coros[w]) : tab[j] = IF j = from THEN slot ELSE coros[w][j]
                  BY <1>2, <3>1, <3>4, <3>5, ChangeSlot
            <3>8. \A j \in Live(coros[w]) : j \in Live(tab) /\ tab[j].who = coros[w][j].who
                                           /\ tab[j].blocked = coros[w][j].blocked
                  BY <1>2, <3>4, <3>7 DEF Live, Runnable
            <3> QED BY ZenonT(40), <1>2, <3>6, <3>7, <3>8 DEF KeepsBlocked
      <2> QED BY <2>1, <2>2 DEF Switch
<1>5. /\ coros' \in [Workers -> Seq(SlotType(Tasks))] /\ \A v \in Workers : Len(coros'[v]) < Slots
      /\ coros'[w] = tab /\ \A v \in Workers : v # w => coros'[v] = coros[v]
      BY <1>4, TabTypes DEF PoolInv
<1>6. cur_coro' \in [Workers -> Nat] /\ RunsWhatItOwns' /\ InCoroutine'
      BY <1>3, <1>4, <1>5, ResumeOwns
<1>7. TableTypes'
      BY <1>1, <1>5, <1>6 DEF PoolInv, TableInv, TableTypes
<1>8. MailFull'
      BY <1>1 DEF PoolInv, TableInv, MailFull
<1>9. WaitsBlocked'
      BY <1>1, <1>4, <1>5, HomeKept DEF PoolInv
<1> QED BY <1>6, <1>7, <1>8, <1>9 DEF TableInv

\* The running task goes a step further, which was not the end of a wait.
LEMMA StepOnKeepsTables ==
    ASSUME PoolInv, NEW w \in Workers, Yield(w) \/ GoInside(w)
    PROVE  TableInv'
<1>1. /\ w \in Threads /\ pc[w] = "run" /\ Op(w)[1] \in {"yield", "go"} /\ Done(w)
      /\ UNCHANGED <<coros, cur_coro, coro_handoff, waits_at, listed, ended, refused>>
      BY WorkersAreThreads DEF Yield, GoInside
<1>2. /\ Running(w) \in Tasks
      /\ Op(w) = Body[Running(w)][done_at[Running(w)] + 1]
      BY <1>1, RunningIsTask
<1>3. /\ done_at' \in [Tasks -> Nat]
      /\ \A t \in Tasks : t # Running(w) => done_at'[t] = done_at[t]
      BY <1>1, <1>2 DEF Done, PoolInv, TableInv, TableTypes
<1>4. waits_at[Running(w)] = N
      BY <1>1, <1>2 DEF PoolInv, TableInv, WaitsBlocked
<1>5. TableTypes'
      BY <1>1, <1>3 DEF PoolInv, TableInv, TableTypes
<1>6. MailFull' /\ RunsWhatItOwns'
      BY <1>1 DEF PoolInv, TableInv, MailFull, RunsWhatItOwns
<1>7. WaitsBlocked'
      BY <1>1, <1>3, <1>4 DEF PoolInv, TableInv, WaitsBlocked
<1>8. InCoroutine'
      <2>1. \E l \in {"offer", "glock"} : Goto(w, l)
            BY DEF Yield, GoInside, Pick
      <2>2. \A u \in Workers : u # w => pc'[u] = pc[u]
            BY <1>1, <2>1, OnlyMoves, WorkersAreThreads DEF PoolInv
      <2>3. cur_coro[w] # 0
            BY <1>1 DEF PoolInv, TableInv, InCoroutine
      <2> QED BY <1>1, <2>2, <2>3 DEF PoolInv, TableInv, InCoroutine
<1> QED BY <1>5, <1>6, <1>7, <1>8 DEF TableInv

\* What a coroutine does to its own slot.
LEMMA OwnSlot ==
    ASSUME PoolInv, NEW w \in Workers, pc[w] = "run", NEW slot \in SlotType(Tasks),
           coros' = [coros EXCEPT ![w] = [coros[w] EXCEPT ![cur_coro[w]] = slot]]
    PROVE  /\ coros' \in [Workers -> Seq(SlotType(Tasks))] /\ \A v \in Workers : Len(coros'[v]) < Slots
           /\ Len(coros'[w]) = Len(coros[w]) /\ coros'[w][cur_coro[w]] = slot
           /\ \A j \in Live(coros[w]) : j # cur_coro[w] => j \in Live(coros'[w]) /\ coros'[w][j] = coros[w][j]
           /\ ~slot.done /\ ~slot.moved => cur_coro[w] \in Live(coros'[w])
           /\ \A v \in Workers : v # w => coros'[v] = coros[v]
<1>1. PICK c : c = cur_coro[w]
      OBVIOUS
<1>2. /\ coros[w] \in Seq(SlotType(Tasks)) /\ Len(coros[w]) < Slots /\ c \in 1 .. Len(coros[w])
      BY <1>1, RunningIsTask
<1>3. PICK tab : tab = [coros[w] EXCEPT ![c] = slot]
      OBVIOUS
<1>4. coros' = [coros EXCEPT ![w] = tab]
      BY <1>1, <1>3
<1>5. /\ tab \in Seq(SlotType(Tasks)) /\ Len(tab) = Len(coros[w])
      /\ \A j \in 1 .. Len(coros[w]) : tab[j] = IF j = c THEN slot ELSE coros[w][j]
      BY <1>2, <1>3, ChangeSlot
<1>6. /\ coros' \in [Workers -> Seq(SlotType(Tasks))] /\ \A v \in Workers : Len(coros'[v]) < Slots
      /\ coros'[w] = tab /\ \A v \in Workers : v # w => coros'[v] = coros[v]
      BY <1>2, <1>4, <1>5, TabTypes DEF PoolInv
<1>7. \A j \in Live(coros[w]) : j # c => j \in Live(tab) /\ tab[j] = coros[w][j]
      BY <1>2, <1>5 DEF Live, Runnable
<1>8. ~slot.done /\ ~slot.moved => c \in Live(tab)
      BY <1>2, <1>5 DEF Live, Runnable
<1> QED BY <1>1, <1>2, <1>5, <1>6, <1>7, <1>8

\* A channel wait begins or goes on: the slot is marked and the wait tied to
\* this worker.
LEMMA WaitKeepsTables ==
    ASSUME PoolInv, NEW w \in Workers, Wait(w)
    PROVE  TableInv'
<1> DEFINE c == cur_coro[w]
           r == Running(w)
<1>1. /\ w \in Threads /\ pc[w] = "run" /\ Op(w)[1] = "wait"
      /\ UNCHANGED <<cur_coro, coro_handoff, done_at, listed, ended, refused>>
      BY WorkersAreThreads DEF Wait
<1>2. /\ c \in Live(coros[w]) /\ coros[w][c] \in SlotType(Tasks) /\ r \in Tasks
      /\ done_at[r] < Len(Body[r]) /\ Op(w) = Body[r][done_at[r] + 1]
      BY <1>1, RunningIsTask
<1>3. PICK slot : slot = [coros[w][c] EXCEPT !.blocked = TRUE]
      OBVIOUS
<1>4. /\ slot \in SlotType(Tasks) /\ slot.blocked /\ slot.who = r
      /\ ~slot.done /\ ~slot.moved
      BY <1>2, <1>3 DEF SlotType, Live, Runnable, Running
<1>5. coros' = [coros EXCEPT ![w] = [coros[w] EXCEPT ![cur_coro[w]] = slot]]
      BY <1>3 DEF Wait
<1>6. /\ coros' \in [Workers -> Seq(SlotType(Tasks))] /\ \A v \in Workers : Len(coros'[v]) < Slots
      /\ coros'[w][c] = slot /\ c \in Live(coros'[w])
      /\ \A j \in Live(coros[w]) : j # c => j \in Live(coros'[w]) /\ coros'[w][j] = coros[w][j]
      /\ \A v \in Workers : v # w => coros'[v] = coros[v]
      BY <1>1, <1>4, <1>5, OwnSlot
<1>7. /\ waits_at' \in [Tasks -> 0 .. N] /\ waits_at'[r] = w
      /\ \A t \in Tasks : t # r => waits_at'[t] = waits_at[t]
      <2>1. waits_at \in [Tasks -> 0 .. N] /\ w \in 0 .. N
            BY <1>1 DEF PoolInv, TableInv, TableTypes, Threads
      <2>2. waits_at' = [waits_at EXCEPT ![r] = w]
            BY DEF Wait
      <2> HIDE DEF r
      <2> QED BY <1>2, <2>1, <2>2
<1>8. TableTypes'
      BY <1>1, <1>6, <1>7 DEF PoolInv, TableInv, TableTypes
<1>9. MailFull'
      BY <1>1 DEF PoolInv, TableInv, MailFull
<1>10. RunsWhatItOwns'
       BY <1>1, <1>6 DEF PoolInv, TableInv, RunsWhatItOwns
<1>11. WaitsBlocked'
       <2> HIDE DEF c, r
       <2> SUFFICES ASSUME NEW t \in Tasks, waits_at'[t] # N
                    PROVE  /\ \E i \in Live(coros'[waits_at'[t]]) :
                                  /\ coros'[waits_at'[t]][i].who = t
                                  /\ coros'[waits_at'[t]][i].blocked
                           /\ done_at[t] < Len(Body[t]) /\ Body[t][done_at[t] + 1][1] = "wait"
           BY <1>1 DEF WaitsBlocked
       <2>1. CASE t = r
             BY <1>1, <1>2, <1>4, <1>6, <1>7, <2>1
       <2>2. CASE t # r
             <3>1. waits_at'[t] = waits_at[t] /\ waits_at[t] # N
                   BY <1>7, <2>2
             <3>2. PICK i \in Live(coros[waits_at[t]]) :
                      coros[waits_at[t]][i].who = t /\ coros[waits_at[t]][i].blocked
                   BY <3>1 DEF PoolInv, TableInv, WaitsBlocked
             <3>3. done_at[t] < Len(Body[t]) /\ Body[t][done_at[t] + 1][1] = "wait"
                   BY <3>1 DEF PoolInv, TableInv, WaitsBlocked
             <3>4. waits_at[t] \in Workers
                   BY <3>1, PoolAssumption DEF PoolInv, TableInv, TableTypes, Workers, PoolAssumption
             <3>5. coros[w][c].who = r
                   BY DEF c, r, Running
             <3>6. CASE waits_at[t] = w
                   <4>1. i # c
                         BY <2>2, <3>2, <3>5, <3>6
                   <4> QED BY <1>6, <3>1, <3>2, <3>3, <3>6, <4>1
             <3>7. CASE waits_at[t] # w
                   BY <1>6, <3>1, <3>2, <3>3, <3>4, <3>7
             <3> QED BY <3>6, <3>7
       <2> QED BY <2>1, <2>2
<1>12. InCoroutine'
       <2>1. Goto(w, "offer")
             BY DEF Wait
       <2> QED BY <1>1, <2>1, OnlyMoves, WorkersAreThreads DEF PoolInv, TableInv, InCoroutine
<1> QED BY <1>8, <1>9, <1>10, <1>11, <1>12 DEF TableInv

\* The running task's own slot changes and it is in no wait: nothing happens
\* to those that are.
LEMMA NoneWaitsHere ==
    ASSUME PoolInv, NEW w \in Workers, pc[w] = "run", NEW slot \in SlotType(Tasks),
           coros' = [coros EXCEPT ![w] = [coros[w] EXCEPT ![cur_coro[w]] = slot]],
           waits_at'[Running(w)] = N,
           \A t \in Tasks : t # Running(w) => waits_at'[t] = waits_at[t] /\ done_at'[t] = done_at[t]
    PROVE  WaitsBlocked'
<1>1. /\ \A j \in Live(coros[w]) : j # cur_coro[w] => j \in Live(coros'[w]) /\ coros'[w][j] = coros[w][j]
      /\ \A v \in Workers : v # w => coros'[v] = coros[v]
      BY OwnSlot
<1>2. coros[w][cur_coro[w]].who = Running(w)
      BY DEF Running
<1> SUFFICES ASSUME NEW t \in Tasks, waits_at'[t] # N
             PROVE  /\ \E i \in Live(coros'[waits_at'[t]]) :
                           /\ coros'[waits_at'[t]][i].who = t
                           /\ coros'[waits_at'[t]][i].blocked
                    /\ done_at'[t] < Len(Body[t]) /\ Body[t][done_at'[t] + 1][1] = "wait"
    BY DEF WaitsBlocked
<1>3. t # Running(w) /\ waits_at'[t] = waits_at[t] /\ done_at'[t] = done_at[t] /\ waits_at[t] # N
      BY RunningIsTask
<1>4. done_at[t] < Len(Body[t]) /\ Body[t][done_at[t] + 1][1] = "wait"
      BY <1>3 DEF PoolInv, TableInv, WaitsBlocked
<1>5. PICK i \in Live(coros[waits_at[t]]) :
         coros[waits_at[t]][i].who = t /\ coros[waits_at[t]][i].blocked
      BY <1>3 DEF PoolInv, TableInv, WaitsBlocked
<1>6. waits_at[t] \in Workers
      BY <1>3, PoolAssumption DEF PoolInv, TableInv, TableTypes, Workers, PoolAssumption
<1>7. CASE waits_at[t] = w
      <2>1. i # cur_coro[w]
            BY <1>2, <1>3, <1>5, <1>7
      <2>2. i \in Live(coros'[w]) /\ coros'[w][i] = coros[w][i]
            BY <1>1, <1>7, <2>1
      <2>3. /\ i \in Live(coros'[waits_at[t]])
            /\ coros'[waits_at[t]][i].who = t /\ coros'[waits_at[t]][i].blocked
            BY <1>5, <1>7, <2>2
      <2> QED BY <1>3, <1>4, <2>3
<1>8. CASE waits_at[t] # w
      <2>1. coros'[waits_at[t]] = coros[waits_at[t]]
            BY <1>1, <1>6, <1>8
      <2>2. /\ i \in Live(coros'[waits_at[t]])
            /\ coros'[waits_at[t]][i].who = t /\ coros'[waits_at[t]][i].blocked
            BY <1>5, <2>1
      <2> QED BY <1>3, <1>4, <2>2
<1> QED BY <1>7, <1>8

\* A channel wait ends.
LEMMA WaitOverKeepsTables ==
    ASSUME PoolInv, NEW w \in Workers, WaitOver(w)
    PROVE  TableInv'
<1> DEFINE c == cur_coro[w]
           r == Running(w)
<1>1. /\ pc[w] = "run" /\ Done(w) /\ pc' = pc
      /\ UNCHANGED <<cur_coro, coro_handoff, listed, ended, refused>>
      BY DEF WaitOver
<1>2. /\ c \in Live(coros[w]) /\ coros[w][c] \in SlotType(Tasks) /\ r \in Tasks
      BY <1>1, RunningIsTask
<1>3. PICK slot : slot = [coros[w][c] EXCEPT !.blocked = FALSE]
      OBVIOUS
<1>4. slot \in SlotType(Tasks) /\ ~slot.done /\ ~slot.moved
      BY <1>2, <1>3 DEF SlotType, Live, Runnable
<1>5. coros' = [coros EXCEPT ![w] = [coros[w] EXCEPT ![cur_coro[w]] = slot]]
      BY <1>3 DEF WaitOver
<1>6. /\ coros' \in [Workers -> Seq(SlotType(Tasks))] /\ \A v \in Workers : Len(coros'[v]) < Slots
      /\ c \in Live(coros'[w])
      /\ \A v \in Workers : v # w => coros'[v] = coros[v]
      BY <1>1, <1>4, <1>5, OwnSlot
<1>7. /\ waits_at' \in [Tasks -> 0 .. N] /\ waits_at'[r] = N
      /\ \A t \in Tasks : t # r => waits_at'[t] = waits_at[t]
      <2>1. waits_at \in [Tasks -> 0 .. N] /\ N \in 0 .. N
            BY PoolAssumption DEF PoolAssumption, PoolInv, TableInv, TableTypes
      <2>2. waits_at' = [waits_at EXCEPT ![r] = N]
            BY DEF WaitOver
      <2> HIDE DEF r
      <2> QED BY <1>2, <2>1, <2>2
<1>8. /\ done_at' \in [Tasks -> Nat]
      /\ \A t \in Tasks : t # r => done_at'[t] = done_at[t]
      BY <1>1, <1>2 DEF Done, PoolInv, TableInv, TableTypes
<1>9. TableTypes'
      BY <1>1, <1>6, <1>7, <1>8 DEF PoolInv, TableInv, TableTypes
<1>10. MailFull'
       BY <1>1 DEF PoolInv, TableInv, MailFull
<1>11. RunsWhatItOwns'
       BY <1>1, <1>6 DEF PoolInv, TableInv, RunsWhatItOwns
<1>12. WaitsBlocked'
       BY <1>1, <1>4, <1>5, <1>7, <1>8, NoneWaitsHere
<1>13. InCoroutine'
       BY <1>1 DEF PoolInv, TableInv, InCoroutine
<1> QED BY <1>9, <1>10, <1>11, <1>12, <1>13 DEF TableInv

\* A body holds yields, calls of go and waits: its end is none of them.
LEMMA EndIsLast ==
    ASSUME PoolInv, NEW t \in Tasks, waits_at[t] # N
    PROVE  Body[t][done_at[t] + 1][1] # "end" /\ done_at[t] < Len(Body[t])
BY DEF PoolInv, TableInv, WaitsBlocked

\* coro_finish: the slot is done with and the task over.
LEMMA FinishKeepsTables ==
    ASSUME PoolInv, NEW w \in Workers, Finish(w)
    PROVE  TableInv'
<1> DEFINE c == cur_coro[w]
           r == Running(w)
<1>1. /\ pc[w] = "run" /\ Op(w)[1] = "end" /\ Resume(w, CoroNext(coros[w], cur_coro[w]))
      /\ UNCHANGED <<coro_handoff, done_at, waits_at, listed, refused>>
      BY DEF Finish
<1>2. /\ c \in Live(coros[w]) /\ coros[w][c] \in SlotType(Tasks) /\ r \in Tasks
      BY <1>1, RunningIsTask
<1>3. PICK slot : slot = [coros[w][c] EXCEPT !.done = TRUE]
      OBVIOUS
<1>4. slot \in SlotType(Tasks)
      BY <1>2, <1>3 DEF SlotType
<1>5. coros' = [coros EXCEPT ![w] = [coros[w] EXCEPT ![cur_coro[w]] = slot]]
      BY <1>3 DEF Finish
<1>6. /\ coros' \in [Workers -> Seq(SlotType(Tasks))] /\ \A v \in Workers : Len(coros'[v]) < Slots
      /\ \A j \in Live(coros[w]) : j # cur_coro[w] => j \in Live(coros'[w])
      /\ \A v \in Workers : v # w => coros'[v] = coros[v]
      BY <1>1, <1>4, <1>5, OwnSlot
<1>7. cur_coro' \in [Workers -> Nat] /\ RunsWhatItOwns' /\ InCoroutine'
      BY <1>1, <1>6, ResumeOwns
<1>8. waits_at[r] = N
      <2> SUFFICES ASSUME waits_at[r] # N PROVE FALSE
          OBVIOUS
      <2>1. Body[r][done_at[r] + 1][1] # "end" /\ done_at[r] < Len(Body[r])
            BY <1>2, EndIsLast
      <2>2. Op(w) = Body[r][done_at[r] + 1]
            BY <2>1 DEF Op
      <2> QED BY <1>1, <2>1, <2>2
<1>9. ended' \subseteq Tasks
      BY <1>2 DEF Finish, PoolInv, TableInv, TableTypes
<1>10. TableTypes'
       BY <1>1, <1>6, <1>7, <1>9 DEF PoolInv, TableInv, TableTypes
<1>11. MailFull'
       BY <1>1 DEF PoolInv, TableInv, MailFull
<1>12. WaitsBlocked'
       BY <1>1, <1>4, <1>5, <1>8, NoneWaitsHere
<1> QED BY <1>7, <1>10, <1>11, <1>12 DEF TableInv
--------------------------------------------------------------------------------
(* Together *)

\* The next mailbox, or queue, is one of a worker.
LEMMA NextAt ==
    ASSUME RingInv, NEW w \in Workers, at[w] + 1 # N
    PROVE  at[w] + 1 \in Workers
<1>1. at[w] \in 0 .. N - 1
      BY WorkersAreThreads DEF RingInv, RingTypes, Workers
<1>2. N \in Nat
      BY PoolAssumption DEF PoolAssumption
<1>3. at[w] + 1 \in 0 .. N - 1
      BY <1>1, <1>2
<1> QED BY <1>3 DEF Workers

\* A thread is sent on with an aim of its own, without ring or request.
LEMMA AimKeepsRing ==
    ASSUME RingInv, NEW w \in Workers, pc[w] \notin InsideRing \cup Carrying,
           NEW l \in Labels \ (InsideRing \cup Carrying), Goto(w, l),
           NEW v \in Workers, Aim(w, v) \/ UNCHANGED at,
           UNCHANGED <<ring, pool_lock, pool_next, hand>>
    PROVE  RingInv'
<1>1. w \in Threads /\ at \in [Threads -> Workers]
      BY WorkersAreThreads DEF RingInv, RingTypes
<1>2. at' \in [Threads -> Workers] /\ \A t \in Threads : t # w => at'[t] = at[t]
      BY <1>1 DEF Aim
<1>3. pc' = [pc EXCEPT ![w] = l]
      BY DEF Goto
<1> QED BY <1>2, <1>3, MoveKeepsRing

\* The worker's steps that look on, and those of coro_yield and of the
\* coroutine, hold no ring and no request.
LEMMA QuietKeepsRing ==
    ASSUME PoolInv, NEW w \in Workers,
           \/ Drain(w) \/ Look(w) \/ Turn(w) \/ TakeReady(w) \/ AskForOne(w)
           \/ Offer(w) \/ Donate(w) \/ NothingToSpare(w) \/ Switch(w)
           \/ Yield(w) \/ Wait(w) \/ WaitOver(w) \/ Finish(w)
    PROVE  RingInv'
<1>1. RingInv /\ w \in Threads /\ at \in [Threads -> Workers] /\ pc \in [Threads -> Labels]
      BY WorkersAreThreads DEF PoolInv, RingInv, RingTypes
<1>2. UNCHANGED <<ring, pool_lock, pool_next, hand>>
      BY DEF Drain, Look, Turn, TakeReady, AskForOne, Offer, Donate, NothingToSpare, Switch,
             Yield, Wait, WaitOver, Finish
<1>3. pc[w] \notin InsideRing \cup Carrying
      BY DEF Drain, Look, Turn, TakeReady, AskForOne, Offer, Donate, NothingToSpare, Switch,
             Yield, Wait, WaitOver, Finish, InsideRing, Carrying
<1>4. 0 \in Workers
      BY PoolAssumption DEF PoolAssumption, Workers
<1>5. pc[w] \in Labels \ (InsideRing \cup Carrying) /\ pc' = pc => Goto(w, pc[w])
      BY <1>1 DEF Goto
<1>6. {"look", "try", "turn", "mail", "offer", "drain", "donate", "switch", "run"}
          \subseteq Labels \ (InsideRing \cup Carrying)
      BY DEF Labels, InsideRing, Carrying
<1>7. CASE GaveNothing(w) \/ Further(w)
      <2>1. PICK l \in {"turn", "look", "mail"} : pc' = [pc EXCEPT ![w] = l]
            BY <1>1, <1>7, LooksOn
      <2>2. at' \in [Threads -> Workers] /\ \A t \in Threads : t # w => at'[t] = at[t]
            BY <1>1, <1>7, LooksOn
      <2> QED BY <1>1, <1>2, <1>3, <1>6, <2>1, <2>2, MoveKeepsRing
<1>8. CASE \E l \in {"look", "try", "turn", "mail", "offer", "drain", "donate", "switch", "run"},
              v \in Workers : Goto(w, l) /\ (Aim(w, v) \/ UNCHANGED at)
      BY <1>1, <1>2, <1>3, <1>6, <1>8, AimKeepsRing
<1>9. CASE Drain(w)
      BY <1>8, <1>9 DEF Drain
<1>10. CASE Look(w)
       BY <1>4, <1>7, <1>8, <1>10 DEF Look
<1>11. CASE Turn(w)
       BY <1>4, <1>7, <1>8, <1>11 DEF Turn
<1>12. CASE TakeReady(w) \/ AskForOne(w)
       BY <1>4, <1>8, <1>12 DEF TakeReady, AskForOne
<1>13. CASE Offer(w)
       <2>1. CASE Goto(w, "donate") /\ UNCHANGED at
             BY <1>4, <1>8, <2>1
       <2>2. CASE NextOffer(w)
             <3>1. CASE at[w] + 1 = N
                   BY <1>4, <1>8, <2>2, <3>1 DEF NextOffer
             <3>2. CASE at[w] + 1 # N
                   <4>1. at[w] + 1 \in Workers
                         BY <1>1, <3>2, NextAt
                   <4>2. pc' = pc /\ Aim(w, at[w] + 1) /\ pc[w] = "offer"
                         BY <1>13, <2>2, <3>2 DEF NextOffer, Offer
                   <4>3. Goto(w, "offer")
                         BY <1>1, <4>2 DEF Goto
                   <4> QED BY <1>8, <4>1, <4>2, <4>3
             <3> QED BY <3>1, <3>2
       <2> QED BY <1>13, <2>1, <2>2 DEF Offer
<1>14. CASE Donate(w)
       BY <1>4, <1>8, <1>14 DEF Donate
<1>15. CASE NothingToSpare(w)
       <2>1. CASE at[w] + 1 = N
             BY <1>4, <1>8, <1>15, <2>1 DEF NothingToSpare
       <2>2. CASE at[w] + 1 # N
             BY <1>1, <1>8, <1>15, <2>2, NextAt DEF NothingToSpare
       <2> QED BY <2>1, <2>2
<1>16. CASE Switch(w)
       BY <1>4, <1>8, <1>16 DEF Switch, Resume
<1>17. CASE Yield(w) \/ Wait(w)
       BY <1>4, <1>8, <1>17 DEF Yield, Wait
<1>18. CASE WaitOver(w)
       <2>1. pc' = pc /\ at' = at /\ pc[w] = "run"
             BY <1>18 DEF WaitOver
       <2>2. Goto(w, "run")
             BY <1>1, <2>1 DEF Goto
       <2> QED BY <1>4, <1>8, <2>1, <2>2
<1>19. CASE Finish(w)
       BY <1>4, <1>8, <1>19 DEF Finish, Resume
<1> QED BY <1>9, <1>10, <1>11, <1>12, <1>13, <1>14, <1>15, <1>16, <1>17, <1>18, <1>19

\* The worker's steps that only look at rings, and go, leave the tables alone.
LEMMA RingStepKeepsTables ==
    ASSUME PoolInv, NEW t \in Threads,
           \/ t \in Workers /\ (Drain(t) \/ Look(t) \/ TryLock(t) \/ PopEmpty(t) \/ PopCopy(t)
                                  \/ PopAdvance(t) \/ Turn(t))
           \/ GoLock(t) \/ GoFull(t) \/ GoPut(t)
           \/ t = Main /\ GoMain
    PROVE  TableInv'
<1>1. TableInv /\ RingInv /\ listed \in Nat
      BY DEF PoolInv, TableInv, TableTypes
<1>2. UNCHANGED <<coros, cur_coro, coro_handoff, done_at, waits_at, ended, refused>>
      BY DEF Drain, Look, TryLock, PopEmpty, PopCopy, PopAdvance, Turn, GoLock, GoFull, GoPut, GoMain
<1>3. listed' \in Nat
      BY <1>1 DEF Drain, Look, TryLock, PopEmpty, PopCopy, PopAdvance, Turn, GoLock, GoFull, GoPut,
                  GoMain
<1>4. \A w \in Workers : pc'[w] \in InCode => pc[w] \in InCode
      <2>1. CASE /\ t \in Workers /\ (Drain(t) \/ Look(t) \/ TryLock(t) \/ PopEmpty(t) \/ PopCopy(t)
                                       \/ PopAdvance(t) \/ Turn(t))
            <3>1. \E l \in Labels \ InCode : Goto(t, l)
                  BY <2>1 DEF Drain, Look, TryLock, PopEmpty, PopCopy, PopAdvance, Turn, GaveNothing,
                              Further, Labels, InCode, InsideRing, Carrying
            <3> QED BY <1>1, <2>1, <3>1, OnlyMoves, WorkersAreThreads
      <2>2. CASE GoLock(t) \/ GoFull(t) \/ GoPut(t)
            <3>1. pc[t] \in InCode /\ \E l : Goto(t, l)
                  BY <2>2 DEF GoLock, GoFull, GoPut, InCode
            <3> QED BY <1>1, <2>2, <3>1, OnlyMoves, WorkersAreThreads
      <2>3. CASE t = Main /\ GoMain
            <3>1. Goto(Main, "glock")
                  BY <2>3 DEF GoMain, Pick
            <3> QED BY <1>1, <3>1, OnlyMoves, WorkersAreThreads
      <2> QED BY <2>1, <2>2, <2>3
<1> QED BY <1>1, <1>2, <1>3, <1>4, TableAlone

\* Where the pool starts: empty rings and tables, everybody at the top of his loop.
LEMMA InitInv == Init => PoolInv
<1> SUFFICES ASSUME Init PROVE PoolInv
    OBVIOUS
<1> USE DEF Init
<1>1. QueueLen \in Nat \ {0} /\ N \in Nat \ {0} /\ Slots \in Nat \ {0}
      BY PoolAssumption DEF PoolAssumption
<1>2. 0 \in Workers
      BY <1>1 DEF Workers
<1>3. RingTypes
      <2>1. pc \in [Threads -> Labels]
            BY DEF Labels
      <2>2. pool_queue \in [Workers -> [0 .. QueueLen - 1 -> Requests]]
            BY DEF Requests
      <2>3. /\ pool_head \in [Workers -> Nat] /\ pool_tail \in [Workers -> Nat]
            /\ pool_lock \in [Workers -> 0 .. 1] /\ pool_next \in Nat
            /\ at \in [Threads -> Workers]
            BY <1>2
      <2>4. hand \in [Threads -> Requests]
            BY DEF Requests
      <2>5. accepted \in [Workers -> Seq(Tasks)] /\ popped \in [Workers -> Seq(Tasks)]
            OBVIOUS
      <2>6. \A v \in Workers : pool_head[v] <= pool_tail[v] /\ pool_tail[v] <= pool_head[v] + QueueLen
            BY <1>1
      <2> QED BY <2>1, <2>2, <2>3, <2>4, <2>5, <2>6 DEF RingTypes
<1>4. HandsFull /\ LockHeld /\ CopyRight
      <2>1. \A t \in Threads : pc[t] \in {"idle", "drain"}
            OBVIOUS
      <2> QED BY <2>1 DEF HandsFull, LockHeld, CopyRight, Carrying, InsideRing
<1>5. Fifo
      <2> SUFFICES ASSUME NEW v \in Workers PROVE accepted[v] = popped[v] \o InRing(v)
          BY DEF Fifo
      <2>1. pool_tail[v] = 0 /\ pool_head[v] = 0 /\ accepted[v] = << >> /\ popped[v] = << >>
            OBVIOUS
      <2>2. InRing(v) = [i \in 1 .. 0 |-> pool_queue[v][(0 + i - 1) % QueueLen]]
            BY <2>1 DEF InRing
      <2>3. PICK s : s = InRing(v)
            OBVIOUS
      <2>4. s \in Seq(Requests) /\ Len(s) = 0
            <3>1. s = [i \in 1 .. 0 |-> pool_queue[v][(0 + i - 1) % QueueLen]]
                  BY <2>2, <2>3
            <3> QED BY <3>1
      <2>5. s = << >>
            BY <2>4
      <2> QED BY <2>1, <2>3, <2>5
<1>6. TableTypes
      BY <1>1 DEF TableTypes, Workers
<1>7. MailFull /\ InCoroutine
      BY WorkersAreThreads DEF MailFull, InCoroutine
<1>8. RunsWhatItOwns /\ WaitsBlocked
      BY DEF RunsWhatItOwns, WaitsBlocked
<1> QED BY <1>3, <1>4, <1>5, <1>6, <1>7, <1>8 DEF PoolInv, RingInv, TableInv

\* Every step, and standing still, keeps the rings in order.
LEMMA RingStep == PoolInv /\ [Next]_vars => RingInv'
<1> SUFFICES ASSUME PoolInv, [Next]_vars PROVE RingInv'
    OBVIOUS
<1>0. RingInv
      BY DEF PoolInv
<1>1. ASSUME NEW w \in Workers, Worker(w) PROVE RingInv'
      <2>1. CASE TryLock(w) \/ PopEmpty(w) \/ PopCopy(w) \/ PopAdvance(w) \/ SpawnRequest(w)
            BY <1>0, <2>1, TryKeepsRing, PopEmptyKeepsRing, CopyKeepsRing, AdvanceKeepsRing,
               SpawnKeepsRing
      <2>2. CASE GoInside(w)
            <3>1. w \in Threads /\ pc[w] \in {"idle", "run"} /\ Pick(w, Op(w)[2])
                  BY <2>2, WorkersAreThreads DEF GoInside
            <3>2. Op(w)[2] \in Tasks
                  BY <2>2, RunningIsTask DEF GoInside
            <3>3. UNCHANGED <<ring, pool_lock>>
                  BY <2>2 DEF GoInside
            <3> QED BY <1>0, <3>1, <3>2, <3>3, PickKeepsRing
      <2>3. CASE \/ Drain(w) \/ Look(w) \/ Turn(w) \/ TakeReady(w) \/ AskForOne(w)
                 \/ Offer(w) \/ Donate(w) \/ NothingToSpare(w) \/ Switch(w)
                 \/ Yield(w) \/ Wait(w) \/ WaitOver(w) \/ Finish(w)
            BY <2>3, QuietKeepsRing
      <2> QED BY <1>1, <2>1, <2>2, <2>3 DEF Worker
<1>2. CASE GoMain
      <2>1. GoList[listed + 1] \in Tasks
            <3>1. listed \in Nat /\ GoList \in Seq(Tasks) /\ listed < Len(GoList)
                  BY <1>2, PoolAssumption DEF GoMain, PoolInv, TableInv, TableTypes, PoolAssumption
            <3>2. listed + 1 \in 1 .. Len(GoList)
                  BY <3>1
            <3> QED BY <3>1, <3>2
      <2>2. /\ Pick(Main, GoList[listed + 1]) /\ pc[Main] \in {"idle", "run"} /\ Main \in Threads
            /\ UNCHANGED <<ring, pool_lock>>
            BY <1>2, WorkersAreThreads DEF GoMain
      <2> QED BY <1>0, <2>1, <2>2, PickKeepsRing
<1>3. ASSUME NEW t \in Threads, Go(t) PROVE RingInv'
      BY <1>0, <1>3, GoLockKeepsRing, PutKeepsRing DEF Go
<1>4. CASE UNCHANGED vars
      <2>1. UNCHANGED <<ring, pool_lock, pool_next, pc, at, hand>>
            BY <1>4 DEF vars
      <2>2. RingTypes' /\ HandsFull' /\ LockHeld' /\ CopyRight'
            BY <1>0, <2>1 DEF RingInv, RingTypes, HandsFull, LockHeld, CopyRight, ring
      <2> QED BY <1>0, <2>1, <2>2, RingsAlone DEF RingInv
<1> QED BY <1>1, <1>2, <1>3, <1>4 DEF Next

\* Every step, and standing still, keeps the tables in order.
LEMMA TableStep == PoolInv /\ [Next]_vars => TableInv'
<1> SUFFICES ASSUME PoolInv, [Next]_vars PROVE TableInv'
    OBVIOUS
<1>1. ASSUME NEW w \in Workers, Worker(w) PROVE TableInv'
      <2>1. CASE SpawnRequest(w) \/ TakeReady(w)
            BY <2>1, SpawnKeepsTables
      <2>2. CASE AskForOne(w) \/ Offer(w) \/ NothingToSpare(w)
            BY <2>2, MailKeepsTables
      <2>3. CASE Donate(w) \/ Switch(w)
            BY <2>3, DonateKeepsTables, SwitchKeepsTables
      <2>4. CASE Yield(w) \/ GoInside(w)
            BY <2>4, StepOnKeepsTables
      <2>5. CASE Wait(w) \/ WaitOver(w) \/ Finish(w)
            BY <2>5, WaitKeepsTables, WaitOverKeepsTables, FinishKeepsTables
      <2>6. CASE Drain(w) \/ Look(w) \/ TryLock(w) \/ PopEmpty(w) \/ PopCopy(w) \/ PopAdvance(w) \/ Turn(w)
            BY <2>6, RingStepKeepsTables, WorkersAreThreads
      <2> QED BY <1>1, <2>1, <2>2, <2>3, <2>4, <2>5, <2>6 DEF Worker
<1>2. CASE GoMain
      BY <1>2, RingStepKeepsTables, WorkersAreThreads
<1>3. ASSUME NEW t \in Threads, Go(t) PROVE TableInv'
      BY <1>3, RingStepKeepsTables DEF Go
<1>4. CASE UNCHANGED vars
      <2>1. TableInv /\ listed \in Nat
            BY DEF PoolInv, TableInv, TableTypes
      <2>2. UNCHANGED <<coros, cur_coro, coro_handoff, done_at, waits_at, ended, refused, listed, pc>>
            BY <1>4 DEF vars
      <2> QED BY <2>1, <2>2, TableAlone
<1> QED BY <1>1, <1>2, <1>3, <1>4 DEF Next

\* The invariant implies the type invariant that TLC checks.
LEMMA InvTypes == PoolInv => TypeOK
<1> SUFFICES ASSUME PoolInv PROVE TypeOK
    OBVIOUS
<1>1. /\ RingTypes /\ TableTypes /\ RunsWhatItOwns
      BY DEF PoolInv, RingInv, TableInv
<1>2. ASSUME NEW w \in Workers
      PROVE  /\ coros[w] \in Seq(SlotType(Tasks)) /\ Len(coros[w]) < Slots
             /\ cur_coro[w] \in {0} \cup DOMAIN coros[w]
             /\ \A i \in 0 .. QueueLen - 1 : pool_queue[w][i] \in Tasks \cup {None}
             /\ pool_tail[w] - pool_head[w] \in 0 .. QueueLen
             /\ coro_handoff[w].state \in {"EMPTY", "REQUEST", "BUSY", "READY"}
             /\ coro_handoff[w].who \in Tasks \cup {None}
      <2>1. coros[w] \in Seq(SlotType(Tasks)) /\ Len(coros[w]) < Slots
            BY <1>1 DEF TableTypes
      <2>2. cur_coro[w] \in {0} \cup DOMAIN coros[w]
            BY <1>1 DEF RunsWhatItOwns, Live
      <2>3. \A i \in 0 .. QueueLen - 1 : pool_queue[w][i] \in Tasks \cup {None}
            <3>1. pool_queue[w] \in [0 .. QueueLen - 1 -> Requests]
                  BY <1>1 DEF RingTypes
            <3> QED BY <3>1 DEF Requests
      <2>4. pool_tail[w] - pool_head[w] \in 0 .. QueueLen
            <3>1. /\ pool_tail[w] \in Nat /\ pool_head[w] \in Nat /\ QueueLen \in Nat
                  /\ pool_head[w] <= pool_tail[w] /\ pool_tail[w] <= pool_head[w] + QueueLen
                  BY <1>1, PoolAssumption DEF RingTypes, PoolAssumption
            <3> QED BY <3>1
      <2>5. /\ coro_handoff[w].state \in {"EMPTY", "REQUEST", "BUSY", "READY"}
            /\ coro_handoff[w].who \in Tasks \cup {None}
            BY <1>1 DEF TableTypes
      <2> QED BY <2>1, <2>2, <2>3, <2>4, <2>5
<1>3. /\ pool_lock \in [Workers -> 0 .. 1]
      /\ at \in [Threads -> Workers] /\ hand \in [Threads -> Tasks \cup {None}]
      /\ ended \subseteq Tasks /\ refused \subseteq Tasks
      BY <1>1 DEF RingTypes, TableTypes, Requests
<1> QED BY <1>2, <1>3 DEF TypeOK

\* What holds in every reachable state: rings in order, tables in order.
THEOREM PoolInvariant == Spec => []PoolInv
<1>1. Init => PoolInv
      BY InitInv
<1>2. PoolInv /\ [Next]_vars => PoolInv'
      BY RingStep, TableStep DEF PoolInv
<1> QED BY <1>1, <1>2, PTL DEF Spec

\* Owner and thieves together take out of a ring what go() put in, once each
\* and in that order, however often it has wrapped around, and it never holds
\* more than its slots (pool_pop and pool_push under the try-lock).
THEOREM PoolFifo == Spec => []QueueFifo
<1>1. PoolInv => QueueFifo
      BY InvTypes DEF PoolInv, RingInv, Fifo, QueueFifo
<1> QED BY <1>1, PoolInvariant, PTL

\* A worker's running context is main or a live slot of its own table, and a
\* task in a channel wait stays with the worker whose scheduler state the wait
\* is tied to: no donation and no reuse of a slot takes either away.
THEOREM PoolSpares == Spec => []GivesWhatItSpares
<1>1. PoolInv => RunsWhatItOwns /\ BlockedStaysHome
      BY DEF PoolInv, TableInv, WaitsBlocked, BlockedStaysHome
<1> QED BY <1>1, PoolInvariant, PTL DEF GivesWhatItSpares
-------------------------------------------------------------------------------
(* Where a task is *)

\* Before go(): in main's list, or in a body that has not come to it.
InList(i, x)    == i \in 1 .. Len(GoList) /\ i > listed /\ GoList[i] = x
InBody(u, i, x) == u \in Tasks /\ i \in 1 .. Len(Body[u]) /\ i > done_at[u] /\ Body[u][i] = <<"go", x>>

\* In go(), and what go() accepted.
Going(a, x)      == a \in Threads /\ pc[a] \in {"glock", "gput"} /\ hand[a] = x
RingHas(v, k, x) == /\ v \in Workers /\ k \in Nat
                    /\ pool_head[v] <= k /\ k < pool_tail[v]
                    /\ pool_queue[v][k % QueueLen] = x
HandHas(w, x)    == w \in Workers /\ pc[w] = "spawn" /\ hand[w] = x
SlotHas(w, i, x) == w \in Workers /\ i \in Live(coros[w]) /\ coros[w][i].who = x
MailHas(w, x)    == w \in Workers /\ coro_handoff[w].state = "READY" /\ coro_handoff[w].who = x

\* A place is its kind and two coordinates, 0 where there are fewer.
IsAt(k, a, b, x) ==
    \/ k = "list" /\ b = 0 /\ InList(a, x)
    \/ k = "body" /\ InBody(a, b, x)
    \/ k = "going" /\ b = 0 /\ Going(a, x)
    \/ k = "ring" /\ RingHas(a, b, x)
    \/ k = "hand" /\ b = 0 /\ HandHas(a, x)
    \/ k = "slot" /\ SlotHas(a, b, x)
    \/ k = "mail" /\ b = 0 /\ MailHas(a, x)
    \/ k = "ended" /\ a = 0 /\ b = 0 /\ x \in ended
    \/ k = "refused" /\ a = 0 /\ b = 0 /\ x \in refused

AfterGo == {"ring", "hand", "slot", "mail", "ended", "refused"}

\* One place for each task, and none is lost once it was accepted.
Single ==
    \A x \in Tasks : \A k, a, b, l, c, d :
        IsAt(k, a, b, x) /\ IsAt(l, c, d, x) => k = l /\ a = c /\ b = d
Kept ==
    \A x \in HandedOver : \E k \in AfterGo : \E a, b : IsAt(k, a, b, x)

\* A mailbox is left alone while its worker's request is being answered.
BusyHeld ==
    \A w \in Workers : pc[w] = "donate" =>
        /\ coro_handoff[at[w]].state = "BUSY"
        /\ \A u \in Workers : pc[u] = "donate" /\ at[u] = at[w] => u = w

PlaceInv == Single /\ Kept /\ BusyHeld
-------------------------------------------------------------------------------
(* Steps, as far as places go *)

\* Nobody changes place.
Stay == \A x \in Tasks : \A k, a, b : IsAt(k, a, b, x)' <=> IsAt(k, a, b, x)

\* One task goes from one place to another.
Moves(y, k0, a0, b0, k1, a1, b1) ==
    /\ IsAt(k0, a0, b0, y)
    /\ \A x \in Tasks : \A k, a, b : IsAt(k, a, b, x)' <=>
           \/ IsAt(k, a, b, x) /\ ~ (x = y /\ k = k0 /\ a = a0 /\ b = b0)
           \/ x = y /\ k = k1 /\ a = a1 /\ b = b1

LEMMA HandedAreTasks ==
    ASSUME PoolInv
    PROVE  HandedOver \subseteq Tasks
<1> SUFFICES ASSUME NEW w \in Workers, NEW i \in DOMAIN accepted[w] PROVE accepted[w][i] \in Tasks
    BY DEF HandedOver
<1>1. accepted[w] \in Seq(Tasks)
      BY DEF PoolInv, RingInv, RingTypes
<1> QED BY <1>1

LEMMA StepStays ==
    ASSUME PoolInv, Single, Kept, Stay, HandedOver' = HandedOver
    PROVE  Single' /\ Kept'
<1>1. Single'
      BY DEF Single, Stay
<1>2. ASSUME NEW x \in HandedOver'
      PROVE  \E k \in AfterGo : \E a, b : IsAt(k, a, b, x)'
      <2>1. x \in HandedOver /\ x \in Tasks
            BY <1>2, HandedAreTasks
      <2>2. PICK k, a, b : k \in AfterGo /\ IsAt(k, a, b, x)
            BY <2>1 DEF Kept
      <2>3. IsAt(k, a, b, x)'
            BY <2>1, <2>2 DEF Stay
      <2> QED BY <2>2, <2>3
<1> QED BY <1>1, <1>2 DEF Kept

LEMMA StepMoves ==
    ASSUME PoolInv, Single, Kept, NEW y \in Tasks,
           NEW k0, NEW a0, NEW b0, NEW k1, NEW a1, NEW b1,
           Moves(y, k0, a0, b0, k1, a1, b1),
           HandedOver' \subseteq HandedOver \cup {y},
           k1 \in AfterGo \/ (k0 \in {"list", "body"} /\ HandedOver' = HandedOver)
    PROVE  Single' /\ Kept'
<1>1. \A x \in Tasks : \A k, a, b : IsAt(k, a, b, x)' <=>
          \/ IsAt(k, a, b, x) /\ ~ (x = y /\ k = k0 /\ a = a0 /\ b = b0)
          \/ x = y /\ k = k1 /\ a = a1 /\ b = b1
      BY DEF Moves
<1>2. IsAt(k0, a0, b0, y)
      BY DEF Moves
<1>3. \A k, a, b : IsAt(k, a, b, y)' => k = k1 /\ a = a1 /\ b = b1
      BY <1>1, <1>2 DEF Single
<1>4. Single'
      <2> SUFFICES ASSUME NEW x \in Tasks, NEW k, NEW a, NEW b, NEW l, NEW c, NEW d,
                          IsAt(k, a, b, x)', IsAt(l, c, d, x)'
                   PROVE  k = l /\ a = c /\ b = d
          BY DEF Single
      <2>1. CASE x = y
            BY <1>3, <2>1
      <2>2. CASE x # y
            <3>1. IsAt(k, a, b, x) /\ IsAt(l, c, d, x)
                  BY <1>1, <2>2
            <3> QED BY <3>1 DEF Single
      <2> QED BY <2>1, <2>2
<1>5. ASSUME NEW x \in HandedOver'
      PROVE  \E k \in AfterGo : \E a, b : IsAt(k, a, b, x)'
      <2>1. CASE x = y /\ k1 \in AfterGo
            <3>1. IsAt(k1, a1, b1, x)'
                  BY <1>1, <2>1
            <3> QED BY <2>1, <3>1
      <2>2. CASE x # y
            <3>1. x \in HandedOver /\ x \in Tasks
                  BY <2>2, HandedAreTasks
            <3>2. PICK k, a, b : k \in AfterGo /\ IsAt(k, a, b, x)
                  BY <3>1 DEF Kept
            <3>3. IsAt(k, a, b, x)'
                  BY <1>1, <2>2, <3>1, <3>2
            <3> QED BY <3>2, <3>3
      <2>3. CASE x = y /\ k0 \in {"list", "body"} /\ HandedOver' = HandedOver
            <3>1. PICK k, a, b : k \in AfterGo /\ IsAt(k, a, b, y)
                  BY <2>3 DEF Kept
            <3>2. k = k0
                  BY <1>2, <3>1 DEF Single
            <3> QED BY <2>3, <3>1, <3>2 DEF AfterGo
      <2> QED BY <2>1, <2>2, <2>3
<1> QED BY <1>4, <1>5 DEF Kept

\* What the places of a kind depend on.
LEMMA KindsSame ==
    /\ listed' = listed => \A i, x : InList(i, x)' <=> InList(i, x)
    /\ done_at' = done_at => \A u, i, x : InBody(u, i, x)' <=> InBody(u, i, x)
    /\ UNCHANGED <<pool_queue, pool_head, pool_tail>> =>
           \A v, k, x : RingHas(v, k, x)' <=> RingHas(v, k, x)
    /\ coros' = coros => \A w, i, x : SlotHas(w, i, x)' <=> SlotHas(w, i, x)
    /\ coro_handoff' = coro_handoff => \A w, x : MailHas(w, x)' <=> MailHas(w, x)
    /\ accepted' = accepted => HandedOver' = HandedOver
BY DEF InList, InBody, RingHas, SlotHas, MailHas, HandedOver

\* A thread goes on, in go() or outside it, and takes no request with it.
LEMMA HandsQuiet ==
    ASSUME RingInv, NEW t \in Threads, NEW l, Goto(t, l),
           \/ pc[t] \in {"glock", "gput"} /\ l \in {"glock", "gput"} /\ hand' = hand
           \/ /\ pc[t] \notin {"glock", "gput", "spawn"} /\ l \notin {"glock", "gput", "spawn"}
              /\ \A u \in Threads : u # t => hand'[u] = hand[u]
    PROVE  \A a, x : (Going(a, x)' <=> Going(a, x)) /\ (HandHas(a, x)' <=> HandHas(a, x))
<1>1. pc'[t] = l /\ \A u \in Threads : u # t => pc'[u] = pc[u]
      BY OnlyMoves
<1>2. \A a, x : Going(a, x)' <=> Going(a, x)
      BY <1>1 DEF Going
<1>3. \A a, x : HandHas(a, x)' <=> HandHas(a, x)
      BY <1>1, WorkersAreThreads DEF HandHas
<1> QED BY <1>2, <1>3

\* Nobody stays if each kind of place stays.
LEMMA AllStay ==
    ASSUME \A i, x : InList(i, x)' <=> InList(i, x),
           \A u, i, x : InBody(u, i, x)' <=> InBody(u, i, x),
           \A a, x : (Going(a, x)' <=> Going(a, x)) /\ (HandHas(a, x)' <=> HandHas(a, x)),
           \A v, k, x : RingHas(v, k, x)' <=> RingHas(v, k, x),
           \A w, i, x : SlotHas(w, i, x)' <=> SlotHas(w, i, x),
           \A w, x : MailHas(w, x)' <=> MailHas(w, x),
           ended' = ended, refused' = refused
    PROVE  Stay
BY DEF Stay, IsAt

LEMMA PlaceInit ==
    ASSUME Init
    PROVE  PlaceInv
<1>1. /\ \A a, x : ~Going(a, x) /\ ~HandHas(a, x)
      /\ \A v, k, x : ~RingHas(v, k, x)
      /\ \A w, i, x : ~SlotHas(w, i, x)
      /\ \A w, x : ~MailHas(w, x)
      <2>1. \A a, x : ~Going(a, x) /\ ~HandHas(a, x)
            BY WorkersAreThreads DEF Init, Going, HandHas
      <2>2. \A v, k, x : ~RingHas(v, k, x)
            BY DEF Init, RingHas
      <2>3. \A w, i, x : ~SlotHas(w, i, x)
            BY DEF Init, SlotHas, Live
      <2>4. \A w, x : ~MailHas(w, x)
            BY DEF Init, MailHas
      <2> QED BY <2>1, <2>2, <2>3, <2>4
<1>2. ended = {} /\ refused = {}
      BY DEF Init
<1>3. \A x, k, a, b : IsAt(k, a, b, x) =>
         \/ k = "list" /\ b = 0 /\ InList(a, x)
         \/ k = "body" /\ InBody(a, b, x)
      BY <1>1, <1>2 DEF IsAt
<1>4. Single
      <2> SUFFICES ASSUME NEW x \in Tasks, NEW k, NEW a, NEW b, NEW l, NEW c, NEW d,
                          IsAt(k, a, b, x), IsAt(l, c, d, x)
                   PROVE  k = l /\ a = c /\ b = d
          BY DEF Single
      <2>1. /\ (k = "list" /\ b = 0 /\ InList(a, x)) \/ (k = "body" /\ InBody(a, b, x))
            /\ (l = "list" /\ d = 0 /\ InList(c, x)) \/ (l = "body" /\ InBody(c, d, x))
            BY <1>3
      <2> QED BY <2>1, NamedOnce DEF NamedOnce, InList, InBody
<1>5. HandedOver = {}
      BY DEF Init, HandedOver
<1>6. BusyHeld
      BY WorkersAreThreads DEF Init, BusyHeld
<1> QED BY <1>4, <1>5, <1>6 DEF PlaceInv, Kept
-------------------------------------------------------------------------------
(* Steps in which nobody changes place *)

\* The worker looks at a ring, or copies a request out under the lock.
LEMMA LookStays ==
    ASSUME PoolInv, NEW w \in Workers,
           Drain(w) \/ Look(w) \/ TryLock(w) \/ PopEmpty(w) \/ PopCopy(w) \/ Turn(w)
    PROVE  Stay /\ HandedOver' = HandedOver
<1>1. /\ UNCHANGED <<coros, ring, coro_handoff, done_at, listed, ended, refused>>
      /\ pc[w] \in {"drain", "look", "try", "pop", "turn"}
      BY DEF Drain, Look, TryLock, PopEmpty, PopCopy, Turn
<1>2. \E l : l \notin {"glock", "gput", "spawn"} /\ Goto(w, l)
      BY DEF Drain, Look, TryLock, PopEmpty, PopCopy, Turn, GaveNothing, Further
<1>3. \A u \in Threads : u # w => hand'[u] = hand[u]
      <2>1. hand' = hand \/ \E x : hand' = [hand EXCEPT ![w] = x]
            BY DEF Drain, Look, TryLock, PopEmpty, PopCopy, Turn
      <2>2. hand \in [Threads -> Requests]
            BY DEF PoolInv, RingInv, RingTypes
      <2> QED BY <2>1, <2>2
<1>4. \A a, x : (Going(a, x)' <=> Going(a, x)) /\ (HandHas(a, x)' <=> HandHas(a, x))
      BY <1>1, <1>2, <1>3, HandsQuiet, WorkersAreThreads DEF PoolInv
<1>5. UNCHANGED <<pool_queue, pool_head, pool_tail, accepted>>
      BY <1>1 DEF ring
<1> QED BY <1>1, <1>4, <1>5, KindsSame, AllStay

\* go() waits for a ring's lock, or finds it full.
LEMMA LockStays ==
    ASSUME PoolInv, NEW t \in Threads, GoLock(t) \/ GoFull(t)
    PROVE  Stay /\ HandedOver' = HandedOver
<1>1. /\ UNCHANGED <<coros, ring, coro_handoff, done_at, listed, ended, refused>>
      /\ pc[t] \in {"glock", "gput"} /\ hand' = hand
      /\ \E l \in {"glock", "gput"} : Goto(t, l)
      BY DEF GoLock, GoFull
<1>2. \A a, x : (Going(a, x)' <=> Going(a, x)) /\ (HandHas(a, x)' <=> HandHas(a, x))
      BY <1>1, HandsQuiet DEF PoolInv
<1>3. UNCHANGED <<pool_queue, pool_head, pool_tail, accepted>>
      BY <1>1 DEF ring
<1> QED BY <1>1, <1>2, <1>3, KindsSame, AllStay

\* A mailbox that is not READY gets another such state.
LEMMA BoxStays ==
    ASSUME PoolInv, NEW v \in Workers, coro_handoff[v].state # "READY",
           NEW st \in {"EMPTY", "REQUEST", "BUSY"},
           coro_handoff' = [coro_handoff EXCEPT ![v].state = st]
    PROVE  \A u, x : MailHas(u, x)' <=> MailHas(u, x)
<1>1. coro_handoff \in [Workers -> [state : {"EMPTY", "REQUEST", "BUSY", "READY"},
                                    who : Tasks \cup {None}]]
      BY DEF PoolInv, TableInv, TableTypes
<1>2. coro_handoff'[v].state = st /\ \A u \in Workers : u # v => coro_handoff'[u] = coro_handoff[u]
      BY <1>1
<1> QED BY <1>2 DEF MailHas

LEMMA MailStays ==
    ASSUME PoolInv, BusyHeld, NEW w \in Workers, AskForOne(w) \/ Offer(w) \/ NothingToSpare(w)
    PROVE  Stay /\ HandedOver' = HandedOver
<1>1. /\ UNCHANGED <<coros, ring, done_at, listed, ended, refused, hand>>
      /\ pc[w] \in {"mail", "offer", "donate"}
      BY DEF AskForOne, Offer, NothingToSpare
<1>2. \A u, x : MailHas(u, x)' <=> MailHas(u, x)
      <2>1. at[w] \in Workers
            BY WorkersAreThreads DEF PoolInv, RingInv, RingTypes
      <2>2. CASE coro_handoff' = coro_handoff
            BY <2>2, KindsSame
      <2>3. CASE AskForOne(w) /\ coro_handoff' # coro_handoff
            <3>1. /\ coro_handoff[w].state # "READY"
                  /\ coro_handoff' = [coro_handoff EXCEPT ![w].state = "REQUEST"]
                  BY <2>3 DEF AskForOne
            <3> QED BY <3>1, BoxStays
      <2>4. CASE Offer(w) /\ coro_handoff' # coro_handoff
            <3>1. /\ coro_handoff[at[w]].state # "READY"
                  /\ coro_handoff' = [coro_handoff EXCEPT ![at[w]].state = "BUSY"]
                  BY <2>4 DEF Offer
            <3> QED BY <2>1, <3>1, BoxStays
      <2>5. CASE NothingToSpare(w)
            <3>1. coro_handoff[at[w]].state # "READY"
                  BY <2>5 DEF NothingToSpare, BusyHeld
            <3>2. coro_handoff' = [coro_handoff EXCEPT ![at[w]].state = "EMPTY"]
                  BY <2>5 DEF NothingToSpare
            <3> QED BY <2>1, <3>1, <3>2, BoxStays
      <2> QED BY <2>2, <2>3, <2>4, <2>5
<1>3. \E l : l \notin {"glock", "gput", "spawn"} /\ (Goto(w, l) \/ pc' = pc)
      BY DEF AskForOne, Offer, NothingToSpare, NextOffer
<1>4. \E l : l \notin {"glock", "gput", "spawn"} /\ Goto(w, l)
      <2>1. pc' = pc => Goto(w, pc[w])
            BY DEF PoolInv, RingInv, RingTypes, Goto
      <2> QED BY <1>1, <1>3, <2>1
<1>5. \A a, x : (Going(a, x)' <=> Going(a, x)) /\ (HandHas(a, x)' <=> HandHas(a, x))
      BY <1>1, <1>4, HandsQuiet, WorkersAreThreads DEF PoolInv
<1>6. UNCHANGED <<pool_queue, pool_head, pool_tail, accepted>>
      BY <1>1 DEF ring
<1> QED BY <1>1, <1>2, <1>5, <1>6, KindsSame, AllStay

\* One slot of a table is set to something else.
LEMMA SlotChanges ==
    ASSUME PoolInv, NEW w \in Workers, NEW i \in 1 .. Len(coros[w]), NEW slot \in SlotType(Tasks),
           coros' = [coros EXCEPT ![w] = [coros[w] EXCEPT ![i] = slot]]
    PROVE  \A v, j, x : SlotHas(v, j, x)' <=>
               IF v = w /\ j = i THEN ~slot.done /\ ~slot.moved /\ slot.who = x ELSE SlotHas(v, j, x)
<1>1. coros \in [Workers -> Seq(SlotType(Tasks))]
      BY DEF PoolInv, TableInv, TableTypes
<1>2. PICK tab : tab = [coros[w] EXCEPT ![i] = slot]
      OBVIOUS
<1>3. /\ tab \in Seq(SlotType(Tasks)) /\ Len(tab) = Len(coros[w])
      /\ \A j \in 1 .. Len(coros[w]) : tab[j] = IF j = i THEN slot ELSE coros[w][j]
      <2>1. coros[w] \in Seq(SlotType(Tasks))
            BY <1>1
      <2> QED BY <1>2, <2>1, ChangeSlot
<1>4. coros'[w] = tab /\ \A v \in Workers : v # w => coros'[v] = coros[v]
      BY <1>1, <1>2
<1>5. \A j : j \in Live(tab) <=> IF j = i THEN ~slot.done /\ ~slot.moved ELSE j \in Live(coros[w])
      <2>1. DOMAIN tab = 1 .. Len(coros[w]) /\ DOMAIN coros[w] = 1 .. Len(coros[w])
            BY <1>1, <1>3
      <2> QED BY <1>3, <2>1 DEF Live, Runnable
<1>6. \A j \in Live(tab) : tab[j] = IF j = i THEN slot ELSE coros[w][j]
      BY <1>3 DEF Live
<1>7. \A j, x : SlotHas(w, j, x)' <=>
          IF j = i THEN ~slot.done /\ ~slot.moved /\ slot.who = x ELSE SlotHas(w, j, x)
      BY <1>4, <1>5, <1>6 DEF SlotHas
<1>8. \A v, j, x : v # w => (SlotHas(v, j, x)' <=> SlotHas(v, j, x))
      BY <1>4 DEF SlotHas
<1> QED BY <1>7, <1>8

\* A flag of a slot that says nothing of its being live.
LEMMA FlagStays ==
    ASSUME PoolInv, NEW w \in Workers, NEW i \in Live(coros[w]), NEW slot,
           \/ slot = [coros[w][i] EXCEPT !.parked = TRUE]
           \/ slot = [coros[w][i] EXCEPT !.blocked = TRUE]
           \/ slot = [coros[w][i] EXCEPT !.blocked = FALSE],
           coros' = [coros EXCEPT ![w] = [coros[w] EXCEPT ![i] = slot]]
    PROVE  \A v, j, x : SlotHas(v, j, x)' <=> SlotHas(v, j, x)
<1>1. i \in 1 .. Len(coros[w]) /\ coros[w][i] \in SlotType(Tasks)
      <2>1. coros[w] \in Seq(SlotType(Tasks))
            BY DEF PoolInv, TableInv, TableTypes
      <2>2. i \in 1 .. Len(coros[w])
            BY <2>1 DEF Live
      <2> QED BY <2>1, <2>2
<1>2. /\ slot \in SlotType(Tasks) /\ slot.done = coros[w][i].done
      /\ slot.moved = coros[w][i].moved /\ slot.who = coros[w][i].who
      BY <1>1 DEF SlotType
<1>3. ~slot.done /\ ~slot.moved
      BY <1>2 DEF Live, Runnable
<1>4. \A v, j, x : SlotHas(v, j, x)' <=>
          IF v = w /\ j = i THEN ~slot.done /\ ~slot.moved /\ slot.who = x ELSE SlotHas(v, j, x)
      BY <1>1, <1>2, SlotChanges
<1>5. \A x : SlotHas(w, i, x) <=> slot.who = x
      BY <1>2 DEF SlotHas
<1> QED BY <1>3, <1>4, <1>5

\* An operation of a body is over.
LEMMA BodyShrinks ==
    ASSUME PoolInv, NEW w \in Workers, pc[w] = "run", Op(w)[1] # "end", Done(w)
    PROVE  \A u, i, x : InBody(u, i, x)' <=>
               InBody(u, i, x) /\ ~ (u = Running(w) /\ i = done_at[Running(w)] + 1)
<1>1. PICK r : r = Running(w)
      OBVIOUS
<1>2. r \in Tasks /\ done_at \in [Tasks -> Nat]
      BY <1>1, RunningIsTask DEF PoolInv, TableInv, TableTypes
<1>3. /\ done_at'[r] = done_at[r] + 1
      /\ \A u \in Tasks : u # r => done_at'[u] = done_at[u]
      BY <1>1, <1>2 DEF Done
<1>4. done_at[r] \in Nat
      BY <1>2
<1>5. \A u, i, x : InBody(u, i, x)' <=> InBody(u, i, x) /\ ~ (u = r /\ i = done_at[r] + 1)
      BY <1>3, <1>4 DEF InBody
<1> QED BY <1>1, <1>5

\* coro_yield's switch, and what a coroutine does but end or call go().
LEMMA RunStays ==
    ASSUME PoolInv, NEW w \in Workers, Switch(w) \/ Yield(w) \/ Wait(w) \/ WaitOver(w)
    PROVE  Stay /\ HandedOver' = HandedOver
<1>1. /\ UNCHANGED <<ring, coro_handoff, listed, ended, refused, hand>>
      /\ pc[w] \in {"switch", "run"}
      BY DEF Switch, Yield, Wait, WaitOver
<1>2. \E l : l \notin {"glock", "gput", "spawn"} /\ Goto(w, l)
      <2>1. pc' = pc => Goto(w, pc[w])
            BY DEF PoolInv, RingInv, RingTypes, Goto
      <2> QED BY <1>1, <2>1 DEF Switch, Resume, Yield, Wait, WaitOver
<1>3. \A a, x : (Going(a, x)' <=> Going(a, x)) /\ (HandHas(a, x)' <=> HandHas(a, x))
      BY <1>1, <1>2, HandsQuiet, WorkersAreThreads DEF PoolInv
<1>4. UNCHANGED <<pool_queue, pool_head, pool_tail, accepted>>
      BY <1>1 DEF ring
<1>5. \A u, i, x : InBody(u, i, x)' <=> InBody(u, i, x)
      <2>1. CASE Switch(w) \/ Wait(w)
            BY <2>1, KindsSame DEF Switch, Wait
      <2>2. CASE Yield(w) \/ WaitOver(w)
            <3>1. pc[w] = "run" /\ Op(w)[1] \in {"yield", "wait"} /\ Done(w)
                  BY <2>2 DEF Yield, WaitOver
            <3>2. \A u, i, x : InBody(u, i, x)' <=>
                      InBody(u, i, x) /\ ~ (u = Running(w) /\ i = done_at[Running(w)] + 1)
                  BY <3>1, BodyShrinks
            <3>3. \A x : Body[Running(w)][done_at[Running(w)] + 1] # <<"go", x>>
                  BY <3>1, RunningIsTask
            <3> QED BY <3>2, <3>3 DEF InBody
      <2> QED BY <2>1, <2>2
<1>6. \A v, j, x : SlotHas(v, j, x)' <=> SlotHas(v, j, x)
      <2>1. CASE coros' = coros
            BY <2>1, KindsSame
      <2>2. CASE Switch(w) /\ coros' # coros
            <3>1. PICK c : c = cur_coro[w]
                  OBVIOUS
            <3>2. c # 0 /\ c \in Live(coros[w])
                  BY <2>2, <3>1 DEF Switch, PoolInv, TableInv, RunsWhatItOwns
            <3>3. PICK slot : slot = [coros[w][c] EXCEPT !.parked = TRUE]
                  OBVIOUS
            <3>4. coros' = [coros EXCEPT ![w] = [coros[w] EXCEPT ![c] = slot]]
                  BY <2>2, <3>1, <3>3 DEF Switch
            <3> QED BY <3>2, <3>3, <3>4, FlagStays
      <2>3. CASE Wait(w)
            <3>1. PICK c : c = cur_coro[w]
                  OBVIOUS
            <3>2. c \in Live(coros[w])
                  BY <2>3, <3>1, RunningIsTask DEF Wait
            <3>3. PICK slot : slot = [coros[w][c] EXCEPT !.blocked = TRUE]
                  OBVIOUS
            <3>4. coros' = [coros EXCEPT ![w] = [coros[w] EXCEPT ![c] = slot]]
                  BY <2>3, <3>1, <3>3 DEF Wait
            <3> QED BY <3>2, <3>3, <3>4, FlagStays
      <2>4. CASE WaitOver(w)
            <3>1. PICK c : c = cur_coro[w]
                  OBVIOUS
            <3>2. c \in Live(coros[w])
                  BY <2>4, <3>1, RunningIsTask DEF WaitOver
            <3>3. PICK slot : slot = [coros[w][c] EXCEPT !.blocked = FALSE]
                  OBVIOUS
            <3>4. coros' = [coros EXCEPT ![w] = [coros[w] EXCEPT ![c] = slot]]
                  BY <2>4, <3>1, <3>3 DEF WaitOver
            <3> QED BY <3>2, <3>3, <3>4, FlagStays
      <2> QED BY <2>1, <2>2, <2>3, <2>4 DEF Yield
<1> QED BY <1>1, <1>3, <1>4, <1>5, <1>6, KindsSame, AllStay
-------------------------------------------------------------------------------
(* Steps in which one task changes place *)

\* From the front of a ring into the popper's hand.
LEMMA AdvanceMoves ==
    ASSUME PoolInv, NEW w \in Workers, PopAdvance(w)
    PROVE  /\ Moves(hand[w], "ring", at[w], pool_head[at[w]], "hand", w, 0)
           /\ hand[w] \in Tasks /\ HandedOver' = HandedOver
<1>1. PICK v, h, y : v = at[w] /\ h = pool_head[at[w]] /\ y = hand[w]
      OBVIOUS
<1>2. w \in Threads /\ v \in Workers /\ pool_head \in [Workers -> Nat] /\ h \in Nat
      BY <1>1, WorkersAreThreads DEF PoolInv, RingInv, RingTypes
<1>3. /\ pool_head' = [pool_head EXCEPT ![v] = h + 1]
      /\ UNCHANGED <<pool_queue, pool_tail, accepted, hand, coros, coro_handoff, done_at,
                     listed, ended, refused>>
      /\ pc[w] = "advance" /\ Goto(w, "spawn")
      BY <1>1 DEF PopAdvance
<1>4. y \in Tasks /\ h < pool_tail[v] /\ y = pool_queue[v][h % QueueLen]
      BY <1>1, <1>2, <1>3 DEF PoolInv, RingInv, HandsFull, Carrying, CopyRight
<1>5. pool_head'[v] = h + 1 /\ \A u \in Workers : u # v => pool_head'[u] = pool_head[u]
      BY <1>2, <1>3
<1>6. RingHas(v, h, y)
      BY <1>1, <1>2, <1>4 DEF RingHas
<1>7. \A u, k, x : RingHas(u, k, x)' <=> RingHas(u, k, x) /\ ~ (x = y /\ u = v /\ k = h)
      <2>1. \A k, x : RingHas(v, k, x)' <=> RingHas(v, k, x) /\ k # h
            BY <1>1, <1>2, <1>3, <1>5 DEF RingHas
      <2>2. \A x : RingHas(v, h, x) => x = y
            BY <1>4 DEF RingHas
      <2>3. \A u, k, x : u # v => (RingHas(u, k, x)' <=> RingHas(u, k, x))
            BY <1>3, <1>5 DEF RingHas
      <2> QED BY <2>1, <2>2, <2>3
<1>8. pc'[w] = "spawn" /\ \A u \in Threads : u # w => pc'[u] = pc[u]
      BY <1>2, <1>3, OnlyMoves DEF PoolInv
<1>9. \A a, x : /\ Going(a, x)' <=> Going(a, x)
                /\ HandHas(a, x)' <=> HandHas(a, x) \/ (x = y /\ a = w)
      BY <1>1, <1>3, <1>8, WorkersAreThreads DEF Going, HandHas
<1>10. /\ \A i, x : InList(i, x)' <=> InList(i, x)
       /\ \A u, i, x : InBody(u, i, x)' <=> InBody(u, i, x)
       /\ \A u, i, x : SlotHas(u, i, x)' <=> SlotHas(u, i, x)
       /\ \A u, x : MailHas(u, x)' <=> MailHas(u, x)
       /\ HandedOver' = HandedOver
      BY <1>3, KindsSame
<1>11. Moves(y, "ring", v, h, "hand", w, 0)
      BY <1>3, <1>6, <1>7, <1>9, <1>10 DEF Moves, IsAt
<1> QED BY <1>1, <1>4, <1>10, <1>11

\* A slot is filled that was not live.
LEMMA FillChanges ==
    ASSUME PoolInv, NEW w \in Workers, NEW id \in 1 .. Len(coros[w]) + 1, id \notin Live(coros[w]),
           NEW slot \in SlotType(Tasks), ~slot.done, ~slot.moved,
           coros' = [coros EXCEPT ![w] = Fill(coros[w], id, slot)]
    PROVE  \A v, j, x : SlotHas(v, j, x)' <=>
               SlotHas(v, j, x) \/ (x = slot.who /\ v = w /\ j = id)
<1>1. coros \in [Workers -> Seq(SlotType(Tasks))] /\ coros[w] \in Seq(SlotType(Tasks))
      BY DEF PoolInv, TableInv, TableTypes
<1>4. PICK old, tab : old = coros[w] /\ tab = Fill(old, id, slot)
      OBVIOUS
<1>5. /\ Len(tab) = IF id > Len(old) THEN Len(old) + 1 ELSE Len(old)
      /\ tab \in Seq(SlotType(Tasks)) /\ old \in Seq(SlotType(Tasks))
      /\ \A j \in 1 .. Len(tab) : tab[j] = IF j = id THEN slot ELSE old[j]
      <2>1. old \in Seq(SlotType(Tasks)) /\ id \in 1 .. Len(old) + 1
            BY <1>1, <1>4
      <2>2. /\ Fill(old, id, slot) \in Seq(SlotType(Tasks))
            /\ Len(Fill(old, id, slot)) = IF id > Len(old) THEN Len(old) + 1 ELSE Len(old)
            /\ \A j \in 1 .. Len(Fill(old, id, slot)) :
                 Fill(old, id, slot)[j] = IF j = id THEN slot ELSE old[j]
            BY ONLY <2>1, FillSlot, slot \in SlotType(Tasks)
      <2> QED BY <1>4, <2>1, <2>2
<1>6. coros'[w] = tab /\ \A v \in Workers : v # w => coros'[v] = coros[v]
      BY <1>1, <1>4
<1>7. id \in 1 .. Len(old) + 1 /\ id \notin Live(old)
      BY <1>4
<1>8. \A j : j \in Live(tab) <=> j \in Live(old) \/ j = id
      <2>1. DOMAIN tab = 1 .. Len(tab) /\ DOMAIN old = 1 .. Len(old) /\ Len(old) \in Nat
            BY <1>5
      <2>2. \A j \in 1 .. Len(tab) : j = id \/ j \in 1 .. Len(old)
            BY <1>5, <1>7
      <2>3. id \in 1 .. Len(tab) /\ \A j \in 1 .. Len(old) : j \in 1 .. Len(tab)
            BY <1>5, <1>7
      <2>4. \A j \in 1 .. Len(tab) : Runnable(tab, j) <=> (j = id \/ Runnable(old, j))
            BY <1>5 DEF Runnable
      <2> QED BY <1>7, <2>1, <2>2, <2>3, <2>4 DEF Live
<1>9. \A j \in Live(tab) : tab[j] = IF j = id THEN slot ELSE old[j]
      BY <1>5 DEF Live
<1>10. \A j, x : SlotHas(w, j, x)' <=> SlotHas(w, j, x) \/ (x = slot.who /\ j = id)
      BY <1>4, <1>6, <1>7, <1>8, <1>9 DEF SlotHas
<1>11. \A v, j, x : v # w => (SlotHas(v, j, x)' <=> SlotHas(v, j, x))
      BY <1>6 DEF SlotHas
<1> QED BY <1>10, <1>11

\* A task has come to the place (k, a, b): a slot, or it was refused.
Landed(k, a, b, y) ==
    /\ k \in {"slot", "refused"}
    /\ \A v, j, x : SlotHas(v, j, x)' <=>
           SlotHas(v, j, x) \/ (x = y /\ k = "slot" /\ v = a /\ j = b)
    /\ \A x : x \in refused' <=> x \in refused \/ (x = y /\ k = "refused")
    /\ k = "refused" => a = 0 /\ b = 0

\* A request or an imported context gets a slot, or is refused.
LEMMA SlotOrRefused ==
    ASSUME PoolInv, NEW w \in Workers, NEW y \in Tasks, NEW slot \in SlotType(Tasks),
           ~slot.done, ~slot.moved, slot.who = y,
           IF FreeSlot(coros[w]) = 0
           THEN refused' = refused \cup {y} /\ UNCHANGED coros
           ELSE coros' = [coros EXCEPT ![w] = Fill(@, FreeSlot(coros[w]), slot)] /\ UNCHANGED refused
    PROVE  \E k, a, b : Landed(k, a, b, y)
<1>1. PICK id : id = FreeSlot(coros[w])
      OBVIOUS
<1>2. CASE id = 0
      <2>1. \A v, j, x : SlotHas(v, j, x)' <=> SlotHas(v, j, x)
            BY <1>1, <1>2, KindsSame
      <2>2. \A x : x \in refused' <=> x \in refused \/ x = y
            BY <1>1, <1>2
      <2>3. Landed("refused", 0, 0, y)
            BY <2>1, <2>2 DEF Landed
      <2> QED BY <2>3
<1>3. CASE id # 0
      <2>1. coros' = [coros EXCEPT ![w] = Fill(coros[w], id, slot)] /\ refused' = refused
            BY <1>1, <1>3
      <2>2. \A v, j, x : SlotHas(v, j, x)' <=> SlotHas(v, j, x) \/ (x = slot.who /\ v = w /\ j = id)
            <3>1. coros[w] \in Seq(SlotType(Tasks)) /\ Len(coros[w]) < Slots
                  BY DEF PoolInv, TableInv, TableTypes
            <3>2. id \in 0 .. Slots - 1 /\ id <= Len(coros[w]) + 1 /\ id \notin Live(coros[w])
                  BY <1>1, <3>1, FreeSlotIsFree, PoolAssumption DEF PoolAssumption
            <3>3. id \in 1 .. Len(coros[w]) + 1 /\ id \notin Live(coros[w])
                  BY <1>3, <3>1, <3>2
            <3> QED BY ONLY ZenonT(40), PoolInv, w \in Workers, slot \in SlotType(Tasks), ~slot.done, ~slot.moved, <2>1,
                        <3>3, FillChanges
      <2>3. Landed("slot", w, id, y)
            BY <2>1, <2>2 DEF Landed
      <2> QED BY <2>3
<1> QED BY <1>2, <1>3

\* Out of the hand of whoever popped it.
LEMMA SpawnMoves ==
    ASSUME PoolInv, NEW w \in Workers, SpawnRequest(w)
    PROVE  /\ \E k \in {"slot", "refused"} : \E a, b : Moves(hand[w], "hand", w, 0, k, a, b)
           /\ hand[w] \in Tasks /\ HandedOver' = HandedOver
<1>1. PICK y : y = hand[w]
      OBVIOUS
<1>2. /\ pc[w] = "spawn" /\ w \in Threads /\ \E l \in {"turn", "drain"} : Goto(w, l)
      /\ hand' = [hand EXCEPT ![w] = None]
      /\ UNCHANGED <<pool_queue, pool_head, pool_tail, accepted, done_at, listed, ended>>
      BY WorkersAreThreads DEF SpawnRequest, ring
<1>3. y \in Tasks
      BY <1>1, <1>2 DEF PoolInv, RingInv, HandsFull, Carrying
<1>4. Fresh(y) \in SlotType(Tasks) /\ ~Fresh(y).done /\ ~Fresh(y).moved /\ Fresh(y).who = y
      BY <1>3 DEF Fresh, SlotType
<1>5. IF FreeSlot(coros[w]) = 0
      THEN refused' = refused \cup {y} /\ UNCHANGED coros
      ELSE coros' = [coros EXCEPT ![w] = Fill(@, FreeSlot(coros[w]), Fresh(y))] /\ UNCHANGED refused
      BY <1>1 DEF SpawnRequest
<1>6. PICK slot : slot = Fresh(y)
      OBVIOUS
<1>7. PICK k, a, b : Landed(k, a, b, y)
      <2>1. slot \in SlotType(Tasks) /\ ~slot.done /\ ~slot.moved /\ slot.who = y
            BY <1>4, <1>6
      <2>2. IF FreeSlot(coros[w]) = 0
            THEN refused' = refused \cup {y} /\ UNCHANGED coros
            ELSE coros' = [coros EXCEPT ![w] = Fill(@, FreeSlot(coros[w]), slot)] /\ UNCHANGED refused
            BY <1>5, <1>6
      <2> QED BY <1>3, <2>1, <2>2, SlotOrRefused
<1>8. \A u, x : MailHas(u, x)' <=> MailHas(u, x)
      <2>1. CASE coro_handoff' = coro_handoff
            BY <2>1, KindsSame
      <2>2. CASE coro_handoff' # coro_handoff
            <3>1. /\ coro_handoff[w].state # "READY"
                  /\ coro_handoff' = [coro_handoff EXCEPT ![w].state = "EMPTY"]
                  BY <2>2 DEF SpawnRequest
            <3> QED BY <3>1, BoxStays
      <2> QED BY <2>1, <2>2
<1>9. pc'[w] \in {"turn", "drain"} /\ \A u \in Threads : u # w => pc'[u] = pc[u] /\ hand'[u] = hand[u]
      <2>1. hand \in [Threads -> Requests]
            BY DEF PoolInv, RingInv, RingTypes
      <2> QED BY <1>2, <2>1, OnlyMoves DEF PoolInv
<1>10. \A u, x : /\ Going(u, x)' <=> Going(u, x)
                 /\ HandHas(u, x)' <=> HandHas(u, x) /\ ~ (x = y /\ u = w)
       BY <1>1, <1>2, <1>9, WorkersAreThreads DEF Going, HandHas
<1>11. HandHas(w, y)
       BY <1>1, <1>2 DEF HandHas
<1>12. /\ \A i, x : InList(i, x)' <=> InList(i, x)
       /\ \A u, i, x : InBody(u, i, x)' <=> InBody(u, i, x)
       /\ \A v, i, x : RingHas(v, i, x)' <=> RingHas(v, i, x)
       /\ HandedOver' = HandedOver
       BY <1>2, KindsSame
<1>13. Moves(y, "hand", w, 0, k, a, b)
       BY <1>2, <1>7, <1>8, <1>10, <1>11, <1>12 DEF Moves, IsAt, Landed
<1>14. k \in {"slot", "refused"}
       BY <1>7 DEF Landed
<1> QED BY <1>1, <1>3, <1>12, <1>13, <1>14

\* Out of the mailbox.
LEMMA TakeMoves ==
    ASSUME PoolInv, NEW w \in Workers, TakeReady(w)
    PROVE  /\ \E k \in {"slot", "refused"} : \E a, b : Moves(coro_handoff[w].who, "mail", w, 0, k, a, b)
           /\ coro_handoff[w].who \in Tasks /\ HandedOver' = HandedOver
<1>1. PICK y : y = coro_handoff[w].who
      OBVIOUS
<1>2. /\ pc[w] = "mail" /\ w \in Threads /\ Goto(w, "drain") /\ coro_handoff[w].state = "READY"
      /\ coro_handoff' = [coro_handoff EXCEPT ![w] = [state |-> "EMPTY", who |-> None]]
      /\ UNCHANGED <<pool_queue, pool_head, pool_tail, accepted, done_at, listed, ended, hand>>
      BY WorkersAreThreads DEF TakeReady, ring
<1>3. y \in Tasks
      BY <1>1, <1>2 DEF PoolInv, TableInv, MailFull
<1>4. PICK slot : slot = Imported(y)
      OBVIOUS
<1>5. slot \in SlotType(Tasks) /\ ~slot.done /\ ~slot.moved /\ slot.who = y
      BY <1>3, <1>4 DEF Imported, Fresh, SlotType
<1>6. IF FreeSlot(coros[w]) = 0
      THEN refused' = refused \cup {y} /\ UNCHANGED coros
      ELSE coros' = [coros EXCEPT ![w] = Fill(@, FreeSlot(coros[w]), slot)] /\ UNCHANGED refused
      BY <1>1, <1>4 DEF TakeReady
<1>7. PICK k, a, b : Landed(k, a, b, y)
      BY <1>3, <1>5, <1>6, SlotOrRefused
<1>8. /\ MailHas(w, y)
      /\ \A u, x : MailHas(u, x)' <=> MailHas(u, x) /\ ~ (x = y /\ u = w)
      <2>1. coro_handoff'[w].state = "EMPTY" /\ \A u \in Workers : u # w => coro_handoff'[u] = coro_handoff[u]
            BY <1>2 DEF PoolInv, TableInv, TableTypes
      <2> QED BY <1>1, <1>2, <2>1 DEF MailHas
<1>9. \A u, x : (Going(u, x)' <=> Going(u, x)) /\ (HandHas(u, x)' <=> HandHas(u, x))
      BY <1>2, HandsQuiet DEF PoolInv
<1>10. /\ \A i, x : InList(i, x)' <=> InList(i, x)
       /\ \A u, i, x : InBody(u, i, x)' <=> InBody(u, i, x)
       /\ \A v, i, x : RingHas(v, i, x)' <=> RingHas(v, i, x)
       /\ HandedOver' = HandedOver
       BY <1>2, KindsSame
<1>11. Moves(y, "mail", w, 0, k, a, b)
       BY <1>2, <1>7, <1>8, <1>9, <1>10 DEF Moves, IsAt, Landed
<1>12. k \in {"slot", "refused"}
       BY <1>7 DEF Landed
<1> QED BY <1>1, <1>3, <1>10, <1>11, <1>12

\* From the donor's table into the mailbox of the one who asked.
LEMMA DonateMoves ==
    ASSUME PoolInv, BusyHeld, NEW w \in Workers, Donate(w)
    PROVE  \E y \in Tasks : \E i :
               Moves(y, "slot", w, i, "mail", at[w], 0) /\ HandedOver' = HandedOver
<1>1. PICK i : i = Least(Spare(coros[w], cur_coro[w]))
      OBVIOUS
<1>2. coros[w] \in Seq(SlotType(Tasks))
      BY DEF PoolInv, TableInv, TableTypes
<1>3. i \in Live(coros[w]) /\ i \in 1 .. Len(coros[w])
      <2>1. Spare(coros[w], cur_coro[w]) \subseteq Nat /\ Spare(coros[w], cur_coro[w]) # {}
            <3>1. Spare(coros[w], cur_coro[w]) # {}
                  BY DEF Donate
            <3>2. Spare(coros[w], cur_coro[w]) \subseteq DOMAIN coros[w]
                  BY DEF Spare, Live
            <3>3. DOMAIN coros[w] \subseteq Nat
                  BY <1>2
            <3> QED BY <3>1, <3>2, <3>3
      <2>2. i \in Spare(coros[w], cur_coro[w])
            BY <1>1, <2>1, LeastOf
      <2> QED BY <1>2, <2>2 DEF Spare, Live
<1>4. PICK y : y = coros[w][i].who
      OBVIOUS
<1>5. coros[w][i] \in SlotType(Tasks) /\ y \in Tasks
      <2>1. coros[w][i] \in SlotType(Tasks)
            BY <1>2, <1>3
      <2> QED BY <1>4, <2>1 DEF SlotType
<1>6. PICK slot : slot = [coros[w][i] EXCEPT !.moved = TRUE]
      OBVIOUS
<1>7. slot \in SlotType(Tasks) /\ slot.moved
      BY <1>5, <1>6 DEF SlotType
<1>8. PICK v : v = at[w]
      OBVIOUS
<1>9. /\ coros' = [coros EXCEPT ![w] = [coros[w] EXCEPT ![i] = slot]]
      /\ coro_handoff' = [coro_handoff EXCEPT ![v] = [state |-> "READY", who |-> y]]
      /\ UNCHANGED <<pool_queue, pool_head, pool_tail, accepted, done_at, listed, ended, refused, hand>>
      /\ pc[w] = "donate" /\ Goto(w, "switch")
      BY <1>1, <1>4, <1>6, <1>8 DEF Donate, ring
<1>10. w \in Threads /\ v \in Workers
      BY <1>8, WorkersAreThreads DEF PoolInv, RingInv, RingTypes
<1>11. \A u, j, x : SlotHas(u, j, x)' <=> SlotHas(u, j, x) /\ ~ (x = y /\ u = w /\ j = i)
      <2>1. \A u, j, x : SlotHas(u, j, x)' <=>
                IF u = w /\ j = i THEN ~slot.done /\ ~slot.moved /\ slot.who = x ELSE SlotHas(u, j, x)
            BY <1>3, <1>7, <1>9, SlotChanges
      <2>2. \A x : SlotHas(w, i, x) => x = y
            BY <1>4 DEF SlotHas
      <2> QED BY <1>7, <2>1, <2>2
<1>12. \A u, x : MailHas(u, x)' <=> MailHas(u, x) \/ (x = y /\ u = v)
      <2>1. coro_handoff[v].state = "BUSY"
            BY <1>8, <1>9 DEF BusyHeld
      <2>2. /\ coro_handoff'[v] = [state |-> "READY", who |-> y]
            /\ \A u \in Workers : u # v => coro_handoff'[u] = coro_handoff[u]
            BY <1>9, <1>10 DEF PoolInv, TableInv, TableTypes
      <2>3. coro_handoff'[v].state = "READY" /\ coro_handoff'[v].who = y
            BY <2>2
      <2> QED BY <1>10, <2>1, <2>2, <2>3 DEF MailHas
<1>13. \A u, x : (Going(u, x)' <=> Going(u, x)) /\ (HandHas(u, x)' <=> HandHas(u, x))
      BY <1>9, <1>10, HandsQuiet DEF PoolInv
<1>14. /\ \A j, x : InList(j, x)' <=> InList(j, x)
       /\ \A u, j, x : InBody(u, j, x)' <=> InBody(u, j, x)
       /\ \A u, j, x : RingHas(u, j, x)' <=> RingHas(u, j, x)
       /\ HandedOver' = HandedOver
       BY <1>9, KindsSame
<1>15. SlotHas(w, i, y)
       BY <1>3, <1>4 DEF SlotHas
<1>16. Moves(y, "slot", w, i, "mail", v, 0)
       BY <1>9, <1>11, <1>12, <1>13, <1>14, <1>15 DEF Moves, IsAt
<1> QED BY <1>5, <1>8, <1>14, <1>16

\* The running coroutine ends.
LEMMA FinishMoves ==
    ASSUME PoolInv, NEW w \in Workers, Finish(w)
    PROVE  \E y \in Tasks : \E i :
               y = Running(w) /\ Moves(y, "slot", w, i, "ended", 0, 0) /\ HandedOver' = HandedOver
<1>1. PICK c, y : c = cur_coro[w] /\ y = Running(w)
      OBVIOUS
<1>2. /\ c \in Live(coros[w]) /\ c \in 1 .. Len(coros[w]) /\ y \in Tasks
      /\ coros[w][c] \in SlotType(Tasks) /\ coros[w][c].who = y
      <2>1. pc[w] = "run"
            BY DEF Finish
      <2> QED BY <1>1, <2>1, RunningIsTask DEF Running
<1>3. PICK slot : slot = [coros[w][c] EXCEPT !.done = TRUE]
      OBVIOUS
<1>4. slot \in SlotType(Tasks) /\ slot.done
      BY <1>2, <1>3 DEF SlotType
<1>5. /\ coros' = [coros EXCEPT ![w] = [coros[w] EXCEPT ![c] = slot]]
      /\ ended' = ended \cup {y} /\ pc[w] = "run" /\ \E l \in {"drain", "run"} : Goto(w, l)
      /\ UNCHANGED <<pool_queue, pool_head, pool_tail, accepted, coro_handoff, done_at, listed,
                     refused, hand>>
      BY <1>1, <1>3 DEF Finish, Resume, ring
<1>6. \A v, j, x : SlotHas(v, j, x)' <=> SlotHas(v, j, x) /\ ~ (x = y /\ v = w /\ j = c)
      <2>1. \A v, j, x : SlotHas(v, j, x)' <=>
                IF v = w /\ j = c THEN ~slot.done /\ ~slot.moved /\ slot.who = x ELSE SlotHas(v, j, x)
            BY <1>2, <1>4, <1>5, SlotChanges
      <2>2. \A x : SlotHas(w, c, x) => x = y
            BY <1>2 DEF SlotHas
      <2> QED BY <1>4, <2>1, <2>2
<1>7. \A u, x : (Going(u, x)' <=> Going(u, x)) /\ (HandHas(u, x)' <=> HandHas(u, x))
      BY <1>5, HandsQuiet, WorkersAreThreads DEF PoolInv
<1>8. /\ \A j, x : InList(j, x)' <=> InList(j, x)
      /\ \A u, j, x : InBody(u, j, x)' <=> InBody(u, j, x)
      /\ \A u, j, x : RingHas(u, j, x)' <=> RingHas(u, j, x)
      /\ \A u, x : MailHas(u, x)' <=> MailHas(u, x)
      /\ HandedOver' = HandedOver
      BY <1>5, KindsSame
<1>9. \A x : x \in ended' <=> x \in ended \/ x = y
      BY <1>5
<1>10. SlotHas(w, c, y)
       BY <1>2 DEF SlotHas
<1>11. Moves(y, "slot", w, c, "ended", 0, 0)
       BY <1>5, <1>6, <1>7, <1>8, <1>9, <1>10 DEF Moves, IsAt
<1> QED BY <1>1, <1>2, <1>8, <1>11

\* go() is called with a task.
LEMMA PickGoes ==
    ASSUME RingInv, NEW t \in Threads, pc[t] \in {"idle", "run"}, NEW y \in Tasks, Pick(t, y)
    PROVE  \A a, x : /\ Going(a, x)' <=> Going(a, x) \/ (x = y /\ a = t)
                     /\ HandHas(a, x)' <=> HandHas(a, x)
<1>1. pc'[t] = "glock" /\ \A u \in Threads : u # t => pc'[u] = pc[u]
      BY OnlyMoves DEF Pick
<1>2. hand'[t] = y /\ \A u \in Threads : u # t => hand'[u] = hand[u]
      BY DEF Pick, RingInv, RingTypes
<1>3. \A a, x : Going(a, x)' <=> Going(a, x) \/ (x = y /\ a = t)
      BY <1>1, <1>2 DEF Going
<1>4. \A a, x : HandHas(a, x)' <=> HandHas(a, x)
      BY <1>1, <1>2, WorkersAreThreads DEF HandHas
<1> QED BY <1>3, <1>4

\* From main's list into main's call of go().
LEMMA GoMainMoves ==
    ASSUME PoolInv, GoMain
    PROVE  \E y \in Tasks : \E i :
               Moves(y, "list", i, 0, "going", Main, 0) /\ HandedOver' = HandedOver
<1>1. listed \in Nat /\ GoList \in Seq(Tasks) /\ listed < Len(GoList)
      BY PoolAssumption DEF GoMain, PoolInv, TableInv, TableTypes, PoolAssumption
<1>2. PICK i, y : i = listed + 1 /\ y = GoList[i]
      OBVIOUS
<1>3. i \in 1 .. Len(GoList) /\ y \in Tasks
      BY <1>1, <1>2
<1>4. /\ pc[Main] = "idle" /\ Main \in Threads /\ Pick(Main, y) /\ listed' = listed + 1
      /\ UNCHANGED <<pool_queue, pool_head, pool_tail, accepted, coros, coro_handoff, done_at,
                     ended, refused>>
      BY <1>2, WorkersAreThreads DEF GoMain, ring
<1>5. \A a, x : /\ Going(a, x)' <=> Going(a, x) \/ (x = y /\ a = Main)
                /\ HandHas(a, x)' <=> HandHas(a, x)
      BY <1>3, <1>4, PickGoes DEF PoolInv
<1>6. InList(i, y) /\ \A j, x : InList(j, x)' <=> InList(j, x) /\ ~ (x = y /\ j = i)
      <2>1. \A j \in 1 .. Len(GoList) : j > listed' <=> j > listed /\ j # i
            BY <1>1, <1>2, <1>4
      <2>2. i > listed
            BY <1>1, <1>2
      <2> QED BY <1>2, <1>3, <2>1, <2>2 DEF InList
<1>7. /\ \A u, j, x : InBody(u, j, x)' <=> InBody(u, j, x)
      /\ \A u, j, x : RingHas(u, j, x)' <=> RingHas(u, j, x)
      /\ \A u, j, x : SlotHas(u, j, x)' <=> SlotHas(u, j, x)
      /\ \A u, x : MailHas(u, x)' <=> MailHas(u, x)
      /\ HandedOver' = HandedOver
      BY <1>4, KindsSame
<1>8. Moves(y, "list", i, 0, "going", Main, 0)
      BY <1>4, <1>5, <1>6, <1>7 DEF Moves, IsAt
<1> QED BY <1>3, <1>7, <1>8

\* From a body into the call of go() that it makes.
LEMMA GoInsideMoves ==
    ASSUME PoolInv, NEW w \in Workers, GoInside(w)
    PROVE  \E y \in Tasks : \E u, i :
               Moves(y, "body", u, i, "going", w, 0) /\ HandedOver' = HandedOver
<1>1. pc[w] = "run" /\ Op(w)[1] = "go" /\ Pick(w, Op(w)[2]) /\ Done(w)
      BY DEF GoInside
<1>2. PICK r, i, y : r = Running(w) /\ i = done_at[r] + 1 /\ y = Op(w)[2]
      OBVIOUS
<1>3. /\ r \in Tasks /\ y \in Tasks /\ done_at[r] < Len(Body[r]) /\ Op(w) = Body[r][i]
      BY <1>1, <1>2, RunningIsTask
<1>4. Body[r] \in Seq({<<"yield">>} \cup ({"go", "wait"} \X Tasks)) /\ done_at[r] \in Nat
      BY <1>3, PoolAssumption DEF PoolAssumption, PoolInv, TableInv, TableTypes
<1>5. i \in 1 .. Len(Body[r]) /\ i > done_at[r]
      BY <1>2, <1>3, <1>4
<1>6. Body[r][i] = <<"go", y>>
      <2>1. Op(w) \in {<<"yield">>} \cup ({"go", "wait"} \X Tasks)
            BY <1>3, <1>4, <1>5
      <2>2. <<"yield">>[1] # "go"
            OBVIOUS
      <2>3. Op(w) \in {"go", "wait"} \X Tasks
            BY <1>1, <2>1, <2>2
      <2>4. Op(w) = <<Op(w)[1], Op(w)[2]>>
            BY <2>3
      <2> QED BY <1>1, <1>2, <1>3, <2>4
<1>7. InBody(r, i, y) /\ \A u, j, x : InBody(u, j, x)' <=> InBody(u, j, x) /\ ~ (x = y /\ u = r /\ j = i)
      <2>1. \A u, j, x : InBody(u, j, x)' <=> InBody(u, j, x) /\ ~ (u = r /\ j = i)
            BY <1>1, <1>2, BodyShrinks
      <2>2. \A x : InBody(r, i, x) => x = y
            BY <1>6 DEF InBody
      <2>3. InBody(r, i, y)
            BY <1>3, <1>5, <1>6 DEF InBody
      <2> QED BY <2>1, <2>2, <2>3
<1>8. \A a, x : /\ Going(a, x)' <=> Going(a, x) \/ (x = y /\ a = w)
                /\ HandHas(a, x)' <=> HandHas(a, x)
      BY <1>1, <1>2, <1>3, WorkersAreThreads, PickGoes DEF PoolInv
<1>9. UNCHANGED <<pool_queue, pool_head, pool_tail, accepted, coros, coro_handoff, listed, ended, refused>>
      BY DEF GoInside, ring
<1>10. /\ \A j, x : InList(j, x)' <=> InList(j, x)
       /\ \A u, j, x : RingHas(u, j, x)' <=> RingHas(u, j, x)
       /\ \A u, j, x : SlotHas(u, j, x)' <=> SlotHas(u, j, x)
       /\ \A u, x : MailHas(u, x)' <=> MailHas(u, x)
       /\ HandedOver' = HandedOver
      BY <1>9, KindsSame
<1>11. Moves(y, "body", r, i, "going", w, 0)
      BY <1>7, <1>8, <1>9, <1>10 DEF Moves, IsAt
<1> QED BY <1>3, <1>10, <1>11

\* From go() into a ring: the slot that is written holds nobody who waits.
LEMMA PutMoves ==
    ASSUME PoolInv, NEW t \in Threads, GoPut(t)
    PROVE  \E y \in Tasks : \E v, k :
               /\ Moves(y, "going", t, 0, "ring", v, k)
               /\ HandedOver' = HandedOver \cup {y}
<1>1. PICK v, tl, y : v = at[t] /\ tl = pool_tail[v] /\ y = hand[t]
      OBVIOUS
<1>2. PICK p : p = tl % QueueLen
      OBVIOUS
<1>3. /\ pool_tail' = [pool_tail EXCEPT ![v] = tl + 1]
      /\ pool_queue' = [pool_queue EXCEPT ![v] = [pool_queue[v] EXCEPT ![p] = y]]
      /\ accepted' = [accepted EXCEPT ![v] = Append(accepted[v], y)]
      /\ hand' = [hand EXCEPT ![t] = None]
      /\ pc[t] = "gput" /\ ~RingFull(v) /\ \E l \in {"idle", "run"} : Goto(t, l)
      /\ UNCHANGED <<pool_head, coros, coro_handoff, done_at, listed, ended, refused>>
      BY <1>1, <1>2 DEF GoPut
<1>4. /\ v \in Workers /\ y \in Tasks /\ tl \in Nat /\ pool_head[v] \in Nat
      /\ QueueLen \in Nat \ {0} /\ tl < pool_head[v] + QueueLen /\ pool_head[v] <= tl
      <2>1. v \in Workers /\ y \in Tasks
            BY <1>1, <1>3 DEF PoolInv, RingInv, RingTypes, HandsFull, Carrying
      <2>2. pool_tail[v] \in Nat /\ pool_head[v] \in Nat /\ QueueLen \in Nat \ {0} /\ pool_head[v] <= pool_tail[v]
            BY <2>1, PoolAssumption DEF PoolAssumption, PoolInv, RingInv, RingTypes
      <2> QED BY <1>1, <1>3, <2>1, <2>2 DEF RingFull
<1>5. p \in 0 .. QueueLen - 1
      BY <1>2, <1>4, ModRange
<1>6. /\ pool_tail'[v] = tl + 1 /\ \A u \in Workers : u # v => pool_tail'[u] = pool_tail[u]
      /\ pool_queue'[v][p] = y /\ \A u \in Workers : u # v => pool_queue'[u] = pool_queue[u]
      /\ \A j \in 0 .. QueueLen - 1 : j # p => pool_queue'[v][j] = pool_queue[v][j]
      <2>1. pool_queue \in [Workers -> [0 .. QueueLen - 1 -> Requests]] /\ pool_tail \in [Workers -> Nat]
            BY DEF PoolInv, RingInv, RingTypes
      <2>2. pool_queue[v] \in [0 .. QueueLen - 1 -> Requests]
            BY <1>4, <2>1
      <2>3. PICK q : q = [pool_queue[v] EXCEPT ![p] = y]
            OBVIOUS
      <2>4. q[p] = y /\ \A j \in 0 .. QueueLen - 1 : j # p => q[j] = pool_queue[v][j]
            BY <1>5, <2>2, <2>3
      <2>5. pool_queue'[v] = q
            BY <1>3, <1>4, <2>1, <2>3
      <2> QED BY <1>3, <1>4, <2>1, <2>4, <2>5
<1>7. \A u, k, x : RingHas(u, k, x)' <=> RingHas(u, k, x) \/ (x = y /\ u = v /\ k = tl)
      <2>1. \A u, k, x : u # v => (RingHas(u, k, x)' <=> RingHas(u, k, x))
            BY <1>3, <1>6 DEF RingHas
      <2>2. \A x : RingHas(v, tl, x)' <=> x = y
            BY <1>1, <1>2, <1>3, <1>4, <1>6 DEF RingHas
      <2>3. \A x : ~RingHas(v, tl, x)
            BY <1>1, <1>4 DEF RingHas
      <2>4. ASSUME NEW k \in Nat, NEW x, k # tl
            PROVE  RingHas(v, k, x)' <=> RingHas(v, k, x)
            <3>1. CASE pool_head[v] <= k /\ k < tl
                  <4>1. k % QueueLen # p
                        <5>1. k < tl /\ tl < k + QueueLen
                              BY <1>4, <2>4, <3>1
                        <5> QED BY <1>2, <1>4, <5>1, ModApart
                  <4>2. k % QueueLen \in 0 .. QueueLen - 1
                        BY <1>4, <2>4, ModRange
                  <4>3. pool_queue'[v][k % QueueLen] = pool_queue[v][k % QueueLen]
                        BY <1>6, <4>1, <4>2
                  <4>4. k < tl + 1
                        BY <1>4, <3>1
                  <4> QED BY <1>1, <1>3, <1>6, <3>1, <4>3, <4>4 DEF RingHas
            <3>2. CASE ~ (pool_head[v] <= k /\ k < tl)
                  <4>1. ~ (pool_head[v] <= k /\ k < tl + 1)
                        BY <1>4, <2>4, <3>2
                  <4> QED BY <1>1, <1>3, <1>6, <3>2, <4>1 DEF RingHas
            <3> QED BY <3>1, <3>2
      <2>5. \A k, x : k \notin Nat => ~RingHas(v, k, x) /\ ~RingHas(v, k, x)'
            BY DEF RingHas
      <2> QED BY <2>1, <2>2, <2>3, <2>4, <2>5
<1>8. pc'[t] \in {"idle", "run"} /\ \A u \in Threads : u # t => pc'[u] = pc[u] /\ hand'[u] = hand[u]
      <2>1. hand \in [Threads -> Requests]
            BY DEF PoolInv, RingInv, RingTypes
      <2> QED BY <1>3, <2>1, OnlyMoves DEF PoolInv
<1>9. \A a, x : /\ Going(a, x)' <=> Going(a, x) /\ ~ (x = y /\ a = t)
                /\ HandHas(a, x)' <=> HandHas(a, x)
      BY <1>1, <1>3, <1>8, WorkersAreThreads DEF Going, HandHas
<1>10. /\ \A j, x : InList(j, x)' <=> InList(j, x)
       /\ \A u, j, x : InBody(u, j, x)' <=> InBody(u, j, x)
       /\ \A u, j, x : SlotHas(u, j, x)' <=> SlotHas(u, j, x)
       /\ \A u, x : MailHas(u, x)' <=> MailHas(u, x)
      BY <1>3, KindsSame
<1>11. Going(t, y)
      BY <1>1, <1>3 DEF Going
<1>12. Moves(y, "going", t, 0, "ring", v, tl)
      BY <1>3, <1>7, <1>9, <1>10, <1>11 DEF Moves, IsAt
<1>13. HandedOver' \subseteq HandedOver \cup {y}
      <2> SUFFICES ASSUME NEW u \in Workers, NEW i \in DOMAIN accepted'[u]
                   PROVE  accepted'[u][i] \in HandedOver \cup {y}
          BY DEF HandedOver
      <2>1. accepted \in [Workers -> Seq(Tasks)]
            BY DEF PoolInv, RingInv, RingTypes
      <2>2. CASE u # v
            <3>1. accepted'[u] = accepted[u]
                  BY <1>3, <2>1, <2>2
            <3> QED BY <3>1 DEF HandedOver
      <2>3. CASE u = v
            <3>1. PICK s : s = accepted[v]
                  OBVIOUS
            <3>2. s \in Seq(Tasks) /\ accepted'[u] = Append(s, y)
                  BY <1>3, <1>4, <2>1, <2>3, <3>1
            <3>3. (i \in 1 .. Len(s) /\ Append(s, y)[i] = s[i]) \/ Append(s, y)[i] = y
                  BY <1>4, <3>2
            <3>4. \A j \in 1 .. Len(s) : s[j] \in HandedOver
                  BY <1>4, <3>1, <3>2 DEF HandedOver
            <3> QED BY <3>2, <3>3, <3>4
      <2> QED BY <2>2, <2>3
<1>14. HandedOver \cup {y} \subseteq HandedOver'
      <2>1. accepted \in [Workers -> Seq(Tasks)]
            BY DEF PoolInv, RingInv, RingTypes
      <2>2. PICK s : s = accepted[v]
            OBVIOUS
      <2>3. s \in Seq(Tasks) /\ accepted'[v] = Append(s, y)
            BY <1>3, <1>4, <2>1, <2>2
      <2>4. y \in HandedOver'
            <3>1. Len(s) + 1 \in DOMAIN Append(s, y) /\ Append(s, y)[Len(s) + 1] = y
                  BY <1>4, <2>3
            <3> QED BY <1>4, <2>3, <3>1 DEF HandedOver
      <2>5. ASSUME NEW u \in Workers, NEW i \in DOMAIN accepted[u]
            PROVE  accepted[u][i] \in HandedOver'
            <3>1. CASE u # v
                  <4>1. accepted'[u] = accepted[u]
                        BY <1>3, <2>1, <3>1
                  <4> QED BY <4>1 DEF HandedOver
            <3>2. CASE u = v
                  <4>1. i \in DOMAIN Append(s, y) /\ Append(s, y)[i] = accepted[u][i]
                        BY <1>4, <2>2, <2>3, <3>2
                  <4> QED BY <2>3, <3>2, <4>1 DEF HandedOver
            <3> QED BY <3>1, <3>2
      <2> QED BY <2>4, <2>5 DEF HandedOver
<1> QED BY <1>4, <1>12, <1>13, <1>14
-------------------------------------------------------------------------------
(* Who answers a request *)

\* A step that leads nobody to an answer and takes no mailbox from another's.
LEMMA BusyKept ==
    ASSUME PoolInv, BusyHeld, NEW t \in Threads, NEW l, Goto(t, l), l # "donate",
           \A u \in Threads : u # t => at'[u] = at[u],
           \A v \in Workers : coro_handoff[v].state = "BUSY" =>
               \/ coro_handoff'[v].state = "BUSY"
               \/ t \in Workers /\ pc[t] = "donate" /\ v = at[t]
    PROVE  BusyHeld'
<1>1. pc'[t] = l /\ \A u \in Threads : u # t => pc'[u] = pc[u]
      BY OnlyMoves DEF PoolInv
<1>2. \A u \in Workers : pc'[u] = "donate" =>
          u # t /\ u \in Threads /\ pc[u] = "donate" /\ at'[u] = at[u]
      BY <1>1, WorkersAreThreads
<1>3. \A u \in Workers : at[u] \in Workers
      BY WorkersAreThreads DEF PoolInv, RingInv, RingTypes
<1> SUFFICES ASSUME NEW w \in Workers, pc'[w] = "donate"
             PROVE  /\ coro_handoff'[at'[w]].state = "BUSY"
                    /\ \A u \in Workers : pc'[u] = "donate" /\ at'[u] = at'[w] => u = w
    BY DEF BusyHeld
<1>4. w # t /\ pc[w] = "donate" /\ at'[w] = at[w] /\ at[w] \in Workers
      BY <1>2, <1>3
<1>5. coro_handoff[at[w]].state = "BUSY"
      BY <1>4 DEF BusyHeld
<1>6. coro_handoff'[at[w]].state = "BUSY"
      BY <1>4, <1>5 DEF BusyHeld
<1>7. ASSUME NEW u \in Workers, pc'[u] = "donate", at'[u] = at'[w] PROVE u = w
      <2>1. pc[u] = "donate" /\ at[u] = at[w]
            BY <1>2, <1>4, <1>7
      <2> QED BY <1>4, <2>1 DEF BusyHeld
<1> QED BY <1>4, <1>6, <1>7

\* Steps that leave every mailbox as it is.
LEMMA BusyQuiet ==
    ASSUME PoolInv, BusyHeld, NEW t \in Threads,
           \/ /\ t \in Workers
              /\ \/ Drain(t) \/ Look(t) \/ TryLock(t) \/ PopEmpty(t) \/ PopCopy(t) \/ PopAdvance(t)
                 \/ Turn(t) \/ Switch(t) \/ Yield(t) \/ Wait(t) \/ WaitOver(t) \/ Finish(t)
                 \/ GoInside(t)
           \/ t = Main /\ GoMain
           \/ Go(t)
    PROVE  BusyHeld'
<1>1. coro_handoff' = coro_handoff
      BY DEF Drain, Look, TryLock, PopEmpty, PopCopy, PopAdvance, Turn, Switch, Yield, Wait,
             WaitOver, Finish, GoInside, GoMain, Go, GoLock, GoFull, GoPut
<1>2. \A u \in Threads : u # t => at'[u] = at[u]
      <2>1. at' = at \/ \E x : at' = [at EXCEPT ![t] = x]
            BY DEF Drain, Look, TryLock, PopEmpty, PopCopy, PopAdvance, Turn, Switch, Yield, Wait,
                   WaitOver, Finish, GoInside, GoMain, Go, GoLock, GoFull, GoPut,
                   GaveNothing, Further, Pick, Aim
      <2> QED BY <2>1 DEF PoolInv, RingInv, RingTypes
<1>3. \E l : l # "donate" /\ Goto(t, l)
      <2>1. CASE WaitOver(t)
            <3>1. pc[t] = "run" /\ Goto(t, pc[t])
                  BY <2>1 DEF WaitOver, Goto, PoolInv, RingInv, RingTypes
            <3> QED BY <3>1
      <2>2. CASE ~WaitOver(t)
            BY <2>2 DEF Drain, Look, TryLock, PopEmpty, PopCopy, PopAdvance, Turn, Switch, Yield, Wait,
                   Finish, GoInside, GoMain, Go, GoLock, GoFull, GoPut,
                   GaveNothing, Further, Pick, Resume
      <2> QED BY <2>1, <2>2
<1> QED BY <1>1, <1>2, <1>3, BusyKept

\* Steps that change a mailbox: only the one who answers touches a busy one,
\* and nobody begins to answer a request that is being answered.
LEMMA BusyMail ==
    ASSUME PoolInv, BusyHeld, NEW w \in Workers,
           SpawnRequest(w) \/ TakeReady(w) \/ AskForOne(w) \/ Offer(w) \/ Donate(w) \/ NothingToSpare(w)
    PROVE  BusyHeld'
<1>1. /\ w \in Threads /\ at[w] \in Workers /\ at \in [Threads -> Workers]
      /\ coro_handoff \in [Workers -> [state : {"EMPTY", "REQUEST", "BUSY", "READY"},
                                       who : Tasks \cup {None}]]
      BY WorkersAreThreads DEF PoolInv, RingInv, RingTypes, TableInv, TableTypes
<1>2. \A u \in Threads : u # w => at'[u] = at[u]
      <2>1. at' = at \/ \E x : at' = [at EXCEPT ![w] = x]
            BY DEF SpawnRequest, TakeReady, AskForOne, Offer, Donate, NothingToSpare, NextOffer, Aim
      <2> QED BY <1>1, <2>1
<1>3. CASE Offer(w) /\ at[w] # w /\ coro_handoff[at[w]].state = "REQUEST"
      <2>1. /\ coro_handoff' = [coro_handoff EXCEPT ![at[w]].state = "BUSY"]
            /\ Goto(w, "donate") /\ at' = at
            BY <1>3 DEF Offer
      <2>2. pc'[w] = "donate" /\ \A u \in Threads : u # w => pc'[u] = pc[u]
            BY <1>1, <2>1, OnlyMoves DEF PoolInv
      <2>3. /\ coro_handoff'[at[w]].state = "BUSY"
            /\ \A v \in Workers : v # at[w] => coro_handoff'[v] = coro_handoff[v]
            BY <1>1, <2>1
      <2>4. \A u \in Workers : u # w /\ pc'[u] = "donate" =>
                /\ pc[u] = "donate" /\ coro_handoff[at[u]].state = "BUSY" /\ at[u] # at[w]
                /\ at[u] \in Workers
            BY <1>1, <1>3, <2>2, WorkersAreThreads DEF BusyHeld
      <2>5. \A u \in Workers : pc'[u] = "donate" => coro_handoff'[at[u]].state = "BUSY"
            BY <2>3, <2>4
      <2>6. \A u, v \in Workers : pc'[u] = "donate" /\ pc'[v] = "donate" /\ at[u] = at[v] => u = v
            BY <2>4 DEF BusyHeld
      <2> QED BY <2>1, <2>5, <2>6 DEF BusyHeld
<1>4. CASE ~ (Offer(w) /\ at[w] # w /\ coro_handoff[at[w]].state = "REQUEST")
      <2>1. \E l : l # "donate" /\ Goto(w, l)
            <3>1. pc' = pc => Goto(w, pc[w])
                  BY DEF PoolInv, RingInv, RingTypes, Goto
            <3> QED BY <1>4, <3>1 DEF SpawnRequest, TakeReady, AskForOne, Offer, Donate,
                                      NothingToSpare, NextOffer
      <2>2. \A v \in Workers : coro_handoff[v].state = "BUSY" =>
                coro_handoff'[v].state = "BUSY" \/ (pc[w] = "donate" /\ v = at[w])
            <3>1. CASE SpawnRequest(w) \/ AskForOne(w)
                  <4>1. \/ coro_handoff' = coro_handoff
                        \/ /\ coro_handoff[w].state # "BUSY"
                           /\ \E st : coro_handoff' = [coro_handoff EXCEPT ![w].state = st]
                        BY <3>1 DEF SpawnRequest, AskForOne
                  <4> QED BY <1>1, <4>1
            <3>2. CASE TakeReady(w)
                  <4>1. /\ coro_handoff[w].state # "BUSY"
                        /\ coro_handoff' = [coro_handoff EXCEPT ![w] = [state |-> "EMPTY", who |-> None]]
                        BY <3>2 DEF TakeReady
                  <4> QED BY <1>1, <4>1
            <3>3. CASE Donate(w) \/ NothingToSpare(w)
                  <4>1. /\ pc[w] = "donate"
                        /\ \E box : coro_handoff' = [coro_handoff EXCEPT ![at[w]] = box]
                        BY <3>3 DEF Donate, NothingToSpare
                  <4> QED BY <1>1, <4>1
            <3>4. CASE Offer(w)
                  BY <1>4, <3>4 DEF Offer
            <3> QED BY <3>1, <3>2, <3>3, <3>4
      <2> QED BY <1>1, <1>2, <2>1, <2>2, BusyKept
<1> QED BY <1>3, <1>4
-------------------------------------------------------------------------------
(* Together *)

\* Every step, and standing still, keeps each task in one place.
LEMMA PlaceStep == PoolInv /\ PlaceInv /\ [Next]_vars => PlaceInv'
<1> SUFFICES ASSUME PoolInv, Single, Kept, BusyHeld, [Next]_vars PROVE PlaceInv'
    BY DEF PlaceInv
<1>1. ASSUME NEW w \in Workers, Worker(w) PROVE PlaceInv'
      <2>1. CASE Drain(w) \/ Look(w) \/ TryLock(w) \/ PopEmpty(w) \/ PopCopy(w) \/ Turn(w)
            <3>1. Single' /\ Kept'
                  BY <2>1, LookStays, StepStays
            <3>2. BusyHeld'
                  BY <2>1, BusyQuiet, WorkersAreThreads
            <3> QED BY <3>1, <3>2 DEF PlaceInv
      <2>2. CASE PopAdvance(w)
            <3>1. /\ Moves(hand[w], "ring", at[w], pool_head[at[w]], "hand", w, 0)
                  /\ hand[w] \in Tasks /\ HandedOver' = HandedOver /\ "hand" \in AfterGo
                  BY <2>2, AdvanceMoves DEF AfterGo
            <3>2. Single' /\ Kept'
                  BY <3>1, StepMoves
            <3>3. BusyHeld'
                  BY <2>2, BusyQuiet, WorkersAreThreads
            <3> QED BY <3>2, <3>3 DEF PlaceInv
      <2>3. CASE SpawnRequest(w) \/ TakeReady(w)
            <3>1. \E y \in Tasks : \E k0 : \E k \in AfterGo : \E a, b :
                     Moves(y, k0, w, 0, k, a, b) /\ HandedOver' = HandedOver
                  <4>1. CASE SpawnRequest(w)
                        BY <4>1, SpawnMoves DEF AfterGo
                  <4>2. CASE TakeReady(w)
                        BY <4>2, TakeMoves DEF AfterGo
                  <4> QED BY <2>3, <4>1, <4>2
            <3>2. Single' /\ Kept'
                  BY <3>1, StepMoves
            <3>3. BusyHeld'
                  BY <2>3, BusyMail
            <3> QED BY <3>2, <3>3 DEF PlaceInv
      <2>4. CASE AskForOne(w) \/ Offer(w) \/ NothingToSpare(w)
            <3>1. Single' /\ Kept'
                  BY <2>4, MailStays, StepStays
            <3>2. BusyHeld'
                  BY <2>4, BusyMail
            <3> QED BY <3>1, <3>2 DEF PlaceInv
      <2>5. CASE Donate(w)
            <3>1. PICK y \in Tasks : \E i :
                     Moves(y, "slot", w, i, "mail", at[w], 0) /\ HandedOver' = HandedOver
                  BY <2>5, DonateMoves
            <3>2. "mail" \in AfterGo
                  BY DEF AfterGo
            <3>3. Single' /\ Kept'
                  BY <3>1, <3>2, StepMoves
            <3>4. BusyHeld'
                  BY <2>5, BusyMail
            <3> QED BY <3>3, <3>4 DEF PlaceInv
      <2>6. CASE Switch(w) \/ Yield(w) \/ Wait(w) \/ WaitOver(w)
            <3>1. Single' /\ Kept'
                  BY <2>6, RunStays, StepStays
            <3>2. BusyHeld'
                  BY <2>6, BusyQuiet, WorkersAreThreads
            <3> QED BY <3>1, <3>2 DEF PlaceInv
      <2>7. CASE Finish(w)
            <3>1. PICK y \in Tasks : \E i :
                     Moves(y, "slot", w, i, "ended", 0, 0) /\ HandedOver' = HandedOver
                  BY <2>7, FinishMoves
            <3>2. "ended" \in AfterGo
                  BY DEF AfterGo
            <3>3. Single' /\ Kept'
                  BY <3>1, <3>2, StepMoves
            <3>4. BusyHeld'
                  BY <2>7, BusyQuiet, WorkersAreThreads
            <3> QED BY <3>3, <3>4 DEF PlaceInv
      <2>8. CASE GoInside(w)
            <3>1. PICK y \in Tasks : \E u, i :
                     Moves(y, "body", u, i, "going", w, 0) /\ HandedOver' = HandedOver
                  BY <2>8, GoInsideMoves
            <3>2. Single' /\ Kept'
                  BY <3>1, StepMoves
            <3>3. BusyHeld'
                  BY <2>8, BusyQuiet, WorkersAreThreads
            <3> QED BY <3>2, <3>3 DEF PlaceInv
      <2> QED BY <1>1, <2>1, <2>2, <2>3, <2>4, <2>5, <2>6, <2>7, <2>8 DEF Worker
<1>2. CASE GoMain
      <2>1. PICK y \in Tasks : \E i :
               Moves(y, "list", i, 0, "going", Main, 0) /\ HandedOver' = HandedOver
            BY <1>2, GoMainMoves
      <2>2. Single' /\ Kept'
            BY <2>1, StepMoves
      <2>3. BusyHeld'
            BY <1>2, BusyQuiet, WorkersAreThreads
      <2> QED BY <2>2, <2>3 DEF PlaceInv
<1>3. ASSUME NEW t \in Threads, Go(t) PROVE PlaceInv'
      <2>1. ASSUME GoLock(t) \/ GoFull(t) PROVE Single' /\ Kept'
            BY <2>1, LockStays, StepStays
      <2>2. ASSUME GoPut(t) PROVE Single' /\ Kept'
            <3>1. PICK y \in Tasks : \E v, k :
                     /\ Moves(y, "going", t, 0, "ring", v, k)
                     /\ HandedOver' = HandedOver \cup {y}
                  BY <2>2, PutMoves
            <3>2. "ring" \in AfterGo
                  BY DEF AfterGo
            <3> QED BY <3>1, <3>2, StepMoves
      <2>3. BusyHeld'
            BY <1>3, BusyQuiet
      <2>4. Single' /\ Kept'
            BY <1>3, <2>1, <2>2 DEF Go
      <2> QED BY <2>3, <2>4 DEF PlaceInv
<1>4. CASE UNCHANGED vars
      <2>1. UNCHANGED <<coros, pool_queue, pool_head, pool_tail, accepted, coro_handoff, pc, at, hand,
                        done_at, listed, ended, refused>>
            BY <1>4 DEF vars, ring
      <2>2. \A a, x : (Going(a, x)' <=> Going(a, x)) /\ (HandHas(a, x)' <=> HandHas(a, x))
            BY <2>1 DEF Going, HandHas
      <2>3. Stay /\ HandedOver' = HandedOver
            BY <2>1, <2>2, KindsSame, AllStay
      <2>4. Single' /\ Kept'
            BY <2>3, StepStays
      <2>5. BusyHeld'
            BY <2>1 DEF BusyHeld
      <2> QED BY <2>4, <2>5 DEF PlaceInv
<1> QED BY <1>1, <1>2, <1>3, <1>4 DEF Next

\* What the sets of the property hold of a task.
LEMMA Holdings ==
    ASSUME PoolInv, NEW t \in Tasks
    PROVE  /\ \A e : e \in Waiting(t) <=> \E a, b : RingHas(a, b, t) /\ e = <<"ring", a>>
           /\ \A e : e \in Held(t) <=> \E a : HandHas(a, t) /\ e = <<"hand", a>>
           /\ \A e : e \in Slotted(t) <=> \E a, b : SlotHas(a, b, t) /\ e = <<"slot", a, b>>
           /\ \A e : e \in Mailed(t) <=> \E a : MailHas(a, t) /\ e = <<"mail", a>>
           /\ \A e : e \in Over(t) <=>
                  (t \in ended /\ e = <<"ended">>) \/ (t \in refused /\ e = <<"refused">>)
<1>1. ASSUME NEW v \in Workers
      PROVE  (\E i \in DOMAIN InRing(v) : InRing(v)[i] = t) <=> \E b : RingHas(v, b, t)
      <2>1. PICK h, tl : h = pool_head[v] /\ tl = pool_tail[v]
            OBVIOUS
      <2>2. h \in Nat /\ tl \in Nat
            BY <2>1 DEF PoolInv, RingInv, RingTypes
      <2>3. PICK q : q = pool_queue[v]
            OBVIOUS
      <2>4. InRing(v) = [i \in 1 .. tl - h |-> q[(h + i - 1) % QueueLen]]
            BY <2>1, <2>3 DEF InRing
      <2>5. ASSUME NEW i \in DOMAIN InRing(v), InRing(v)[i] = t PROVE \E b : RingHas(v, b, t)
            <3>1. PICK b : b = h + i - 1
                  OBVIOUS
            <3>2. i \in 1 .. tl - h /\ q[b % QueueLen] = t
                  BY <2>4, <2>5, <3>1
            <3>3. b \in Nat /\ h <= b /\ b < tl
                  BY <2>2, <3>1, <3>2
            <3>4. RingHas(v, b, t)
                  BY <2>1, <2>3, <3>2, <3>3 DEF RingHas
            <3> QED BY <3>4
      <2>6. ASSUME NEW b, RingHas(v, b, t) PROVE \E i \in DOMAIN InRing(v) : InRing(v)[i] = t
            <3>1. b \in Nat /\ h <= b /\ b < tl /\ q[b % QueueLen] = t
                  BY <2>1, <2>3, <2>6 DEF RingHas
            <3>2. PICK i : i = b - h + 1
                  OBVIOUS
            <3>3. i \in 1 .. tl - h /\ h + i - 1 = b
                  BY <2>2, <3>1, <3>2
            <3> QED BY <2>4, <3>1, <3>3
      <2> QED BY <2>5, <2>6
<1>2. \A e : e \in Waiting(t) <=> \E a, b : RingHas(a, b, t) /\ e = <<"ring", a>>
      <2>1. \A a, b : RingHas(a, b, t) => a \in Workers
            BY DEF RingHas
      <2> QED BY <1>1, <2>1 DEF Waiting
<1>3. \A e : e \in Held(t) <=> \E a : HandHas(a, t) /\ e = <<"hand", a>>
      BY DEF Held, HandHas
<1>4. \A e : e \in Slotted(t) <=> \E a, b : SlotHas(a, b, t) /\ e = <<"slot", a, b>>
      <2>1. \A a, b : SlotHas(a, b, t) => b \in 1 .. Slots
            <3> SUFFICES ASSUME NEW a, NEW b, SlotHas(a, b, t) PROVE b \in 1 .. Slots
                OBVIOUS
            <3>1. a \in Workers /\ b \in DOMAIN coros[a]
                  BY DEF SlotHas, Live
            <3>2. coros[a] \in Seq(SlotType(Tasks)) /\ Len(coros[a]) < Slots /\ Slots \in Nat
                  BY <3>1, PoolAssumption DEF PoolAssumption, PoolInv, TableInv, TableTypes
            <3> QED BY <3>1, <3>2
      <2>2. ASSUME NEW e \in Slotted(t) PROVE \E a, b : SlotHas(a, b, t) /\ e = <<"slot", a, b>>
            <3>1. PICK wi \in Workers \X (1 .. Slots) :
                     /\ wi[2] \in Live(coros[wi[1]]) /\ coros[wi[1]][wi[2]].who = t
                     /\ e = <<"slot", wi[1], wi[2]>>
                  BY <2>2 DEF Slotted
            <3> QED BY <3>1 DEF SlotHas
      <2>3. ASSUME NEW a, NEW b, SlotHas(a, b, t) PROVE <<"slot", a, b>> \in Slotted(t)
            <3>1. PICK wi : wi = <<a, b>>
                  OBVIOUS
            <3>2. wi \in Workers \X (1 .. Slots) /\ wi[1] = a /\ wi[2] = b
                  BY <2>1, <2>3, <3>1 DEF SlotHas
            <3>3. wi[2] \in Live(coros[wi[1]]) /\ coros[wi[1]][wi[2]].who = t
                  BY <2>3, <3>2 DEF SlotHas
            <3> QED BY <3>2, <3>3 DEF Slotted
      <2> QED BY <2>2, <2>3
<1>5. \A e : e \in Mailed(t) <=> \E a : MailHas(a, t) /\ e = <<"mail", a>>
      BY DEF Mailed, MailHas
<1>6. \A e : e \in Over(t) <=>
          (t \in ended /\ e = <<"ended">>) \/ (t \in refused /\ e = <<"refused">>)
      BY DEF Over
<1> QED BY <1>2, <1>3, <1>4, <1>5, <1>6

\* One place, as the property counts them.
LEMMA PlaceCounts == PoolInv /\ PlaceInv => OnePlace
<1> SUFFICES ASSUME PoolInv, Single, Kept, NEW t \in HandedOver
             PROVE  Cardinality(Waiting(t) \cup Held(t) \cup Slotted(t) \cup Mailed(t) \cup Over(t)) = 1
    BY DEF PlaceInv, OnePlace
<1>1. t \in Tasks
      BY HandedAreTasks
<1>2. PICK places : places = Waiting(t) \cup Held(t) \cup Slotted(t) \cup Mailed(t) \cup Over(t)
      OBVIOUS
<1> DEFINE Short(k, a, b) == IF k = "slot" THEN <<"slot", a, b>>
                             ELSE IF k \in {"ended", "refused"} THEN <<k>> ELSE <<k, a>>
<1>3. ASSUME NEW e \in places
      PROVE  \E k, a, b : IsAt(k, a, b, t) /\ e = Short(k, a, b)
      <2>1. CASE e \in Waiting(t)
            <3>1. PICK a, b : RingHas(a, b, t) /\ e = <<"ring", a>>
                  BY <1>1, <2>1, Holdings
            <3>2. IsAt("ring", a, b, t) /\ e = Short("ring", a, b)
                  BY <3>1 DEF IsAt
            <3> QED BY <3>2
      <2>2. CASE e \in Held(t)
            <3>1. PICK a : HandHas(a, t) /\ e = <<"hand", a>>
                  BY <1>1, <2>2, Holdings
            <3>2. IsAt("hand", a, 0, t) /\ e = Short("hand", a, 0)
                  BY <3>1 DEF IsAt
            <3> QED BY <3>2
      <2>3. CASE e \in Slotted(t)
            <3>1. PICK a, b : SlotHas(a, b, t) /\ e = <<"slot", a, b>>
                  BY <1>1, <2>3, Holdings
            <3>2. IsAt("slot", a, b, t) /\ e = Short("slot", a, b)
                  BY <3>1 DEF IsAt
            <3> QED BY <3>2
      <2>4. CASE e \in Mailed(t)
            <3>1. PICK a : MailHas(a, t) /\ e = <<"mail", a>>
                  BY <1>1, <2>4, Holdings
            <3>2. IsAt("mail", a, 0, t) /\ e = Short("mail", a, 0)
                  BY <3>1 DEF IsAt
            <3> QED BY <3>2
      <2>5. CASE e \in Over(t)
            <3>1. CASE t \in ended /\ e = <<"ended">>
                  <4>1. IsAt("ended", 0, 0, t) /\ e = Short("ended", 0, 0)
                        BY <3>1 DEF IsAt
                  <4> QED BY <4>1
            <3>2. CASE t \in refused /\ e = <<"refused">>
                  <4>1. IsAt("refused", 0, 0, t) /\ e = Short("refused", 0, 0)
                        BY <3>2 DEF IsAt
                  <4> QED BY <4>1
            <3> QED BY <1>1, <2>5, <3>1, <3>2, Holdings
      <2> QED BY <1>2, <1>3, <2>1, <2>2, <2>3, <2>4, <2>5
<1>4. PICK k, a, b : k \in AfterGo /\ IsAt(k, a, b, t)
      BY DEF Kept
<1>5. \A e \in places : e = Short(k, a, b)
      <2> HIDE DEF Short
      <2> SUFFICES ASSUME NEW e \in places PROVE e = Short(k, a, b)
          OBVIOUS
      <2>1. PICK l, c, d : IsAt(l, c, d, t) /\ e = Short(l, c, d)
            BY <1>3
      <2>2. l = k /\ c = a /\ d = b
            BY <1>1, <1>4, <2>1 DEF Single
      <2> QED BY <2>1, <2>2
<1>6. places # {}
      <2>1. CASE k = "ring"
            <3>1. RingHas(a, b, t)
                  BY <1>4, <2>1 DEF IsAt
            <3>2. <<"ring", a>> \in Waiting(t)
                  BY <1>1, <3>1, Holdings
            <3> QED BY <1>2, <3>2
      <2>2. CASE k = "hand"
            <3>1. HandHas(a, t)
                  BY <1>4, <2>2 DEF IsAt
            <3>2. <<"hand", a>> \in Held(t)
                  BY <1>1, <3>1, Holdings
            <3> QED BY <1>2, <3>2
      <2>3. CASE k = "slot"
            <3>1. SlotHas(a, b, t)
                  BY <1>4, <2>3 DEF IsAt
            <3>2. <<"slot", a, b>> \in Slotted(t)
                  BY <1>1, <3>1, Holdings
            <3> QED BY <1>2, <3>2
      <2>4. CASE k = "mail"
            <3>1. MailHas(a, t)
                  BY <1>4, <2>4 DEF IsAt
            <3>2. <<"mail", a>> \in Mailed(t)
                  BY <1>1, <3>1, Holdings
            <3> QED BY <1>2, <3>2
      <2>5. CASE k \in {"ended", "refused"}
            <3>1. t \in ended \/ t \in refused
                  BY <1>4, <2>5 DEF IsAt
            <3>2. \E e : e \in Over(t)
                  BY <1>1, <3>1, Holdings
            <3> QED BY <1>2, <3>2
      <2> QED BY <1>4, <2>1, <2>2, <2>3, <2>4, <2>5 DEF AfterGo
<1>7. places = {Short(k, a, b)}
      <2> HIDE DEF Short
      <2> QED BY <1>5, <1>6
<1>8. Cardinality(places) = 1
      <2> HIDE DEF Short
      <2> QED BY <1>7, FS_Singleton
<1> QED BY <1>2, <1>8

\* A task that go() accepted is in exactly one place at a time: a ring, a
\* popper's hand, one live slot of one worker, a mailbox, or over.  No steal,
\* no donation and no reuse of a slot loses it or runs it on two stacks
\* (pool_pop, coro_offer, coro_take_handoff, coro_import, coro_spawn).
THEOREM PoolOnePlace == Spec => []OnePlace
<1>1. Init => PlaceInv
      BY PlaceInit
<1>2. PoolInv /\ PoolInv' /\ PlaceInv /\ [Next]_vars => PlaceInv'
      BY PlaceStep
<1>3. PoolInv /\ PlaceInv => OnePlace
      BY PlaceCounts
<1> QED BY <1>1, <1>2, <1>3, PoolInvariant, PTL DEF Spec
-------------------------------------------------------------------------------
(* The promise *)

\* What go() accepted is what is in a place after go(), and go() is called
\* only with what main's list or a step already done names.
Accounted ==
    \A x \in Tasks : \A k, a, b : IsAt(k, a, b, x) =>
        /\ k \in AfterGo => x \in HandedOver
        /\ k = "going" => Abs!Called(x)

\* The set of those alive, in terms of places.
Alright == \A x \in Tasks : x \in Alive <=> \E k \in {"slot", "mail"} : \E a, b : IsAt(k, a, b, x)

\* What the proof of the promise knows of a state.
Facts == TypeOK /\ PlaceInv /\ Accounted /\ Alright

LEMMA AliveIsThere == PoolInv => Alright
<1> SUFFICES ASSUME PoolInv, NEW x \in Tasks
             PROVE  x \in Alive <=> \E k \in {"slot", "mail"} : \E a, b : IsAt(k, a, b, x)
    BY DEF Alright
<1>1. x \in Alive <=> \E e : e \in Slotted(x) \/ e \in Mailed(x)
      BY DEF Alive
<1>2. (\E e : e \in Slotted(x)) <=> \E a, b : SlotHas(a, b, x)
      <2>1. \A e : e \in Slotted(x) <=> \E a, b : SlotHas(a, b, x) /\ e = <<"slot", a, b>>
            BY Holdings
      <2>2. \A a, b : SlotHas(a, b, x) => <<"slot", a, b>> \in Slotted(x)
            BY <2>1
      <2> QED BY <2>1, <2>2
<1>3. (\E e : e \in Mailed(x)) <=> \E a : MailHas(a, x)
      BY Holdings
<1>4. (\E k \in {"slot", "mail"} : \E a, b : IsAt(k, a, b, x))
          <=> (\E a, b : SlotHas(a, b, x)) \/ (\E a : MailHas(a, x))
      BY DEF IsAt
<1> QED BY <1>1, <1>2, <1>3, <1>4

\* What is called for stays so: bodies only go on.
LEMMA CalledStays ==
    ASSUME PoolInv, done_at' = done_at \/ \E w \in Workers : pc[w] = "run" /\ Done(w),
           NEW x, Abs!Called(x)
    PROVE  Abs!Called(x)'
<1>1. \A u \in Tasks : done_at[u] \in Nat /\ done_at'[u] \in Nat /\ done_at[u] <= done_at'[u]
      <2>1. done_at \in [Tasks -> Nat]
            BY DEF PoolInv, TableInv, TableTypes
      <2>2. CASE done_at' = done_at
            BY <2>1, <2>2
      <2>3. ASSUME NEW w \in Workers, pc[w] = "run", Done(w)
            PROVE  \A u \in Tasks : done_at'[u] \in Nat /\ done_at[u] <= done_at'[u]
            <3>1. PICK r \in Tasks : r = Running(w)
                  BY <2>3, RunningIsTask
            <3>2. done_at' = [done_at EXCEPT ![r] = done_at[r] + 1]
                  BY <2>3, <3>1 DEF Done
            <3> QED BY <2>1, <3>2
      <2> QED BY <2>1, <2>2, <2>3
<1>2. CASE \E i \in 1 .. Len(GoList) : GoList[i] = x
      BY <1>2 DEF Abs!Called
<1>3. ASSUME NEW u \in Tasks, NEW i \in 1 .. Len(Body[u]), i <= done_at[u], Body[u][i] = <<"go", x>>
      PROVE  Abs!Called(x)'
      <2>1. Body[u] \in Seq({<<"yield">>} \cup ({"go", "wait"} \X Tasks))
            BY PoolAssumption DEF PoolAssumption
      <2>2. i \in Nat
            BY <2>1
      <2>3. i <= done_at'[u]
            BY <1>1, <1>3, <2>2
      <2> QED BY <1>3, <2>3 DEF Abs!Called
<1> QED BY <1>2, <1>3 DEF Abs!Called

\* Nobody moves: the accounts stay, and so do those alive.
LEMMA StayAccounted ==
    ASSUME PoolInv, Accounted, Stay, HandedOver' = HandedOver,
           done_at' = done_at \/ \E w \in Workers : pc[w] = "run" /\ Done(w)
    PROVE  Accounted'
<1>1. \A x : Abs!Called(x) => Abs!Called(x)'
      BY CalledStays
<1> QED BY <1>1 DEF Accounted, Stay

LEMMA StayAlive ==
    ASSUME Alright, Alright', Stay
    PROVE  Alive' = Alive
<1>1. \A x \in Tasks : x \in Alive' <=> x \in Alive
      BY DEF Alright, Stay
<1>2. Alive \subseteq Tasks /\ Alive' \subseteq Tasks
      BY DEF Alive
<1> QED BY <1>1, <1>2

\* One task moves.
LEMMA MoveAccounted ==
    ASSUME PoolInv, Accounted, NEW y \in Tasks,
           NEW k0, NEW a0, NEW b0, NEW k1, NEW a1, NEW b1,
           Moves(y, k0, a0, b0, k1, a1, b1),
           done_at' = done_at \/ \E w \in Workers : pc[w] = "run" /\ Done(w),
           HandedOver \subseteq HandedOver',
           k1 \in AfterGo => k0 \in AfterGo \/ y \in HandedOver',
           k1 = "going" => Abs!Called(y)'
    PROVE  Accounted'
<1>1. \A x : Abs!Called(x) => Abs!Called(x)'
      BY CalledStays
<1>2. ASSUME NEW x \in Tasks, NEW k, NEW a, NEW b, IsAt(k, a, b, x)'
      PROVE  /\ k \in AfterGo => x \in HandedOver'
             /\ k = "going" => Abs!Called(x)'
      <2>1. IsAt(k, a, b, x) \/ (x = y /\ k = k1)
            BY <1>2 DEF Moves
      <2>2. CASE IsAt(k, a, b, x)
            <3>1. (k \in AfterGo => x \in HandedOver) /\ (k = "going" => Abs!Called(x))
                  BY <2>2 DEF Accounted
            <3> QED BY <1>1, <3>1
      <2>3. CASE x = y /\ k = k1
            <3>1. k0 \in AfterGo => y \in HandedOver
                  BY DEF Moves, Accounted
            <3> QED BY <2>3, <3>1
      <2> QED BY <2>1, <2>2, <2>3
<1> QED BY <1>2 DEF Accounted

\* Where a task is says what it is.
LEMMA PlaceSays ==
    ASSUME Facts, NEW y \in Tasks, NEW k, NEW a, NEW b, IsAt(k, a, b, y)
    PROVE  /\ y \in Alive <=> k \in {"slot", "mail"}
           /\ y \in ended <=> k = "ended"
           /\ y \in refused <=> k = "refused"
           /\ y \in HandedOver <=> k \in AfterGo
           /\ k = "going" => Abs!Called(y)
<1>1. \A l, c, d : IsAt(l, c, d, y) => l = k
      BY DEF Facts, PlaceInv, Single
<1>2. y \in Alive <=> k \in {"slot", "mail"}
      BY <1>1 DEF Facts, Alright
<1>3. y \in ended <=> k = "ended"
      <2>1. y \in ended => IsAt("ended", 0, 0, y)
            BY DEF IsAt
      <2>2. k = "ended" => y \in ended
            BY DEF IsAt
      <2> QED BY <1>1, <2>1, <2>2
<1>4. y \in refused <=> k = "refused"
      <2>1. y \in refused => IsAt("refused", 0, 0, y)
            BY DEF IsAt
      <2>2. k = "refused" => y \in refused
            BY DEF IsAt
      <2> QED BY <1>1, <2>1, <2>2
<1>5. y \in HandedOver => k \in AfterGo
      <2>1. y \in HandedOver => \E l \in AfterGo : \E c, d : IsAt(l, c, d, y)
            BY DEF Facts, PlaceInv, Kept
      <2> QED BY <1>1, <2>1
<1>6. (k \in AfterGo => y \in HandedOver) /\ (k = "going" => Abs!Called(y))
      BY DEF Facts, Accounted
<1> QED BY <1>2, <1>3, <1>4, <1>5, <1>6

\* A move changes what the promise sees of the one who moves, and of nobody else.
LEMMA MoveSays ==
    ASSUME Facts, Facts', NEW y \in Tasks,
           NEW k0, NEW a0, NEW b0, NEW k1, NEW a1, NEW b1,
           Moves(y, k0, a0, b0, k1, a1, b1)
    PROVE  /\ Alive' = IF k1 \in {"slot", "mail"} THEN Alive \cup {y} ELSE Alive \ {y}
           /\ ended' = IF k1 = "ended" THEN ended \cup {y} ELSE ended \ {y}
           /\ refused' = IF k1 = "refused" THEN refused \cup {y} ELSE refused \ {y}
<1>1. \A x \in Tasks : \A k, a, b : IsAt(k, a, b, x)' <=>
          \/ IsAt(k, a, b, x) /\ ~ (x = y /\ k = k0 /\ a = a0 /\ b = b0)
          \/ x = y /\ k = k1 /\ a = a1 /\ b = b1
      BY DEF Moves
<1>2. IsAt(k1, a1, b1, y)'
      BY <1>1
<1>3. \A l, c, d : IsAt(l, c, d, y)' => l = k1
      BY <1>2 DEF Facts, PlaceInv, Single
<1>4. \A x \in Tasks : x # y => \A k, a, b : IsAt(k, a, b, x)' <=> IsAt(k, a, b, x)
      BY <1>1
<1>5. /\ Alive \subseteq Tasks /\ Alive' \subseteq Tasks
      /\ ended \subseteq Tasks /\ ended' \subseteq Tasks
      /\ refused \subseteq Tasks /\ refused' \subseteq Tasks
      BY DEF Alive, Facts, TypeOK
<1>6. /\ y \in Alive' <=> k1 \in {"slot", "mail"}
      /\ \A x \in Tasks : x # y => (x \in Alive' <=> x \in Alive)
      BY <1>2, <1>3, <1>4 DEF Facts, Alright
<1>7. \A x : (IsAt("ended", 0, 0, x) <=> x \in ended) /\ (IsAt("ended", 0, 0, x)' <=> x \in ended')
      BY DEF IsAt
<1>8. \A x : (IsAt("refused", 0, 0, x) <=> x \in refused) /\ (IsAt("refused", 0, 0, x)' <=> x \in refused')
      BY DEF IsAt
<1>9. (k1 = "ended" => y \in ended') /\ (k1 = "refused" => y \in refused')
      BY <1>2 DEF IsAt
<1>10. /\ y \in ended' <=> k1 = "ended"
       /\ \A x \in Tasks : x # y => (x \in ended' <=> x \in ended)
       BY <1>3, <1>4, <1>7, <1>9
<1>11. /\ y \in refused' <=> k1 = "refused"
       /\ \A x \in Tasks : x # y => (x \in refused' <=> x \in refused)
       BY <1>3, <1>4, <1>8, <1>9
<1> QED BY <1>5, <1>6, <1>10, <1>11

\* Nothing that the promise is about happens.
Still == UNCHANGED <<HandedOver, Alive, ended, refused, done_at>>

\* The worker looks for work, or answers a request with nothing.
LEMMA LookPromised ==
    ASSUME PoolInv, Facts, Alright', NEW w \in Workers,
           \/ Drain(w) \/ Look(w) \/ TryLock(w) \/ PopEmpty(w) \/ PopCopy(w) \/ Turn(w)
           \/ AskForOne(w) \/ Offer(w) \/ NothingToSpare(w) \/ Switch(w) \/ Wait(w)
    PROVE  Accounted' /\ Still
<1>1. Stay /\ HandedOver' = HandedOver
      BY LookStays, MailStays, RunStays DEF Facts, PlaceInv
<1>2. UNCHANGED <<ended, refused, done_at>>
      BY DEF Drain, Look, TryLock, PopEmpty, PopCopy, Turn, AskForOne, Offer, NothingToSpare, Switch, Wait
<1> QED BY <1>1, <1>2, StayAccounted, StayAlive DEF Facts, Still

\* go() waits, or finds its ring full.
LEMMA LockPromised ==
    ASSUME PoolInv, Facts, Alright', NEW t \in Threads, GoLock(t) \/ GoFull(t)
    PROVE  Accounted' /\ Still
<1>1. Stay /\ HandedOver' = HandedOver
      BY LockStays
<1>2. UNCHANGED <<ended, refused, done_at>>
      BY DEF GoLock, GoFull
<1> QED BY <1>1, <1>2, StayAccounted, StayAlive DEF Facts, Still

\* The accounts after a step in which one task moves.
LEMMA MovesAccounted ==
    ASSUME PoolInv, Facts
    PROVE  /\ \A w \in Workers : PopAdvance(w) \/ SpawnRequest(w) \/ TakeReady(w) \/ Donate(w) \/ Finish(w)
                  => Accounted'
           /\ GoMain => Accounted'
           /\ \A w \in Workers : GoInside(w) => Accounted'
           /\ \A t \in Threads : GoPut(t) => Accounted'
<1>0. Accounted /\ BusyHeld
      BY DEF Facts, PlaceInv
<1>1. ASSUME NEW w \in Workers, PopAdvance(w) \/ SpawnRequest(w) \/ TakeReady(w) \/ Donate(w) \/ Finish(w)
      PROVE  Accounted'
      <2>1. PICK y \in Tasks : \E k0 \in AfterGo : \E a0, b0 : \E k1 \in AfterGo : \E a1, b1 :
                Moves(y, k0, a0, b0, k1, a1, b1) /\ HandedOver' = HandedOver
            <3>1. CASE PopAdvance(w)
                  BY <3>1, AdvanceMoves DEF AfterGo
            <3>2. CASE SpawnRequest(w)
                  BY <3>2, SpawnMoves DEF AfterGo
            <3>3. CASE TakeReady(w)
                  BY <3>3, TakeMoves DEF AfterGo
            <3>4. CASE Donate(w)
                  BY <1>0, <3>4, DonateMoves DEF AfterGo
            <3>5. CASE Finish(w)
                  BY <3>5, FinishMoves DEF AfterGo
            <3> QED BY <1>1, <3>1, <3>2, <3>3, <3>4, <3>5
      <2>2. PICK k0, a0, b0, k1, a1, b1 :
                k0 \in AfterGo /\ Moves(y, k0, a0, b0, k1, a1, b1) /\ HandedOver' = HandedOver
                /\ k1 \in AfterGo
            BY <2>1
      <2>3. k1 # "going" /\ done_at' = done_at
            BY <1>1, <2>2 DEF AfterGo, PopAdvance, SpawnRequest, TakeReady, Donate, Finish
      <2> QED BY <1>0, <2>2, <2>3, MoveAccounted
<1>2. ASSUME GoMain PROVE Accounted'
      <2>1. PICK y \in Tasks : \E i :
                Moves(y, "list", i, 0, "going", Main, 0) /\ HandedOver' = HandedOver
            BY <1>2, GoMainMoves
      <2>2. PICK i : Moves(y, "list", i, 0, "going", Main, 0) /\ HandedOver' = HandedOver
            BY <2>1
      <2>3. InList(i, y)
            BY <2>2 DEF Moves, IsAt
      <2>4. Abs!Called(y)'
            BY <2>3 DEF InList, Abs!Called
      <2>5. done_at' = done_at /\ "going" \notin AfterGo
            BY <1>2 DEF GoMain, AfterGo
      <2> QED BY <1>0, <2>2, <2>4, <2>5, MoveAccounted
<1>3. ASSUME NEW w \in Workers, GoInside(w) PROVE Accounted'
      <2>1. PICK y \in Tasks : \E u, i :
                Moves(y, "body", u, i, "going", w, 0) /\ HandedOver' = HandedOver
            BY <1>3, GoInsideMoves
      <2>2. PICK u, i : Moves(y, "body", u, i, "going", w, 0) /\ HandedOver' = HandedOver
            BY <2>1
      <2>3. IsAt("body", u, i, y) /\ ~IsAt("body", u, i, y)'
            BY <2>2 DEF Moves
      <2>4. InBody(u, i, y) /\ ~InBody(u, i, y)'
            BY <2>3 DEF IsAt
      <2>5. u \in Tasks /\ i \in 1 .. Len(Body[u]) /\ Body[u][i] = <<"go", y>> /\ ~ (i > done_at'[u])
            BY <2>4 DEF InBody
      <2>6. pc[w] = "run" /\ Done(w)
            BY <1>3 DEF GoInside
      <2>7. i <= done_at'[u]
            <3>1. Body[u] \in Seq({<<"yield">>} \cup ({"go", "wait"} \X Tasks))
                  BY <2>5, PoolAssumption DEF PoolAssumption
            <3>2. i \in Nat
                  BY <2>5, <3>1
            <3>3. done_at'[u] \in Nat
                  <4>1. done_at \in [Tasks -> Nat] /\ Running(w) \in Tasks
                        BY <2>6, RunningIsTask DEF PoolInv, TableInv, TableTypes
                  <4> QED BY <2>5, <2>6, <4>1 DEF Done
            <3> QED BY <2>5, <3>2, <3>3
      <2>8. Abs!Called(y)'
            BY <2>5, <2>7 DEF Abs!Called
      <2>9. "going" \notin AfterGo
            BY DEF AfterGo
      <2> QED BY <1>0, <2>2, <2>6, <2>8, <2>9, MoveAccounted
<1>4. ASSUME NEW t \in Threads, GoPut(t) PROVE Accounted'
      <2>1. PICK y \in Tasks : \E v, k :
                Moves(y, "going", t, 0, "ring", v, k) /\ HandedOver' = HandedOver \cup {y}
            BY <1>4, PutMoves
      <2>2. PICK v, k : Moves(y, "going", t, 0, "ring", v, k) /\ HandedOver' = HandedOver \cup {y}
            BY <2>1
      <2>3. done_at' = done_at /\ y \in HandedOver' /\ HandedOver \subseteq HandedOver'
            BY <1>4, <2>2 DEF GoPut
      <2> QED BY <1>0, <2>2, <2>3, MoveAccounted
<1> QED BY <1>1, <1>2, <1>3, <1>4

\* A request out of a ring, or a context from the mailbox: it begins, goes on,
\* or is dropped.
LEMMA SlotPromised ==
    ASSUME PoolInv, Facts, Facts', NEW w \in Workers, SpawnRequest(w) \/ TakeReady(w)
    PROVE  Still \/ \E y \in Tasks : Abs!Begin(y) \/ Abs!Drop(y)
<1>1. PICK y \in Tasks : \E k0 \in {"hand", "mail"} : \E k1 \in {"slot", "refused"} : \E a, b :
          Moves(y, k0, w, 0, k1, a, b) /\ HandedOver' = HandedOver
      <2>1. CASE SpawnRequest(w)
            BY <2>1, SpawnMoves
      <2>2. CASE TakeReady(w)
            BY <2>2, TakeMoves
      <2> QED BY <2>1, <2>2
<1>2. PICK k0, k1, a, b : /\ k0 \in {"hand", "mail"} /\ k1 \in {"slot", "refused"}
                          /\ Moves(y, k0, w, 0, k1, a, b) /\ HandedOver' = HandedOver
      BY <1>1
<1>3. done_at' = done_at
      BY DEF SpawnRequest, TakeReady
<1>4. IsAt(k0, w, 0, y)
      BY <1>2 DEF Moves
<1>5. /\ y \in Alive <=> k0 = "mail"
      /\ y \notin ended /\ y \notin refused /\ y \in HandedOver
      BY <1>2, <1>4, PlaceSays DEF AfterGo
<1>6. /\ Alive' = IF k1 \in {"slot", "mail"} THEN Alive \cup {y} ELSE Alive \ {y}
      /\ ended' = IF k1 = "ended" THEN ended \cup {y} ELSE ended \ {y}
      /\ refused' = IF k1 = "refused" THEN refused \cup {y} ELSE refused \ {y}
      BY <1>2, MoveSays
<1>7. CASE k1 = "refused"
      <2>1. Abs!Drop(y)
            BY <1>2, <1>3, <1>5, <1>6, <1>7 DEF Abs!Drop
      <2> QED BY <2>1
<1>8. CASE k1 = "slot" /\ k0 = "hand"
      <2>1. Abs!Begin(y)
            BY <1>2, <1>3, <1>5, <1>6, <1>8 DEF Abs!Begin
      <2> QED BY <2>1
<1>9. CASE k1 = "slot" /\ k0 = "mail"
      BY <1>2, <1>3, <1>5, <1>6, <1>9 DEF Still
<1> QED BY <1>2, <1>7, <1>8, <1>9

\* From ring to hand, from table to mailbox, into go(): nothing to be seen.
LEMMA CarryPromised ==
    ASSUME PoolInv, Facts, Facts',
           GoMain \/ \E w \in Workers : PopAdvance(w) \/ Donate(w)
    PROVE  Still
<1>1. PICK y \in Tasks : \E k0, a0, b0, k1, a1, b1 :
          /\ Moves(y, k0, a0, b0, k1, a1, b1) /\ HandedOver' = HandedOver
          /\ k0 \in {"slot", "mail"} <=> k1 \in {"slot", "mail"}
          /\ {k0, k1} \cap {"ended", "refused"} = {}
      <2>1. CASE GoMain
            BY <2>1, GoMainMoves
      <2>2. ASSUME NEW w \in Workers, PopAdvance(w)
            PROVE  \E y \in Tasks : Moves(y, "ring", at[w], pool_head[at[w]], "hand", w, 0)
                                    /\ HandedOver' = HandedOver
            BY <2>2, AdvanceMoves
      <2>3. ASSUME NEW w \in Workers, Donate(w)
            PROVE  \E y \in Tasks : \E i : Moves(y, "slot", w, i, "mail", at[w], 0)
                                           /\ HandedOver' = HandedOver
            BY <2>3, DonateMoves DEF Facts, PlaceInv
      <2> QED BY <2>1, <2>2, <2>3
<1>2. PICK k0, a0, b0, k1, a1, b1 :
          /\ Moves(y, k0, a0, b0, k1, a1, b1) /\ HandedOver' = HandedOver
          /\ k0 \in {"slot", "mail"} <=> k1 \in {"slot", "mail"}
          /\ {k0, k1} \cap {"ended", "refused"} = {}
      BY <1>1
<1>3. IsAt(k0, a0, b0, y)
      BY <1>2 DEF Moves
<1>4. (y \in Alive <=> k1 \in {"slot", "mail"}) /\ y \notin ended /\ y \notin refused
      BY <1>2, <1>3, PlaceSays
<1>5. Alive' = Alive /\ ended' = ended /\ refused' = refused
      <2>1. k1 # "ended" /\ k1 # "refused"
            BY <1>2
      <2>2. Moves(y, k0, a0, b0, k1, a1, b1)
            BY <1>2
      <2>3. /\ Alive' = IF k1 \in {"slot", "mail"} THEN Alive \cup {y} ELSE Alive \ {y}
            /\ ended' = IF k1 = "ended" THEN ended \cup {y} ELSE ended \ {y}
            /\ refused' = IF k1 = "refused" THEN refused \cup {y} ELSE refused \ {y}
            BY <2>2, MoveSays
      <2> QED BY <1>4, <2>1, <2>3
<1>6. done_at' = done_at
      BY DEF GoMain, PopAdvance, Donate
<1> QED BY <1>2, <1>5, <1>6 DEF Still

\* The task a worker runs is alive.
LEMMA RunningAlive ==
    ASSUME PoolInv, Facts, NEW w \in Workers, pc[w] = "run"
    PROVE  Running(w) \in Tasks /\ Running(w) \in Alive
<1>1. Running(w) \in Tasks /\ SlotHas(w, cur_coro[w], Running(w))
      BY RunningIsTask DEF SlotHas, Running
<1>2. IsAt("slot", w, cur_coro[w], Running(w))
      BY <1>1 DEF IsAt
<1> QED BY <1>1, <1>2, PlaceSays

\* One step of the running body.
LEMMA StepPromised ==
    ASSUME PoolInv, Facts, Facts', NEW w \in Workers, Yield(w) \/ WaitOver(w) \/ GoInside(w)
    PROVE  \E x \in Tasks : Abs!Step(x)
<1>1. /\ pc[w] = "run" /\ Op(w)[1] # "end" /\ Done(w) /\ UNCHANGED <<ended, refused>>
      /\ Op(w)[1] = "wait" => Op(w)[2] \in ended
      BY DEF Yield, WaitOver, GoInside
<1>2. PICK r \in Tasks : r = Running(w) /\ r \in Alive
      BY <1>1, RunningAlive
<1>3. done_at[r] < Len(Body[r]) /\ Op(w) = Body[r][done_at[r] + 1]
      BY <1>1, <1>2, RunningIsTask
<1>4. HandedOver' = HandedOver /\ Alive' = Alive
      <2>1. CASE Yield(w) \/ WaitOver(w)
            BY <2>1, RunStays, StayAlive DEF Facts
      <2>2. CASE GoInside(w)
            <3>1. PICK y \in Tasks : \E u, i :
                      Moves(y, "body", u, i, "going", w, 0) /\ HandedOver' = HandedOver
                  BY <2>2, GoInsideMoves
            <3>2. PICK u, i : Moves(y, "body", u, i, "going", w, 0) /\ HandedOver' = HandedOver
                  BY <3>1
            <3>3. IsAt("body", u, i, y)
                  BY <3>2 DEF Moves
            <3>4. y \notin Alive
                  BY <3>3, PlaceSays
            <3>5. Alive' = Alive \ {y}
                  BY <3>2, MoveSays
            <3> QED BY <3>2, <3>4, <3>5
      <2> QED BY <2>1, <2>2
<1>5. done_at' = [done_at EXCEPT ![r] = @ + 1]
      BY <1>1, <1>2 DEF Done
<1> QED BY <1>1, <1>2, <1>3, <1>4, <1>5 DEF Abs!Step

\* A body that has come to its end is done to the last step.
LEMMA EndPromised ==
    ASSUME PoolInv, Facts, Facts', NEW w \in Workers, Finish(w)
    PROVE  \E x \in Tasks : Abs!End(x)
<1>1. PICK y \in Tasks : \E i :
          y = Running(w) /\ Moves(y, "slot", w, i, "ended", 0, 0) /\ HandedOver' = HandedOver
      BY FinishMoves
<1>2. PICK i : y = Running(w) /\ Moves(y, "slot", w, i, "ended", 0, 0) /\ HandedOver' = HandedOver
      BY <1>1
<1>3. IsAt("slot", w, i, y)
      BY <1>2 DEF Moves
<1>4. y \in Alive /\ y \notin refused
      BY <1>3, PlaceSays
<1>5. Alive' = Alive \ {y} /\ ended' = ended \cup {y} /\ refused' = refused
      BY <1>2, <1>4, MoveSays
<1>6. pc[w] = "run" /\ Op(w)[1] = "end" /\ done_at' = done_at
      BY DEF Finish
<1>7. ~ (done_at[y] < Len(Body[y]))
      <2> SUFFICES ASSUME done_at[y] < Len(Body[y]) PROVE FALSE
          OBVIOUS
      <2>1. Op(w) = Body[y][done_at[y] + 1]
            BY <1>2 DEF Op
      <2>2. Body[y] \in Seq({<<"yield">>} \cup ({"go", "wait"} \X Tasks)) /\ done_at[y] \in Nat
            BY PoolAssumption DEF PoolAssumption, PoolInv, TableInv, TableTypes
      <2>3. Op(w) \in {<<"yield">>} \cup ({"go", "wait"} \X Tasks)
            BY <2>1, <2>2
      <2>4. <<"yield">>[1] # "end"
            OBVIOUS
      <2>5. \A p \in {"go", "wait"} \X Tasks : p[1] # "end"
            OBVIOUS
      <2> QED BY <1>6, <2>3, <2>4, <2>5
<1> QED BY <1>2, <1>4, <1>5, <1>6, <1>7 DEF Abs!End

\* A task that is put into a ring was called for, and never before.
LEMMA GivePromised ==
    ASSUME PoolInv, Facts, Facts', NEW t \in Threads, GoPut(t)
    PROVE  \E x \in Tasks : Abs!Give(x)
<1>1. PICK y \in Tasks : \E v, k :
          Moves(y, "going", t, 0, "ring", v, k) /\ HandedOver' = HandedOver \cup {y}
      BY PutMoves
<1>2. PICK v, k : Moves(y, "going", t, 0, "ring", v, k) /\ HandedOver' = HandedOver \cup {y}
      BY <1>1
<1>3. IsAt("going", t, 0, y)
      BY <1>2 DEF Moves
<1>4. y \notin Alive /\ y \notin ended /\ y \notin refused /\ y \notin HandedOver /\ Abs!Called(y)
      BY <1>3, PlaceSays DEF AfterGo
<1>5. Alive' = Alive /\ ended' = ended /\ refused' = refused
      BY <1>2, <1>4, MoveSays
<1>6. done_at' = done_at
      BY DEF GoPut
<1> QED BY <1>2, <1>4, <1>5, <1>6 DEF Abs!Give

\* Every step keeps the accounts ...
LEMMA AccountsKept == PoolInv /\ Facts /\ [Next]_vars /\ Alright' => Accounted'
<1> SUFFICES ASSUME PoolInv, Facts, [Next]_vars, Alright' PROVE Accounted'
    OBVIOUS
<1>1. ASSUME NEW w \in Workers, Worker(w) PROVE Accounted'
      <2>1. CASE Yield(w) \/ WaitOver(w)
            <3>1. Stay /\ HandedOver' = HandedOver /\ pc[w] = "run" /\ Done(w)
                  BY <2>1, RunStays DEF Yield, WaitOver
            <3> QED BY <3>1, StayAccounted DEF Facts
      <2>2. CASE PopAdvance(w) \/ SpawnRequest(w) \/ TakeReady(w) \/ Donate(w) \/ Finish(w) \/ GoInside(w)
            BY <2>2, MovesAccounted
      <2> QED BY <1>1, <2>1, <2>2, LookPromised DEF Worker
<1>2. ASSUME NEW t \in Threads, Go(t) PROVE Accounted'
      BY <1>2, LockPromised, MovesAccounted DEF Go
<1>3. CASE GoMain
      BY <1>3, MovesAccounted
<1>4. CASE UNCHANGED vars
      <2>1. UNCHANGED <<coros, pool_queue, pool_head, pool_tail, accepted, coro_handoff, pc, hand,
                        done_at, listed, ended, refused>>
            BY <1>4 DEF vars, ring
      <2>2. \A a, x : (Going(a, x)' <=> Going(a, x)) /\ (HandHas(a, x)' <=> HandHas(a, x))
            BY <2>1 DEF Going, HandHas
      <2>3. Stay /\ HandedOver' = HandedOver
            BY <2>1, <2>2, KindsSame, AllStay
      <2> QED BY <2>1, <2>3, StayAccounted DEF Facts
<1> QED BY <1>1, <1>2, <1>3, <1>4 DEF Next

\* ... and the promise.
LEMMA StepKeepsPromise ==
    PoolInv /\ Facts /\ Facts' /\ [Next]_vars => [Abs!Next]_(Abs!vars)
<1> SUFFICES ASSUME PoolInv, Facts, Facts', [Next]_vars
             PROVE  Still \/ \E x \in Tasks : \/ Abs!Give(x) \/ Abs!Begin(x) \/ Abs!Drop(x)
                                              \/ Abs!Step(x) \/ Abs!End(x)
    BY DEF Still, Abs!Next, Abs!vars
<1>0. Alright'
      BY DEF Facts
<1>1. ASSUME NEW w \in Workers, Worker(w)
      PROVE  Still \/ \E x \in Tasks : Abs!Begin(x) \/ Abs!Drop(x) \/ Abs!Step(x) \/ Abs!End(x)
      <2>1. CASE PopAdvance(w) \/ Donate(w)
            BY <2>1, CarryPromised
      <2>2. CASE SpawnRequest(w) \/ TakeReady(w)
            BY <2>2, SlotPromised
      <2>3. CASE Yield(w) \/ WaitOver(w) \/ GoInside(w)
            BY <2>3, StepPromised
      <2>4. CASE Finish(w)
            BY <2>4, EndPromised
      <2> QED BY <1>0, <1>1, <2>1, <2>2, <2>3, <2>4, LookPromised DEF Worker
<1>2. ASSUME NEW t \in Threads, Go(t) PROVE Still \/ \E x \in Tasks : Abs!Give(x)
      BY <1>0, <1>2, LockPromised, GivePromised DEF Go
<1>3. CASE GoMain
      BY <1>3, CarryPromised
<1>4. CASE UNCHANGED vars
      BY <1>4 DEF vars, ring, Still, HandedOver, Alive, Slotted, Mailed
<1> QED BY <1>1, <1>2, <1>3, <1>4 DEF Next

\* However tasks are queued, stolen and handed from worker to worker, each that
\* go() accepted runs its body once, in order and to the end, unless a full
\* table drops it, and passes no channel wait before its time (go, pool_drain,
\* pool_steal, coro_offer_handoff, coro_take_handoff, coro_import).
THEOREM PoolKeepsPromise == Spec => Promise
<1>1. Init => PlaceInv /\ Accounted /\ Abs!Init
      <2> SUFFICES ASSUME Init PROVE Accounted /\ Abs!Init
          BY PlaceInit
      <2>1. \A k, a, b, x : IsAt(k, a, b, x) => k \notin AfterGo /\ k # "going"
            BY WorkersAreThreads DEF Init, IsAt, AfterGo, Going, RingHas, HandHas, SlotHas, MailHas, Live
      <2>2. Accounted
            BY <2>1 DEF Accounted
      <2>3. HandedOver = {}
            BY DEF Init, HandedOver
      <2>4. Alive = {}
            <3>1. \A w \in Workers : Live(coros[w]) = {} /\ coro_handoff[w].state = "EMPTY"
                  BY DEF Init, Live
            <3> QED BY <3>1 DEF Alive, Slotted, Mailed
      <2>5. ended = {} /\ refused = {} /\ done_at = [t \in Tasks |-> 0]
            BY DEF Init
      <2> QED BY <2>2, <2>3, <2>4, <2>5 DEF Abs!Init
<1>2. PoolInv => TypeOK /\ Alright
      BY InvTypes, AliveIsThere
<1>3. PoolInv /\ PlaceInv /\ [Next]_vars => PlaceInv'
      BY PlaceStep
<1>4. TypeOK /\ PlaceInv /\ Accounted /\ Alright <=> Facts
      BY DEF Facts
<1> QED BY <1>1, <1>2, <1>3, <1>4, AccountsKept, StepKeepsPromise, PoolInvariant, PTL
           DEF Spec, Promise, Abs!Spec
===============================================================================
