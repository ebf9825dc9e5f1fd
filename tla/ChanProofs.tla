------------------------------ MODULE ChanProofs ------------------------------
(***************************************************************************)
(* Proofs about Chan for every set of threads, every capacity and every    *)
(* mix of operations: the type invariant, mutual exclusion, and that no    *)
(* value is lost, duplicated or reordered, from which the refinement of    *)
(* the abstract channel follows; and that the epoch counts every change    *)
(* once.                                                                   *)
(***************************************************************************)
EXTENDS Chan, TLAPS, FiniteSetTheorems

USE DEF OpNames, Recvs, PC, Answers

\* Init gives every variable its type.
LEMMA InitTypeOK == Init => TypeOK
<1> SUFFICES ASSUME Init PROVE TypeOK
    OBVIOUS
<1>1. FieldsType
      <2>1. buf \in [0 .. Alloc - 1 -> Values]
            BY ChanAssumption DEF Init
      <2>2. n \in 0 .. Cap /\ head \in 0 .. Alloc - 1
            BY ChanAssumption DEF Init, Alloc
      <2>3. closed \in BOOLEAN /\ waiting \in BOOLEAN
            BY DEF Init
      <2> QED BY <2>1, <2>2, <2>3 DEF FieldsType
<1>2. ControlType
      <2>1. [kind |-> "none", val |-> Zero] \in [kind : Answers, val : Values]
            BY ChanAssumption
      <2> QED BY <2>1, ChanAssumption DEF Init, ControlType
<1>3. HistoryType
      BY DEF Init, HistoryType
<1> QED BY <1>1, <1>2, <1>3 DEF TypeOK

\* What Leave does to the control variables.
LEMMA LeaveControl ==
    ASSUME ControlType, NEW t \in Threads, NEW to \in {"idle", "bump", "block", "exit"},
           NEW kind \in Answers, NEW val \in Values, Leave(t, to, kind, val)
    PROVE  ControlType'
<1>1. [kind |-> kind, val |-> val] \in [kind : Answers, val : Values]
      OBVIOUS
<1> QED BY <1>1 DEF ControlType, Leave, local

\* Every step keeps the control variables typed.
LEMMA StepControl ==
    ASSUME TypeOK, [Next]_vars
    PROVE  ControlType'
<1> USE ChanAssumption DEF TypeOK
<1>1. CASE UNCHANGED vars
      BY <1>1 DEF ControlType, vars, local
<1>2. ASSUME NEW t \in Threads, NEW o \in OpNames, NEW v \in Values, Call(t, o, v)
      PROVE  ControlType'
      <2>1. [kind |-> "none", val |-> Zero] \in [kind : Answers, val : Values]
            OBVIOUS
      <2> QED BY <1>2, <2>1 DEF ControlType, Call
<1>3. ASSUME NEW t \in Threads, Acquire(t)
      PROVE  ControlType'
      BY <1>3 DEF ControlType, Acquire, local
<1>4. ASSUME NEW t \in Threads, Release(t)
      PROVE  ControlType'
      BY <1>4 DEF ControlType, Release, local
<1>5. ASSUME NEW t \in Threads, Crit(t)
      PROVE  ControlType'
      <2>1. CASE SendOnClosed(t)
            BY <2>1, LeaveControl DEF SendOnClosed
      <2>2. CASE SendFull(t)
            BY <2>2, LeaveControl DEF SendFull
      <2>3. CASE SendStore(t)
            BY <2>3 DEF SendStore, Store, Proceed, ControlType
      <2>4. CASE SendPublish(t)
            BY <2>4, LeaveControl DEF SendPublish
      <2>5. CASE AwaitTaken(t)
            BY <2>5, LeaveControl DEF AwaitTaken
      <2>6. CASE RecvLoad(t)
            <3>1. buf[Front] \in Values
                  BY DEF FieldsType, Front, Alloc
            <3> QED BY <2>6, <3>1 DEF RecvLoad, Proceed, ControlType
      <2>7. CASE RecvRemove(t)
            <3>1. arg[t] \in Values
                  BY DEF ControlType
            <3> QED BY <2>7, <3>1, LeaveControl DEF RecvRemove
      <2>8. CASE RecvDrained(t)
            BY <2>8, LeaveControl DEF RecvDrained
      <2>9. CASE RecvEmpty(t)
            BY <2>9, LeaveControl DEF RecvEmpty
      <2>10. CASE CloseBody(t)
            BY <2>10, LeaveControl DEF CloseBody
      <2> QED BY <1>5, <2>1, <2>2, <2>3, <2>4, <2>5, <2>6, <2>7, <2>8, <2>9, <2>10
              DEF Crit
<1>6. ASSUME NEW t \in Threads, Bump(t)
      PROVE  ControlType'
      <2>1. [kind |-> "none", val |-> Zero] \in [kind : Answers, val : Values]
            OBVIOUS
      <2>2. CASE Cap = 0 /\ op[t] = "send"
            <3>1. op' \in [Threads -> OpNames \cup {"await"}] /\ pc' \in [Threads -> PC]
                  BY <1>6, <2>2 DEF ControlType, Bump
            <3>2. res' \in [Threads -> [kind : Answers, val : Values]]
                  BY <1>6, <2>1, <2>2 DEF ControlType, Bump
            <3>3. epoch' \in Nat /\ UNCHANGED <<lock, exited, arg, next>>
                  BY <1>6, <2>2 DEF ControlType, Bump
            <3> QED BY <3>1, <3>2, <3>3 DEF ControlType
      <2>3. CASE ~(Cap = 0 /\ op[t] = "send")
            BY <1>6, <2>3 DEF ControlType, Bump
      <2> QED BY <2>2, <2>3
<1>7. ASSUME NEW t \in Threads, Retry(t)
      PROVE  ControlType'
      BY <1>7 DEF ControlType, Retry, local
<1> QED BY <1>1, <1>2, <1>3, <1>4, <1>5, <1>6, <1>7 DEF Next, Step

\* Slot stays inside the ring, and different offsets get different places.
LEMMA SlotProperties ==
    ASSUME FieldsType, Cap # 0, NEW k \in 0 .. Cap - 1, NEW j \in 0 .. Cap - 1
    PROVE  Slot(k) \in 0 .. Cap - 1 /\ (Slot(k) = Slot(j) => k = j)
BY ChanAssumption DEF FieldsType, Slot, Alloc

\* Every step keeps the fields of the channel typed: the bounds on the count
\* rest on what the thread saw when it entered still being so.
LEMMA StepFields ==
    ASSUME TypeOK, StillSo, [Next]_vars
    PROVE  FieldsType'
<1> USE ChanAssumption DEF TypeOK
<1>1. CASE UNCHANGED fields
      BY <1>1 DEF FieldsType, fields, Alloc
<1>2. ASSUME NEW t \in Threads, SendStore(t)
      PROVE  FieldsType'
      BY <1>2 DEF SendStore, Store, Proceed, FieldsType, ControlType, Alloc
<1>3. ASSUME NEW t \in Threads, SendPublish(t)
      PROVE  FieldsType'
      <2>1. CASE Cap = 0
            BY <1>3, <2>1 DEF SendPublish, FieldsType, Alloc
      <2>2. CASE Cap # 0
            <3>1. n # Cap
                  BY <1>3, <2>2 DEF SendPublish, StillSo, Full
            <3>2. n' \in 0 .. Cap
                  BY <1>3, <2>2, <3>1 DEF SendPublish, FieldsType
            <3>3. UNCHANGED <<buf, head, closed, waiting>>
                  BY <1>3, <2>2 DEF SendPublish
            <3> QED BY <3>2, <3>3 DEF FieldsType, Alloc
      <2> QED BY <2>1, <2>2
<1>4. ASSUME NEW t \in Threads, RecvLoad(t)
      PROVE  FieldsType'
      BY <1>4 DEF RecvLoad, Proceed, FieldsType, Alloc
<1>5. ASSUME NEW t \in Threads, RecvRemove(t)
      PROVE  FieldsType'
      <2>1. CASE Cap = 0
            BY <1>5, <2>1 DEF RecvRemove, FieldsType, Alloc
      <2>2. CASE Cap # 0
            <3>1. n # 0
                  BY <1>5, <2>2 DEF RecvRemove, StillSo, HasValue
            <3>2. n' \in 0 .. Cap
                  BY <1>5, <2>2, <3>1 DEF RecvRemove, FieldsType
            <3>3. head' \in 0 .. Alloc - 1
                  BY <1>5, <2>2 DEF RecvRemove, FieldsType, Alloc
            <3>4. UNCHANGED <<buf, closed, waiting>>
                  BY <1>5, <2>2 DEF RecvRemove
            <3> QED BY <3>2, <3>3, <3>4 DEF FieldsType, Alloc
      <2> QED BY <2>1, <2>2
<1>6. ASSUME NEW t \in Threads, CloseBody(t)
      PROVE  FieldsType'
      BY <1>6 DEF CloseBody, FieldsType, Alloc
<1>7. ASSUME NEW t \in Threads,
             \/ \E o \in OpNames, v \in Values : Call(t, o, v)
             \/ Acquire(t) \/ Release(t) \/ SendOnClosed(t) \/ SendFull(t)
             \/ AwaitTaken(t) \/ RecvDrained(t) \/ RecvEmpty(t) \/ Bump(t) \/ Retry(t)
      PROVE  UNCHANGED fields
      BY <1>7 DEF Call, Acquire, Release, SendOnClosed, SendFull, AwaitTaken,
                  RecvDrained, RecvEmpty, Bump, Retry
<1> QED BY <1>1, <1>2, <1>3, <1>4, <1>5, <1>6, <1>7 DEF Next, Step, Crit, vars

\* Every step keeps the histories typed.
LEMMA StepHistory ==
    ASSUME TypeOK, [Next]_vars
    PROVE  HistoryType'
<1> USE ChanAssumption DEF TypeOK
<1>1. CASE UNCHANGED hist
      BY <1>1 DEF HistoryType, hist
<1>2. ASSUME NEW t \in Threads, NEW o \in OpNames, NEW v \in Values, Call(t, o, v)
      PROVE  HistoryType'
      BY <1>2 DEF Call, HistoryType
<1>3. ASSUME NEW t \in Threads, SendPublish(t)
      PROVE  HistoryType'
      BY <1>3 DEF SendPublish, Leave, ControlType, HistoryType
<1>4. ASSUME NEW t \in Threads, RecvRemove(t)
      PROVE  HistoryType'
      BY <1>4 DEF RecvRemove, Leave, ControlType, HistoryType
<1>5. ASSUME NEW t \in Threads,
             \/ Acquire(t) \/ Release(t) \/ SendOnClosed(t) \/ SendFull(t)
             \/ SendStore(t) \/ AwaitTaken(t) \/ RecvLoad(t) \/ RecvDrained(t)
             \/ RecvEmpty(t) \/ CloseBody(t) \/ Bump(t) \/ Retry(t)
      PROVE  UNCHANGED hist
      BY <1>5 DEF Acquire, Release, SendOnClosed, SendFull, SendStore, Store,
                  AwaitTaken, RecvLoad, RecvDrained, RecvEmpty, CloseBody, Bump,
                  Retry, Leave, Proceed, hist
<1> QED BY <1>1, <1>2, <1>3, <1>4, <1>5 DEF Next, Step, Crit, vars

\* Every step keeps the lock word and its holder in agreement.
LEMMA StepMutex ==
    ASSUME TypeOK, MutualExclusion, [Next]_vars
    PROVE  MutualExclusion'
<1> USE DEF TypeOK, ControlType
<1>1. CASE UNCHANGED vars
      BY <1>1 DEF MutualExclusion, Holds, vars
<1>2. ASSUME NEW t \in Threads, Acquire(t)
      PROVE  MutualExclusion'
      BY <1>2 DEF Acquire, MutualExclusion, Holds
<1>3. ASSUME NEW t \in Threads, Release(t)
      PROVE  MutualExclusion'
      BY <1>3 DEF Release, MutualExclusion, Holds
<1>4. ASSUME NEW t \in Threads, Crit(t)
      PROVE  MutualExclusion'
      <2>1. /\ Holds(t) /\ lock' = lock
            /\ pc'[t] \in {"publish", "remove", "release"}
            /\ \A u \in Threads \ {t} : pc'[u] = pc[u]
            BY <1>4 DEF Crit, SendOnClosed, SendFull, SendStore, Store, SendPublish,
                        AwaitTaken, RecvLoad, RecvRemove, RecvDrained, RecvEmpty,
                        CloseBody, InCrit, Leave, Proceed, Holds
      <2> QED BY <2>1 DEF MutualExclusion, Holds
<1>5. ASSUME NEW t \in Threads,
             \/ \E o \in OpNames, v \in Values : Call(t, o, v)
             \/ Bump(t) \/ Retry(t)
      PROVE  MutualExclusion'
      <2>1. /\ ~Holds(t) /\ lock' = lock
            /\ pc'[t] \in {"acquire", "idle"}
            /\ \A u \in Threads \ {t} : pc'[u] = pc[u]
            BY <1>5 DEF Call, Bump, Retry, Holds
      <2> QED BY <2>1 DEF MutualExclusion, Holds
<1> QED BY <1>1, <1>2, <1>3, <1>4, <1>5 DEF Next, Step
-------------------------------------------------------------------------------
(* The queue *)

\* Contents is a sequence of values.
LEMMA ContentsType ==
    ASSUME FieldsType
    PROVE  /\ Contents \in Seq(Values)
           /\ Len(Contents) = IF Cap = 0 THEN (IF waiting THEN 1 ELSE 0) ELSE n
           /\ Len(Contents) \in 0 .. Alloc
<1> USE ChanAssumption
<1>1. CASE Cap = 0
      BY <1>1 DEF FieldsType, Contents, Alloc
<1>2. CASE Cap # 0
      <2>1. \A i \in 1 .. n : buf[Slot(i - 1)] \in Values
            BY <1>2, SlotProperties DEF FieldsType, Alloc
      <2>2. Contents = [i \in 1 .. n |-> buf[Slot(i - 1)]]
            BY <1>2 DEF Contents
      <2>3. n \in Nat /\ n <= Cap
            BY DEF FieldsType
      <2>4. Contents \in [1 .. n -> Values]
            BY <2>1, <2>2
      <2>5. Contents \in Seq(Values) /\ Len(Contents) = n
            BY <2>3, <2>4
      <2> QED BY <1>2, <2>3, <2>5 DEF Alloc
<1> QED BY <1>1, <1>2

\* A value stored but not yet counted is outside the contents.
LEMMA StoreContents ==
    ASSUME FieldsType, NEW t \in Threads, SendStore(t)
    PROVE  Contents' = Contents
<1> USE ChanAssumption
<1>1. ~Full /\ UNCHANGED <<n, head, waiting>> /\ buf' = [buf EXCEPT ![Rear] = arg[t]]
      BY DEF SendStore, Store
<1>2. CASE Cap = 0
      BY <1>1, <1>2 DEF Full, Contents
<1>3. CASE Cap # 0
      <2>1. n \in Nat /\ n < Cap
            BY <1>1, <1>3 DEF FieldsType, Full
      <2>2. \A i \in 1 .. n : Slot(i - 1) # Slot(n) /\ Slot(i - 1) \in 0 .. Cap - 1
            BY <1>3, <2>1, SlotProperties
      <2>3. \A i \in 1 .. n : buf'[Slot(i - 1)] = buf[Slot(i - 1)]
            BY <1>1, <1>3, <2>1, <2>2 DEF Rear, FieldsType, Alloc
      <2>4. Contents' = [i \in 1 .. n |-> buf'[Slot(i - 1)]]
            BY <1>1, <1>3 DEF Contents, Slot
      <2>5. Contents = [i \in 1 .. n |-> buf[Slot(i - 1)]]
            BY <1>3 DEF Contents
      <2> QED BY <2>3, <2>4, <2>5
<1> QED BY <1>2, <1>3

\* Counting a stored value appends it to the contents.
LEMMA PublishContents ==
    ASSUME FieldsType, FieldsType', ~Full, NEW v \in Values, buf[Rear] = v,
           IF Cap = 0 THEN waiting' = TRUE /\ UNCHANGED n
                      ELSE n' = n + 1 /\ UNCHANGED waiting,
           UNCHANGED <<buf, head>>
    PROVE  Contents' = Append(Contents, v)
<1> USE ChanAssumption
<1>1. CASE Cap = 0
      BY <1>1 DEF Contents, Full, Rear
<1>2. CASE Cap # 0
      <2>1. n \in Nat /\ n' = n + 1 /\ v = buf[Slot(n)]
            BY <1>2 DEF FieldsType, Rear
      <2>2. Contents = [i \in 1 .. n |-> buf[Slot(i - 1)]]
            BY <1>2 DEF Contents
      <2>3. Contents' = [i \in 1 .. n + 1 |-> buf[Slot(i - 1)]]
            BY <1>2, <2>1 DEF Contents, Slot
      <2>4. Contents \in Seq(Values) /\ Len(Contents) = n
            BY <1>2, ContentsType
      <2>5. Contents' \in Seq(Values) /\ Len(Contents') = n + 1
            <3>0. \A i \in 1 .. n : buf[Slot(i - 1)] = Contents[i] /\ Contents[i] \in Values
                  BY <2>1, <2>2, <2>4
            <3>1. \A i \in 1 .. n + 1 : buf[Slot(i - 1)] \in Values
                  BY <2>1, <3>0
            <3>2. Contents' \in [1 .. n + 1 -> Values]
                  BY <2>3, <3>1
            <3> QED BY <2>1, <3>2
      <2>6. \A i \in 1 .. n + 1 : Contents'[i] = Append(Contents, v)[i]
            BY <2>1, <2>2, <2>3, <2>4
      <2> QED BY <2>1, <2>4, <2>5, <2>6
<1> QED BY <1>1, <1>2

\* Removing the oldest value, with the head wrapping, leaves the tail of the
\* contents.
LEMMA RemoveContents ==
    ASSUME FieldsType, FieldsType', HasValue, UNCHANGED buf,
           IF Cap = 0
           THEN waiting' = FALSE /\ UNCHANGED <<n, head>>
           ELSE /\ head' = IF head + 1 >= Cap THEN 0 ELSE head + 1
                /\ n' = n - 1
                /\ UNCHANGED waiting
    PROVE  /\ Contents # << >>
           /\ Head(Contents) = buf[Front]
           /\ Contents' = Tail(Contents)
<1> USE ChanAssumption
<1>1. CASE Cap = 0
      BY <1>1 DEF Contents, HasValue, Front
<1>2. CASE Cap # 0
      <2>1. n \in Nat /\ n # 0 /\ n <= Cap /\ n' = n - 1 /\ head \in 0 .. Cap - 1
            BY <1>2 DEF FieldsType, HasValue, Alloc
      <2>2. Contents = [i \in 1 .. n |-> buf[Slot(i - 1)]]
            BY <1>2 DEF Contents
      <2>3. Contents' = [i \in 1 .. n - 1 |-> buf[Slot(i - 1)']]
            BY <1>2, <2>1 DEF Contents
      <2>4. \A i \in 1 .. n - 1 : Slot(i - 1)' = Slot(i)
            BY <1>2, <2>1 DEF Slot
      <2>5. Slot(0) = head
            BY <1>2, <2>1 DEF Slot
      <2>6. Contents \in Seq(Values) /\ Len(Contents) = n
            BY <1>2, ContentsType
      <2>7. Contents' \in Seq(Values) /\ Len(Contents') = n - 1
            <3>1. \A i \in 1 .. n - 1 : Contents[i + 1] \in Values
                  BY <2>1, <2>6
            <3>2. \A i \in 1 .. n - 1 : Contents[i + 1] = buf[Slot(i)]
                  BY <2>1, <2>2
            <3>3. Contents' \in [1 .. n - 1 -> Values]
                  BY <2>3, <2>4, <3>1, <3>2
            <3> QED BY <2>1, <3>3
      <2>8. Contents # << >> /\ Head(Contents) = Contents[1]
            BY <2>1, <2>6
      <2>9. Contents[1] = buf[head]
            BY <2>1, <2>2, <2>5
      <2>10. Tail(Contents) \in Seq(Values) /\ Len(Tail(Contents)) = n - 1
             BY <2>6, <2>8
      <2>11. \A i \in 1 .. n - 1 : Contents'[i] = Tail(Contents)[i]
             <3> SUFFICES ASSUME NEW i \in 1 .. n - 1
                          PROVE  Contents'[i] = Tail(Contents)[i]
                 OBVIOUS
             <3>1. Contents'[i] = buf[Slot(i)]
                   BY <2>3, <2>4
             <3>2. Contents[i + 1] = buf[Slot(i)]
                   BY <2>1, <2>2
             <3> QED BY <2>1, <2>6, <2>8, <3>1, <3>2
      <2>12. Contents' = Tail(Contents)
             BY <2>1, <2>7, <2>10, <2>11
      <2> QED BY <1>2, <2>8, <2>9, <2>12 DEF Front
<1> QED BY <1>1, <1>2

\* Moving the head of what is left to the end of what was taken changes
\* nothing of their concatenation.
LEMMA MoveHead ==
    ASSUME NEW S, NEW p \in Seq(S), NEW q \in Seq(S), q # << >>
    PROVE  Append(p, Head(q)) \o Tail(q) = p \o q
<1>1. Head(q) = q[1] /\ Tail(q) \in Seq(S) /\ Len(Tail(q)) = Len(q) - 1
      OBVIOUS
<1>2. \A i \in 1 .. Len(q) - 1 : Tail(q)[i] = q[i + 1]
      OBVIOUS
<1>3. Append(p, Head(q)) \o Tail(q) \in Seq(S) /\ p \o q \in Seq(S)
      OBVIOUS
<1>4. Len(Append(p, Head(q)) \o Tail(q)) = Len(p \o q)
      BY <1>1
<1>5. \A i \in 1 .. Len(p \o q) : (Append(p, Head(q)) \o Tail(q))[i] = (p \o q)[i]
      BY <1>1, <1>2
<1> QED BY <1>3, <1>4, <1>5

\* Appending to the second part appends to the concatenation.
LEMMA AppendInside ==
    ASSUME NEW S, NEW p \in Seq(S), NEW q \in Seq(S), NEW v \in S
    PROVE  p \o Append(q, v) = Append(p \o q, v)
OBVIOUS

-------------------------------------------------------------------------------
(* The invariant *)

\* FifoNoLoss needs to know what the thread inside the critical section is
\* about to do, and that needs mutual exclusion.
ChanInv == TypeOK /\ MutualExclusion /\ StillSo /\ FifoNoLoss

\* What the holder of the lock saw stays true until it acts on it: everyone
\* else is outside the critical section.
LEMMA StepStillSo ==
    ASSUME TypeOK, MutualExclusion, StillSo, [Next]_vars
    PROVE  StillSo'
<1> USE DEF TypeOK
<1>1. CASE UNCHANGED vars
      BY <1>1 DEF StillSo, vars, fields, local, Full, HasValue, Rear, Front, Slot
<1>2. ASSUME NEW t \in Threads, SendStore(t)
      PROVE  StillSo'
      <2>1. \A u \in Threads \ {t} : pc'[u] \notin {"publish", "remove"}
            BY <1>2 DEF SendStore, Store, Proceed, InCrit, MutualExclusion, Holds, ControlType
      <2>2. pc'[t] = "publish"
            BY <1>2 DEF SendStore, Store, Proceed, ControlType
      <2>3. ~closed' /\ ~Full'
            BY <1>2 DEF SendStore, Store, Proceed, Full
      <2>4. buf'[Rear'] = arg'[t]
            <3>1. Rear \in 0 .. Alloc - 1
                  BY <1>2, ChanAssumption
                  DEF SendStore, Rear, Slot, Full, FieldsType, Alloc
            <3>2. Rear' = Rear
                  BY <1>2 DEF SendStore, Store, Rear, Slot
            <3> QED BY <1>2, <3>1, <3>2 DEF SendStore, Store, FieldsType
      <2> QED BY <2>1, <2>2, <2>3, <2>4 DEF StillSo
<1>3. ASSUME NEW t \in Threads, RecvLoad(t)
      PROVE  StillSo'
      <2>1. \A u \in Threads \ {t} : pc'[u] \notin {"publish", "remove"}
            BY <1>3 DEF RecvLoad, Proceed, InCrit, MutualExclusion, Holds, ControlType
      <2>2. pc'[t] = "remove"
            BY <1>3 DEF RecvLoad, Proceed, ControlType
      <2>3. HasValue'
            BY <1>3 DEF RecvLoad, HasValue
      <2>4. buf'[Front'] = arg'[t]
            BY <1>3 DEF RecvLoad, Front, ControlType
      <2> QED BY <2>1, <2>2, <2>3, <2>4 DEF StillSo
<1>4. ASSUME NEW t \in Threads,
             \/ SendOnClosed(t) \/ SendFull(t) \/ SendPublish(t) \/ AwaitTaken(t)
             \/ RecvRemove(t) \/ RecvDrained(t) \/ RecvEmpty(t) \/ CloseBody(t)
             \/ Release(t)
      PROVE  StillSo'
      <2>1. Holds(t) /\ pc'[t] \notin {"publish", "remove"}
            BY <1>4 DEF SendOnClosed, SendFull, SendPublish, AwaitTaken, RecvRemove,
                        RecvDrained, RecvEmpty, CloseBody, Release, InCrit, Leave,
                        Holds, ControlType
      <2>2. \A u \in Threads \ {t} : pc'[u] = pc[u] /\ ~Holds(u)
            BY <1>4, <2>1 DEF SendOnClosed, SendFull, SendPublish, AwaitTaken, RecvRemove,
                        RecvDrained, RecvEmpty, CloseBody, Release, Leave,
                        MutualExclusion, ControlType
      <2> QED BY <2>1, <2>2 DEF StillSo, Holds
<1>5. ASSUME NEW t \in Threads,
             \/ \E o \in OpNames, v \in Values : Call(t, o, v)
             \/ Acquire(t) \/ Bump(t) \/ Retry(t)
      PROVE  StillSo'
      <2>1. UNCHANGED fields
            BY <1>5 DEF Call, Acquire, Bump, Retry
      <2>2. pc'[t] \notin {"publish", "remove"}
            BY <1>5 DEF Call, Acquire, Bump, Retry, ControlType
      <2>3. \A u \in Threads \ {t} : pc'[u] = pc[u] /\ arg'[u] = arg[u]
            BY <1>5 DEF Call, Acquire, Bump, Retry, ControlType, local
      <2> QED BY <2>1, <2>2, <2>3
              DEF StillSo, fields, Full, HasValue, Rear, Front, Slot
<1> QED BY <1>1, <1>2, <1>3, <1>4, <1>5 DEF Next, Step, Crit

\* Every step keeps the histories and the contents in agreement.
LEMMA StepFifo ==
    ASSUME ChanInv, TypeOK', [Next]_vars
    PROVE  FifoNoLoss'
<1> USE DEF ChanInv, TypeOK
<1>1. Contents \in Seq(Values)
      BY ContentsType
<1>2. ASSUME UNCHANGED <<n, head, waiting, sent, taken>>, UNCHANGED buf
      PROVE  FifoNoLoss'
      BY <1>2 DEF FifoNoLoss, Contents, Slot
<1>3. ASSUME NEW t \in Threads, SendStore(t)
      PROVE  FifoNoLoss'
      <2>1. UNCHANGED <<sent, taken>>
            BY <1>3 DEF SendStore, Store, Proceed, hist
      <2> QED BY <1>3, <2>1, StoreContents DEF FifoNoLoss
<1>4. ASSUME NEW t \in Threads, SendPublish(t)
      PROVE  FifoNoLoss'
      <2>1. arg[t] \in Values
            BY DEF ControlType
      <2>2. Contents' = Append(Contents, arg[t])
            BY <1>4, <2>1, PublishContents DEF SendPublish, StillSo
      <2>3. sent' = Append(sent, arg[t]) /\ taken' = taken
            BY <1>4 DEF SendPublish
      <2>4. sent = taken \o Contents /\ taken \in Seq(Values)
            BY DEF FifoNoLoss, HistoryType
      <2>5. taken \o Append(Contents, arg[t]) = Append(taken \o Contents, arg[t])
            BY <1>1, <2>1, <2>4, AppendInside
      <2> QED BY <2>2, <2>3, <2>4, <2>5 DEF FifoNoLoss
<1>5. ASSUME NEW t \in Threads, RecvRemove(t)
      PROVE  FifoNoLoss'
      <2>1. HasValue /\ buf[Front] = arg[t]
            BY <1>5 DEF RecvRemove, StillSo
      <2>2. /\ Contents # << >>
            /\ Head(Contents) = arg[t]
            /\ Contents' = Tail(Contents)
            BY <1>5, <2>1, RemoveContents DEF RecvRemove
      <2>3. taken' = Append(taken, arg[t]) /\ sent' = sent
            BY <1>5 DEF RecvRemove
      <2>4. sent = taken \o Contents /\ taken \in Seq(Values)
            BY DEF FifoNoLoss, HistoryType
      <2>5. Append(taken, Head(Contents)) \o Tail(Contents) = taken \o Contents
            BY <1>1, <2>2, <2>4, MoveHead
      <2> QED BY <2>2, <2>3, <2>4, <2>5 DEF FifoNoLoss
<1>6. ASSUME NEW t \in Threads,
             \/ \E o \in OpNames, v \in Values : Call(t, o, v)
             \/ Acquire(t) \/ Release(t) \/ SendOnClosed(t) \/ SendFull(t)
             \/ AwaitTaken(t) \/ RecvLoad(t) \/ RecvDrained(t) \/ RecvEmpty(t)
             \/ CloseBody(t) \/ Bump(t) \/ Retry(t)
      PROVE  UNCHANGED <<n, head, waiting, sent, taken>> /\ UNCHANGED buf
      BY <1>6 DEF Call, Acquire, Release, SendOnClosed, SendFull, AwaitTaken,
                  RecvLoad, RecvDrained, RecvEmpty, CloseBody, Bump, Retry,
                  Leave, Proceed, fields, hist
<1>7. CASE UNCHANGED vars
      BY <1>2, <1>7 DEF vars, fields, hist
<1> QED BY <1>2, <1>3, <1>4, <1>5, <1>6, <1>7 DEF Next, Step, Crit

\* Initially and after every step.
LEMMA InitChanInv == Init => ChanInv
<1> SUFFICES ASSUME Init PROVE ChanInv
    OBVIOUS
<1>1. TypeOK
      BY InitTypeOK
<1>2. MutualExclusion
      BY DEF Init, MutualExclusion, Holds
<1>3. StillSo
      BY DEF Init, StillSo
<1>4. Contents = << >>
      BY ChanAssumption DEF Init, Contents
<1>5. FifoNoLoss
      BY <1>4 DEF Init, FifoNoLoss
<1> QED BY <1>1, <1>2, <1>3, <1>5 DEF ChanInv

LEMMA StepChanInv == ChanInv /\ [Next]_vars => ChanInv'
<1> SUFFICES ASSUME ChanInv, [Next]_vars PROVE ChanInv'
    OBVIOUS
<1>1. TypeOK'
      BY StepControl, StepFields, StepHistory DEF ChanInv, TypeOK
<1> QED BY <1>1, StepMutex, StepStillSo, StepFifo DEF ChanInv

\* Whatever the threads and the capacity, the indices stay in the ring, one
\* thread at a time is inside, and no value is lost, duplicated or reordered.
THEOREM ChanInvariant == Spec => []ChanInv
BY InitChanInv, StepChanInv, PTL DEF Spec

\* The FIFO guarantee of a channel, for any number of threads, any capacity.
THEOREM ChanFifo == Spec => []FifoNoLoss
BY ChanInvariant, PTL DEF ChanInv

\* "A spinlock guards every field above": one thread is inside, the ring's
\* indices stay in the buffer, and what a thread concluded when it entered holds
\* until it has counted or removed the value.
THEOREM ChanGuarded == Spec => []Guarded
BY ChanInvariant, PTL DEF ChanInv, Guarded
-------------------------------------------------------------------------------
(* Answers that stay true *)

\* An empty channel has handed out everything it accepted.
LEMMA EmptyMeansAllTaken ==
    ASSUME ChanInv, ~HasValue
    PROVE  taken = sent
<1>1. Contents = << >>
      BY ChanAssumption DEF ChanInv, TypeOK, FieldsType, HasValue, Contents
<1>2. taken \in Seq(Values)
      BY DEF ChanInv, TypeOK, HistoryType
<1> QED BY <1>1, <1>2 DEF ChanInv, FifoNoLoss

\* A channel that has handed out everything is empty.
LEMMA AllTakenMeansEmpty ==
    ASSUME ChanInv, taken = sent
    PROVE  ~HasValue
<1> USE DEF ChanInv, TypeOK
<1>1. taken \in Seq(Values) /\ Contents \in Seq(Values) /\ sent = taken \o Contents
      BY ContentsType DEF HistoryType, FifoNoLoss
<1>2. Len(Contents) = 0
      BY <1>1
<1> QED BY <1>2, ContentsType, ChanAssumption DEF HasValue, FieldsType

\* The drained answer stays final: a closed channel accepts nothing, and an
\* empty one has nothing to remove.
LEMMA StepDrained ==
    ASSUME ChanInv, DrainedIsFinal, [Next]_vars
    PROVE  DrainedIsFinal'
<1> USE DEF ChanInv, TypeOK, ControlType
<1>1. CASE UNCHANGED vars
      BY <1>1 DEF DrainedIsFinal, vars, fields, hist
<1>2. ASSUME NEW t \in Threads, SendPublish(t)
      PROVE  DrainedIsFinal'
      BY <1>2 DEF SendPublish, Leave, StillSo, DrainedIsFinal
<1>3. ASSUME NEW t \in Threads, RecvRemove(t)
      PROVE  DrainedIsFinal'
      <2>1. HasValue
            BY <1>3 DEF RecvRemove, StillSo
      <2>2. \A u \in Threads : res[u].kind # "drained"
            BY <2>1, AllTakenMeansEmpty DEF DrainedIsFinal
      <2> QED BY <1>3, <2>2 DEF RecvRemove, Leave, DrainedIsFinal
<1>4. ASSUME NEW t \in Threads, RecvDrained(t)
      PROVE  DrainedIsFinal'
      <2>1. closed /\ taken = sent
            BY <1>4, EmptyMeansAllTaken DEF RecvDrained
      <2> QED BY <1>4, <2>1 DEF RecvDrained, fields, DrainedIsFinal
<1>5. ASSUME NEW t \in Threads,
             \/ \E o \in OpNames, v \in Values : Call(t, o, v)
             \/ Acquire(t) \/ Release(t) \/ SendOnClosed(t) \/ SendFull(t)
             \/ SendStore(t) \/ AwaitTaken(t) \/ RecvLoad(t) \/ RecvEmpty(t)
             \/ CloseBody(t) \/ Bump(t) \/ Retry(t)
      PROVE  DrainedIsFinal'
      <2>1. UNCHANGED <<sent, taken>> /\ (closed => closed')
            BY <1>5 DEF Call, Acquire, Release, SendOnClosed, SendFull, SendStore, Store,
                        AwaitTaken, RecvLoad, RecvEmpty, CloseBody, Bump, Retry, Proceed,
                        fields, hist
      <2>2. \A u \in Threads : res'[u] = res[u] \/ res'[u].kind # "drained"
            BY <1>5 DEF Call, Acquire, Release, SendOnClosed, SendFull, SendStore, Store,
                        AwaitTaken, RecvLoad, RecvEmpty, CloseBody, Bump, Retry, Proceed,
                        Leave
      <2> QED BY <2>1, <2>2 DEF DrainedIsFinal
<1> QED BY <1>1, <1>2, <1>3, <1>4, <1>5 DEF Next, Step, Crit

\* The closed-and-drained answer is final for any number of receivers: all
\* accepted values were received and none will be accepted.
THEOREM ChanDrained == Spec => []DrainedIsFinal
<1>1. Init => DrainedIsFinal
      BY DEF Init, DrainedIsFinal
<1>2. ChanInv /\ DrainedIsFinal /\ [Next]_vars => DrainedIsFinal'
      BY StepDrained
<1> QED BY <1>1, <1>2, ChanInvariant, PTL DEF Spec

\* A thread that waits for its rendezvous value only looks at the slot; when
\* it is on its way out with the slot seen empty, its own value was taken.
AwaitOK(t) ==
    /\ ticket[t] <= Len(sent)
    /\ op[t] = "await" =>
         /\ Cap = 0
         /\ pc[t] \notin {"publish", "remove", "bump"}
         /\ pc[t] = "release" => next[t] \in {"idle", "block"}
         /\ pc[t] = "idle" \/ (pc[t] = "release" /\ next[t] = "idle") => Delivered(t)

RendezvousInv == \A t \in Threads : AwaitOK(t)

\* Delivery is never undone, since the two histories only grow.
LEMMA HistoriesGrow ==
    ASSUME ChanInv, [Next]_vars
    PROVE  Len(sent) <= Len(sent)' /\ Len(taken) <= Len(taken)'
<1> USE DEF ChanInv, TypeOK, HistoryType
<1>1. CASE UNCHANGED <<sent, taken>>
      BY <1>1
<1>2. ASSUME NEW t \in Threads, SendPublish(t)
      PROVE  Len(sent)' = Len(sent) + 1 /\ taken' = taken
      BY <1>2 DEF SendPublish, ControlType
<1>3. ASSUME NEW t \in Threads, RecvRemove(t)
      PROVE  Len(taken)' = Len(taken) + 1 /\ sent' = sent
      BY <1>3 DEF RecvRemove, ControlType
<1>4. ASSUME NEW t \in Threads,
             \/ \E o \in OpNames, v \in Values : Call(t, o, v)
             \/ Acquire(t) \/ Release(t) \/ SendOnClosed(t) \/ SendFull(t)
             \/ SendStore(t) \/ AwaitTaken(t) \/ RecvLoad(t) \/ RecvDrained(t)
             \/ RecvEmpty(t) \/ CloseBody(t) \/ Bump(t) \/ Retry(t)
      PROVE  UNCHANGED <<sent, taken>>
      BY <1>4 DEF Call, Acquire, Release, SendOnClosed, SendFull, SendStore, Store,
                  AwaitTaken, RecvLoad, RecvDrained, RecvEmpty, CloseBody, Bump,
                  Retry, Proceed, hist
<1>5. CASE UNCHANGED vars
      BY <1>1, <1>5 DEF vars, hist
<1> QED BY <1>1, <1>2, <1>3, <1>4, <1>5 DEF Next, Step, Crit

\* A step of one thread leaves what another one waits for as it was, or
\* better.
LEMMA StepRendezvous ==
    ASSUME ChanInv, RendezvousInv, [Next]_vars
    PROVE  RendezvousInv'
<1> USE DEF ChanInv, TypeOK, ControlType, HistoryType
<1>1. Len(sent) <= Len(sent)' /\ Len(taken) <= Len(taken)'
      BY HistoriesGrow
<1>2. Len(sent) \in Nat /\ Len(taken) \in Nat /\ Len(sent)' \in Nat /\ Len(taken)' \in Nat
      <2>1. TypeOK'
            BY StepChanInv DEF ChanInv
      <2> QED BY <2>1
<1>3. ASSUME NEW u \in Threads,
             UNCHANGED <<op[u], pc[u], next[u], ticket[u]>>
      PROVE  AwaitOK(u)'
      BY <1>1, <1>2, <1>3 DEF RendezvousInv, AwaitOK, Delivered
<1>4. CASE UNCHANGED vars
      BY <1>3, <1>4 DEF RendezvousInv, vars, local, hist
<1>5. ASSUME NEW t \in Threads,
             (\E o \in OpNames, v \in Values : Call(t, o, v)) \/ Step(t)
      PROVE  RendezvousInv'
      <2>1. \A u \in Threads \ {t} : UNCHANGED <<op[u], pc[u], next[u], ticket[u]>>
            BY <1>5 DEF Call, Step, Crit, Acquire, Release, SendOnClosed, SendFull,
                        SendStore, Store, SendPublish, AwaitTaken, RecvLoad, RecvRemove,
                        RecvDrained, RecvEmpty, CloseBody, Bump, Retry, Leave, Proceed,
                        local, hist
      <2>2. AwaitOK(t)
            BY DEF RendezvousInv
      <2>3. CASE AwaitTaken(t)
            <3>1. CASE waiting
                  <4>1. next'[t] = "block" /\ pc'[t] = "release"
                        BY <2>3, <3>1 DEF AwaitTaken, Leave
                  <4>2. UNCHANGED <<op[t], ticket[t], sent>> /\ pc[t] \notin {"publish", "remove", "bump"}
                        BY <2>3 DEF AwaitTaken, Leave, InCrit, local, hist
                  <4>3. AwaitOK(t)'
                        BY <2>2, <4>1, <4>2 DEF AwaitOK
                  <4> QED BY <1>3, <2>1, <4>3 DEF RendezvousInv
            <3>2. CASE ~waiting
                  <4>1. Cap = 0
                        BY <2>2, <2>3 DEF AwaitTaken, InCrit, AwaitOK
                  <4>2. taken = sent
                        BY <3>2, <4>1, EmptyMeansAllTaken DEF HasValue
                  <4>3. Delivered(t)'
                        BY <2>2, <2>3, <4>2 DEF AwaitTaken, Delivered, AwaitOK
                  <4>4. /\ UNCHANGED <<op[t], ticket[t], sent>>
                        /\ pc'[t] = "release" /\ next'[t] = "idle"
                        BY <2>3, <3>2 DEF AwaitTaken, Leave, InCrit, local
                  <4>5. AwaitOK(t)'
                        BY <2>2, <4>1, <4>3, <4>4 DEF AwaitOK
                  <4> QED BY <1>3, <2>1, <4>5 DEF RendezvousInv
            <3> QED BY <3>1, <3>2
      <2>4. CASE SendPublish(t)
            <3>1. ticket'[t] = Len(sent) + 1 /\ Len(sent)' = Len(sent) + 1
                  BY <2>4 DEF SendPublish
            <3>2. op'[t] # "await"
                  BY <2>2, <2>4 DEF SendPublish, Leave, local, AwaitOK
            <3> QED BY <1>2, <1>3, <2>1, <3>1, <3>2 DEF RendezvousInv, AwaitOK
      <2>5. CASE Bump(t)
            <3>1. ticket'[t] = ticket[t]
                  BY <2>5 DEF Bump, hist
            <3>2. op'[t] = "await" => Cap = 0 /\ pc'[t] = "acquire"
                  <4>1. CASE Cap = 0 /\ op[t] = "send"
                        BY <2>5, <4>1 DEF Bump
                  <4>2. CASE ~(Cap = 0 /\ op[t] = "send")
                        <5>1. pc[t] = "bump" /\ op' = op
                              BY <2>5, <4>2 DEF Bump
                        <5> QED BY <2>2, <5>1 DEF AwaitOK
                  <4> QED BY <4>1, <4>2
            <3>3. ticket[t]' <= Len(sent)'
                  BY <1>1, <1>2, <2>2, <3>1 DEF AwaitOK
            <3>4. AwaitOK(t)'
                  BY <3>2, <3>3 DEF AwaitOK
            <3> QED BY <1>3, <2>1, <3>4 DEF RendezvousInv
      <2>6. CASE \E o \in OpNames, v \in Values : Call(t, o, v)
            <3>1. ticket'[t] = ticket[t] /\ op'[t] # "await"
                  BY <2>6 DEF Call
            <3> QED BY <1>1, <1>2, <1>3, <2>1, <2>2, <3>1 DEF RendezvousInv, AwaitOK
      <2>7. CASE Acquire(t) \/ Retry(t) \/ Release(t)
            <3>1. UNCHANGED <<op[t], ticket[t], next[t], taken>>
                  BY <2>7 DEF Acquire, Retry, Release, local, hist
            <3>2. \/ pc'[t] \in {"crit", "acquire"}
                  \/ pc[t] = "release" /\ pc'[t] = IF next[t] = "exit" THEN "idle" ELSE next[t]
                  BY <2>7 DEF Acquire, Retry, Release
            <3> QED BY <1>1, <1>2, <1>3, <2>1, <2>2, <3>1, <3>2
                    DEF RendezvousInv, AwaitOK, Delivered
      <2>8. CASE \/ SendOnClosed(t) \/ SendFull(t) \/ SendStore(t) \/ RecvLoad(t)
                 \/ RecvRemove(t) \/ RecvDrained(t) \/ RecvEmpty(t) \/ CloseBody(t)
            <3>1. ticket'[t] = ticket[t] /\ op'[t] # "await"
                  BY <2>2, <2>8 DEF SendOnClosed, SendFull, SendStore, Store, RecvLoad,
                        RecvRemove, RecvDrained, RecvEmpty, CloseBody, InCrit, Leave,
                        Proceed, local, hist, AwaitOK
            <3> QED BY <1>1, <1>2, <1>3, <2>1, <2>2, <3>1 DEF RendezvousInv, AwaitOK
      <2> QED BY <1>5, <2>3, <2>4, <2>5, <2>6, <2>7, <2>8 DEF Step, Crit
<1> QED BY <1>4, <1>5 DEF Next

\* A rendezvous send that returns has had its own value taken, for any number
\* of senders sharing the slot.
THEOREM ChanRendezvous == Spec => []RendezvousTaken
<1>1. Init => RendezvousInv
      BY DEF Init, RendezvousInv, AwaitOK
<1>2. ChanInv /\ RendezvousInv /\ [Next]_vars => RendezvousInv'
      BY StepRendezvous
<1>3. RendezvousInv => RendezvousTaken
      BY DEF RendezvousInv, AwaitOK, RendezvousTaken
<1> QED BY <1>1, <1>2, <1>3, ChanInvariant, PTL DEF Spec
-------------------------------------------------------------------------------
(* The refinement *)

\* A step of the locked ring is a step of the abstract channel or leaves it
\* alone: publishing is Put, removing is Get, chan_close is Close.
LEMMA StepAbs ==
    ASSUME ChanInv, [Next]_vars
    PROVE  Abs!Next \/ (Contents' = Contents /\ closed' = closed)
<1> USE DEF ChanInv, TypeOK
<1>0. FieldsType'
      BY StepFields
<1>1. ASSUME UNCHANGED <<n, head, waiting>>, UNCHANGED buf
      PROVE  Contents' = Contents
      BY <1>1 DEF Contents, Slot
<1>2. ASSUME NEW t \in Threads, SendStore(t)
      PROVE  Contents' = Contents /\ closed' = closed
      BY <1>2, StoreContents DEF SendStore, Store, Proceed
<1>3. ASSUME NEW t \in Threads, SendPublish(t)
      PROVE  Abs!Next
      <2>1. arg[t] \in Values
            BY DEF ControlType
      <2>2. Contents' = Append(Contents, arg[t]) /\ ~closed /\ ~Full /\ closed' = closed
            BY <1>0, <1>3, <2>1, PublishContents DEF SendPublish, StillSo
      <2>3. Len(Contents) < Alloc
            BY <2>2, ContentsType, ChanAssumption DEF Full, FieldsType, Alloc
      <2> QED BY <2>1, <2>2, <2>3 DEF Abs!Next, Abs!Put
<1>4. ASSUME NEW t \in Threads, RecvRemove(t)
      PROVE  Abs!Next
      <2>1. Contents # << >> /\ Contents' = Tail(Contents)
            BY <1>0, <1>4, RemoveContents DEF RecvRemove, StillSo
      <2> QED BY <1>4, <2>1 DEF RecvRemove, Abs!Next, Abs!Get
<1>5. ASSUME NEW t \in Threads, CloseBody(t)
      PROVE  Abs!Next
      BY <1>1, <1>5 DEF CloseBody, Abs!Next, Abs!Close
<1>6. ASSUME NEW t \in Threads,
             \/ \E o \in OpNames, v \in Values : Call(t, o, v)
             \/ Acquire(t) \/ Release(t) \/ SendOnClosed(t) \/ SendFull(t)
             \/ AwaitTaken(t) \/ RecvLoad(t) \/ RecvDrained(t) \/ RecvEmpty(t)
             \/ Bump(t) \/ Retry(t)
      PROVE  UNCHANGED <<n, head, waiting, closed>> /\ UNCHANGED buf
      BY <1>6 DEF Call, Acquire, Release, SendOnClosed, SendFull, AwaitTaken,
                  RecvLoad, RecvDrained, RecvEmpty, Bump, Retry, Proceed, fields
<1>7. CASE UNCHANGED vars
      BY <1>1, <1>7 DEF vars, fields
<1> QED BY <1>1, <1>2, <1>3, <1>4, <1>5, <1>6, <1>7 DEF Next, Step, Crit

\* The ring buffer behind its spinlock implements the abstract channel.
THEOREM ChanRefinement == Spec => AbsSpec
<1>1. Init => Abs!Init
      BY ChanAssumption DEF Init, Contents, Abs!Init
<1>2. ChanInv /\ [Next]_vars => [Abs!Next]_<<Contents, closed>>
      BY StepAbs
<1> QED BY <1>1, <1>2, ChanInvariant, PTL DEF Spec, AbsSpec, Abs!Spec
-------------------------------------------------------------------------------
(* The epoch *)

\* A thread that still has to count its change, and one that has called
\* chan_close and not yet set the flag.
Owes(t)   == pc[t] = "bump" \/ (pc[t] = "release" /\ next[t] = "bump")
Closes(t) == op[t] = "close" /\ pc[t] \in {"acquire", "crit"}
Closing   == {t \in Threads : Closes(t)}

\* chan_close never waits in chan_block.
NoCloseWaits ==
    \A t \in Threads :
        pc[t] = "block" \/ (pc[t] = "release" /\ next[t] = "block") => op[t] # "close"

EpochInv == IsFiniteSet(Owing) /\ IsFiniteSet(Closing) /\ NoCloseWaits /\ EpochAccounts

One(b) == IF b THEN 1 ELSE 0

\* Sets that differ in one member at most.
LEMMA OneApart ==
    ASSUME NEW S, IsFiniteSet(S), NEW S2, NEW t, \A u : u # t => (u \in S2 <=> u \in S)
    PROVE  /\ IsFiniteSet(S2) /\ Cardinality(S) \in Nat
           /\ Cardinality(S2) = Cardinality(S) + One(t \in S2) - One(t \in S)
<1>1. Cardinality(S) \in Nat
      BY FS_CardinalityType
<1>2. CASE t \in S2
      <2>1. S2 = S \cup {t}
            BY <1>2
      <2> QED BY <1>1, <1>2, <2>1, FS_AddElement DEF One
<1>3. CASE t \notin S2
      <2>1. S2 = S \ {t}
            BY <1>3
      <2> QED BY <1>1, <1>3, <2>1, FS_RemoveElement DEF One
<1> QED BY <1>2, <1>3

\* Only one thread has moved.
OnlyOne(t) == \A u \in Threads : u # t =>
                  pc'[u] = pc[u] /\ op'[u] = op[u] /\ next'[u] = next[u]

\* What was counted, in one step of one thread.
Counts(t) ==
    epoch' + One(Owes(t)') - One(Owes(t)) - epoch
        = Len(sent') + Len(taken') - Len(sent) - Len(taken)
          + (calls'.closes - calls.closes) - One(Closes(t)') + One(Closes(t))

\* The books stay balanced if the step's own are.
LEMMA Balanced ==
    ASSUME TypeOK, TypeOK', EpochInv, NEW t \in Threads, OnlyOne(t), Counts(t),
           pc'[t] = "block" \/ (pc'[t] = "release" /\ next'[t] = "block") => op'[t] # "close"
    PROVE  EpochInv'
<1>1. /\ IsFiniteSet(Owing') /\ Cardinality(Owing) \in Nat
      /\ Cardinality(Owing') = Cardinality(Owing) + One(Owes(t)') - One(Owes(t))
      <2>1. \A u : u # t => (u \in Owing' <=> u \in Owing)
            BY DEF Owing, OnlyOne
      <2>2. (t \in Owing <=> Owes(t)) /\ (t \in Owing' <=> Owes(t)')
            BY DEF Owing, Owes
      <2>3. /\ IsFiniteSet(Owing') /\ Cardinality(Owing) \in Nat
            /\ Cardinality(Owing') = Cardinality(Owing) + One(t \in Owing') - One(t \in Owing)
            BY <2>1, OneApart DEF EpochInv
      <2> QED BY <2>2, <2>3 DEF One
<1>2. /\ IsFiniteSet(Closing') /\ Cardinality(Closing) \in Nat
      /\ Cardinality(Closing') = Cardinality(Closing) + One(Closes(t)') - One(Closes(t))
      <2>1. \A u : u # t => (u \in Closing' <=> u \in Closing)
            BY DEF Closing, Closes, OnlyOne
      <2>2. (t \in Closing <=> Closes(t)) /\ (t \in Closing' <=> Closes(t)')
            BY DEF Closing
      <2>3. /\ IsFiniteSet(Closing') /\ Cardinality(Closing) \in Nat
            /\ Cardinality(Closing') = Cardinality(Closing) + One(t \in Closing') - One(t \in Closing)
            BY <2>1, OneApart DEF EpochInv
      <2> QED BY <2>2, <2>3 DEF One
<1>3. NoCloseWaits'
      BY DEF EpochInv, NoCloseWaits, OnlyOne
<1>4. EpochAccounts'
      <2>1. /\ ClosesDone = calls.closes - Cardinality(Closing)
            /\ ClosesDone' = calls'.closes - Cardinality(Closing')
            BY DEF ClosesDone, Closing, Closes
      <2>2. /\ epoch \in Nat /\ epoch' \in Nat /\ calls.closes \in Nat /\ calls'.closes \in Nat
            /\ Len(sent) \in Nat /\ Len(sent') \in Nat /\ Len(taken) \in Nat /\ Len(taken') \in Nat
            BY DEF TypeOK, ControlType, HistoryType
      <2>3. \A b : One(b) \in Nat
            BY DEF One
      <2>4. epoch + Cardinality(Owing) = Len(sent) + Len(taken) + ClosesDone
            BY DEF EpochInv, EpochAccounts
      <2>5. epoch' + Cardinality(Owing') = Len(sent') + Len(taken') + ClosesDone'
            <3>1. PICK a, b, c, d : /\ a = One(Owes(t)) /\ b = One(Owes(t)')
                                     /\ c = One(Closes(t)) /\ d = One(Closes(t)')
                  OBVIOUS
            <3>2. a \in Nat /\ b \in Nat /\ c \in Nat /\ d \in Nat
                  BY <2>3, <3>1
            <3>3. /\ Cardinality(Owing') = Cardinality(Owing) + b - a
                  /\ Cardinality(Closing') = Cardinality(Closing) + d - c
                  BY <1>1, <1>2, <3>1
            <3>4. epoch' + b - a - epoch = Len(sent') + Len(taken') - Len(sent) - Len(taken)
                                           + (calls'.closes - calls.closes) - d + c
                  BY <3>1 DEF Counts
            <3>5. PICK e, e2, o, o2, g, g2, s, s2, m, m2, k, k2 :
                     /\ e = epoch /\ e2 = epoch' /\ k = calls.closes /\ k2 = calls'.closes
                     /\ o = Cardinality(Owing) /\ o2 = Cardinality(Owing')
                     /\ g = Cardinality(Closing) /\ g2 = Cardinality(Closing')
                     /\ s = Len(sent) /\ s2 = Len(sent') /\ m = Len(taken) /\ m2 = Len(taken')
                  OBVIOUS
            <3>6. /\ e \in Nat /\ e2 \in Nat /\ o \in Nat /\ g \in Nat /\ s \in Nat /\ s2 \in Nat
                  /\ m \in Nat /\ m2 \in Nat /\ k \in Nat /\ k2 \in Nat
                  BY <1>1, <1>2, <2>2, <3>5
            <3>7. /\ o2 = o + b - a /\ g2 = g + d - c
                  /\ e2 + b - a - e = s2 + m2 - s - m + (k2 - k) - d + c
                  /\ e + o = s + m + (k - g)
                  BY <2>1, <2>4, <3>3, <3>4, <3>5
            <3>8. e2 + o2 = s2 + m2 + (k2 - g2)
                  BY ONLY <3>2, <3>6, <3>7
            <3> QED BY <2>1, <3>5, <3>8
      <2> QED BY <2>5 DEF EpochAccounts
<1> QED BY <1>1, <1>2, <1>3, <1>4 DEF EpochInv

\* Each change is counted once, after the lock is given back.
LEMMA StepEpoch ==
    ASSUME ChanInv, TypeOK', EpochInv, [Next]_vars
    PROVE  EpochInv'
<1> USE DEF One
<1>1. TypeOK /\ pc \in [Threads -> PC] /\ next \in [Threads -> {"idle", "bump", "block", "exit"}]
      /\ op \in [Threads -> OpNames \cup {"await"}] /\ epoch \in Nat
      /\ calls \in [sends : Nat, closes : Nat] /\ sent \in Seq(Values) /\ taken \in Seq(Values)
      BY DEF ChanInv, TypeOK, ControlType, HistoryType
<1>2. CASE UNCHANGED vars
      BY <1>2 DEF vars, local, hist, EpochInv, Owing, Closing, Closes, NoCloseWaits, EpochAccounts,
                  ClosesDone
<1>3. ASSUME NEW t \in Threads, NEW o \in OpNames, NEW v \in Values, Call(t, o, v)
      PROVE  EpochInv'
      <2>1. /\ OnlyOne(t) /\ pc[t] = "idle" /\ pc'[t] = "acquire" /\ op'[t] = o
            /\ UNCHANGED <<epoch, sent, taken>>
            BY <1>1, <1>3 DEF Call, OnlyOne
      <2>2. calls'.closes = calls.closes + One(o = "close") /\ calls.closes \in Nat
            BY <1>1, <1>3 DEF Call
      <2>3. Counts(t)
            BY <1>1, <2>1, <2>2 DEF Counts, Owes, Closes
      <2> QED BY <1>1, <2>1, <2>3, Balanced
<1>4. ASSUME NEW t \in Threads, Acquire(t) \/ Retry(t)
      PROVE  EpochInv'
      <2>1. /\ OnlyOne(t) /\ UNCHANGED <<epoch, sent, taken, calls, op>>
            /\ \/ pc[t] = "acquire" /\ pc'[t] = "crit"
               \/ pc[t] = "block" /\ pc'[t] = "acquire"
            BY <1>1, <1>4 DEF Acquire, Retry, OnlyOne, local, hist
      <2>2. pc[t] = "block" => op[t] # "close"
            BY DEF EpochInv, NoCloseWaits
      <2>3. Counts(t)
            BY <1>1, <2>1, <2>2 DEF Counts, Owes, Closes
      <2> QED BY <1>1, <2>1, <2>3, Balanced
<1>5. ASSUME NEW t \in Threads, Release(t)
      PROVE  EpochInv'
      <2>1. /\ OnlyOne(t) /\ UNCHANGED <<epoch, sent, taken, calls, op, next>> /\ pc[t] = "release"
            /\ pc'[t] = IF next[t] = "exit" THEN "idle" ELSE next[t]
            BY <1>1, <1>5 DEF Release, OnlyOne, local, hist
      <2>2. next[t] \in {"idle", "bump", "block", "exit"}
            BY <1>1
      <2>3. Counts(t)
            BY <1>1, <2>1, <2>2 DEF Counts, Owes, Closes
      <2>4. pc'[t] = "block" => op'[t] # "close"
            BY <2>1, <2>2 DEF EpochInv, NoCloseWaits
      <2> QED BY <1>1, <2>1, <2>2, <2>3, <2>4, Balanced
<1>6. ASSUME NEW t \in Threads, Bump(t)
      PROVE  EpochInv'
      <2>1. /\ OnlyOne(t) /\ UNCHANGED <<sent, taken, calls>> /\ pc[t] = "bump" /\ epoch' = epoch + 1
            /\ \/ pc'[t] = "acquire" /\ op'[t] = "await"
               \/ pc'[t] = "idle"
            BY <1>1, <1>6 DEF Bump, OnlyOne, hist
      <2>2. Counts(t)
            BY <1>1, <2>1 DEF Counts, Owes, Closes
      <2> QED BY <1>1, <2>1, <2>2, Balanced
<1>7. ASSUME NEW t \in Threads,
             \/ SendOnClosed(t) \/ SendFull(t) \/ SendStore(t) \/ AwaitTaken(t)
             \/ RecvLoad(t) \/ RecvDrained(t) \/ RecvEmpty(t)
      PROVE  EpochInv'
      <2>1. /\ OnlyOne(t) /\ UNCHANGED <<epoch, sent, taken, calls, op>> /\ pc[t] = "crit"
            /\ op[t] # "close"
            /\ \/ pc'[t] = "release" /\ next'[t] \in {"idle", "block", "exit"}
               \/ pc'[t] \in {"publish", "remove"}
            <3>1. pc[t] = "crit" /\ op[t] # "close"
                  BY <1>7 DEF SendOnClosed, SendFull, SendStore, AwaitTaken, RecvLoad, RecvDrained,
                              RecvEmpty, InCrit
            <3>2. CASE SendStore(t) \/ RecvLoad(t)
                  BY <1>1, <3>1, <3>2 DEF SendStore, RecvLoad, Store, Proceed, OnlyOne, hist
            <3>3. CASE SendOnClosed(t) \/ SendFull(t) \/ AwaitTaken(t) \/ RecvDrained(t) \/ RecvEmpty(t)
                  <4>1. UNCHANGED <<sent, taken>>
                        /\ \E to \in {"idle", "block", "exit"} : \E kind, val : Leave(t, to, kind, val)
                        BY <3>3 DEF SendOnClosed, SendFull, AwaitTaken, RecvDrained, RecvEmpty
                  <4> QED BY <1>1, <3>1, <4>1 DEF Leave, OnlyOne, local
            <3> QED BY <1>7, <3>2, <3>3
      <2>2. Counts(t)
            BY <1>1, <2>1 DEF Counts, Owes, Closes
      <2> QED BY <1>1, <2>1, <2>2, Balanced
<1>8. ASSUME NEW t \in Threads, SendPublish(t) \/ RecvRemove(t)
      PROVE  EpochInv'
      <2>1. /\ OnlyOne(t) /\ UNCHANGED <<epoch, calls, op>> /\ pc[t] \in {"publish", "remove"}
            /\ pc'[t] = "release" /\ next'[t] = "bump"
            BY <1>1, <1>8 DEF SendPublish, RecvRemove, Leave, OnlyOne, local
      <2>2. \/ Len(sent') = Len(sent) + 1 /\ taken' = taken
            \/ Len(taken') = Len(taken) + 1 /\ sent' = sent
            BY <1>1, <1>8 DEF SendPublish, RecvRemove, ChanInv, TypeOK, ControlType
      <2>3. Counts(t)
            BY <1>1, <2>1, <2>2 DEF Counts, Owes, Closes
      <2> QED BY <1>1, <2>1, <2>3, Balanced
<1>9. ASSUME NEW t \in Threads, CloseBody(t)
      PROVE  EpochInv'
      <2>1. /\ OnlyOne(t) /\ UNCHANGED <<epoch, sent, taken, calls, op>> /\ pc[t] = "crit"
            /\ op[t] = "close" /\ pc'[t] = "release" /\ next'[t] = "bump"
            BY <1>1, <1>9 DEF CloseBody, Leave, InCrit, OnlyOne, local
      <2>2. Counts(t)
            BY <1>1, <2>1 DEF Counts, Owes, Closes
      <2> QED BY <1>1, <2>1, <2>2, Balanced
<1> QED BY <1>2, <1>3, <1>4, <1>5, <1>6, <1>7, <1>8, <1>9 DEF Next, Step, Crit

\* However many threads there are, the epoch counts every send, receive and
\* close exactly once, late by those between their unlock and atomic_add.
THEOREM ChanEpoch == Spec => []EpochAccounts
<1>1. Init => EpochInv
      <2> SUFFICES ASSUME Init PROVE EpochInv
          OBVIOUS
      <2>1. Owing = {} /\ Closing = {} /\ NoCloseWaits
            BY DEF Init, Owing, Closing, Closes, NoCloseWaits
      <2>2. ClosesDone = calls.closes - Cardinality(Closing)
            BY DEF ClosesDone, Closing, Closes
      <2>3. Cardinality({}) = 0 /\ IsFiniteSet({})
            BY FS_EmptySet
      <2>4. epoch = 0 /\ Len(sent) = 0 /\ Len(taken) = 0 /\ calls.closes = 0
            BY DEF Init
      <2>5. EpochAccounts
            BY <2>1, <2>2, <2>3, <2>4 DEF EpochAccounts
      <2> QED BY <2>1, <2>3, <2>5 DEF EpochInv
<1>2. ChanInv /\ ChanInv' /\ EpochInv /\ [Next]_vars => EpochInv'
      BY StepEpoch DEF ChanInv
<1> QED BY <1>1, <1>2, ChanInvariant, PTL DEF Spec, EpochInv
===============================================================================
