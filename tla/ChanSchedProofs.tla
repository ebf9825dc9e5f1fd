---------------------------- MODULE ChanSchedProofs ----------------------------
(***************************************************************************)
(* Proofs about ChanSched, for any channels and operations, any table size *)
(* and any number of spawns: the count of blocked contexts is right, and   *)
(* when main only runs the others no deadlock is reported that is none.    *)
(***************************************************************************)
EXTENDS ChanSched, CoroTableProofs

\* Some case of what a context waits for can go through.
CanGo(c) == \E case \in want[c] : Ready(case)

Table == Seq(SlotType(1 .. MaxSpawns))

\* What a context may wait for.
Alternatives == SUBSET Cases

\* TypeOK without the clauses that only hold because of the others.
SchedTypes ==
    /\ coros \in Table /\ Len(coros) < Slots
    /\ cur_coro \in {0} \cup Live(coros)
    /\ \A ch \in Chans : inside[ch] \in 0 .. Alloc(ch) /\ closed[ch] \in BOOLEAN
    /\ inside \in [Chans -> Nat] /\ closed \in [Chans -> BOOLEAN]
    /\ want \in [Contexts -> Alternatives]
    /\ phase \in [Contexts -> {"run", "yield", "blocked", "join"}]
    /\ chan_epoch \in Nat /\ chan_stall_epoch \in Int /\ chan_stall_epoch <= chan_epoch
    /\ dead \in BOOLEAN /\ exited \in BOOLEAN
    /\ born \in Nat /\ waits \in Nat

\* The count is of those suspended in chan_block, and their slots are marked.
Counted ==
    ~dead => /\ chan_nblocked = Cardinality(Blocked)
             /\ \A i \in Live(coros) : coros[i].blocked <=> i \in Blocked

\* The numbers stay below the table's size until the verdict.
Small ==
    /\ chan_nblocked \in 0 .. Slots + 1 /\ chan_stall \in 0 .. Slots + 2
    /\ ~dead => chan_stall <= Slots

\* Who is suspended in chan_block waits for something.
BlockedWant == \A c \in Blocked : want[c] # {}

\* The inductive invariant.
SchedInv == SchedTypes /\ Counted /\ Small /\ BlockedWant
--------------------------------------------------------------------------------
(* Tables and sets of contexts *)

\* Live slots and suspended contexts are few.
LEMMA FewContexts ==
    ASSUME SchedTypes
    PROVE  /\ Live(coros) \subseteq 1 .. Slots - 1 /\ Live(coros) \subseteq Contexts
           /\ IsFiniteSet(Live(coros)) /\ CoroLive(coros) \in 0 .. Slots - 1
           /\ Blocked \subseteq Contexts /\ IsFiniteSet(Blocked)
           /\ Cardinality(Blocked) \in 0 .. Slots
           /\ cur_coro \in Contexts /\ 0 \in Contexts
<1>1. Slots \in Nat \ {0}
      BY SchedAssumption DEF SchedAssumption
<1>2. Live(coros) \subseteq 1 .. Slots - 1
      <2>1. Len(coros) \in Nat /\ Len(coros) < Slots /\ DOMAIN coros = 1 .. Len(coros)
            BY DEF SchedTypes, Table
      <2> QED BY <1>1, <2>1 DEF Live
<1>3. Live(coros) \subseteq Contexts /\ 0 \in Contexts
      BY <1>1, <1>2 DEF Contexts
<1>4. IsFiniteSet(1 .. Slots - 1) /\ Cardinality(1 .. Slots - 1) = Slots - 1
      BY <1>1, FS_Interval
<1>5. IsFiniteSet(Contexts) /\ Cardinality(Contexts) = Slots
      BY <1>1, FS_Interval DEF Contexts
<1>6. IsFiniteSet(Live(coros)) /\ Cardinality(Live(coros)) <= Slots - 1
      BY ZenonT(40), <1>2, <1>4, FS_Subset
<1>7. Blocked \subseteq Contexts
      BY <1>3 DEF Blocked
<1>8. IsFiniteSet(Blocked) /\ Cardinality(Blocked) <= Slots
      BY <1>5, <1>7, FS_Subset
<1>9. Cardinality(Live(coros)) \in Nat /\ Cardinality(Blocked) \in Nat
      BY <1>6, <1>8, FS_CardinalityType
<1>10. cur_coro \in Contexts
       BY <1>3 DEF SchedTypes
<1> QED BY <1>1, <1>2, <1>3, <1>6, <1>7, <1>8, <1>9, <1>10 DEF CoroLive

\* A flag of a slot changes that has no part in what is live.
LEMMA FlagChange ==
    ASSUME NEW tab \in Table, NEW c \in Live(tab), NEW slot, ~slot.done, ~slot.moved,
           NEW tab2 \in Table, Len(tab2) = Len(tab),
           \A j \in 1 .. Len(tab) : tab2[j] = IF j = c THEN slot ELSE tab[j]
    PROVE  /\ Live(tab2) = Live(tab)
           /\ \A i \in Live(tab) : i # c => tab2[i] = tab[i]
<1>1. c \in 1 .. Len(tab) /\ Runnable(tab, c)
      BY DEF Live, Table
<1>2. DOMAIN tab2 = 1 .. Len(tab) /\ DOMAIN tab = 1 .. Len(tab)
      BY DEF Table
<1>3. \A j \in 1 .. Len(tab) : Runnable(tab2, j) <=> Runnable(tab, j)
      BY <1>1 DEF Runnable
<1>4. Live(tab2) = Live(tab)
      BY <1>2, <1>3 DEF Live
<1>5. \A i \in Live(tab) : i # c => tab2[i] = tab[i]
      BY <1>2 DEF Live
<1> QED BY <1>4, <1>5

\* A table with another slot at c.
Put(tab, c, slot) == [tab EXCEPT ![c] = slot]

\* The running coroutine's slot changes, and stays live.
LEMMA OwnFlag ==
    ASSUME NEW tab \in Table, NEW c \in Live(tab), NEW slot \in SlotType(1 .. MaxSpawns),
           ~slot.done, ~slot.moved
    PROVE  /\ Put(tab, c, slot) \in Table /\ Len(Put(tab, c, slot)) = Len(tab)
           /\ Live(Put(tab, c, slot)) = Live(tab) /\ Put(tab, c, slot)[c] = slot
           /\ \A i \in Live(tab) : i # c => Put(tab, c, slot)[i] = tab[i]
<1>1. c \in 1 .. Len(tab)
      BY DEF Live, Table
<1>2. PICK tab2 : tab2 = Put(tab, c, slot)
      OBVIOUS
<1>3. /\ tab2 \in Table /\ Len(tab2) = Len(tab)
      /\ \A j \in 1 .. Len(tab) : tab2[j] = IF j = c THEN slot ELSE tab[j]
      BY <1>1, <1>2 DEF Table, Put
<1>4. Live(tab2) = Live(tab) /\ \A i \in Live(tab) : i # c => tab2[i] = tab[i]
      BY ONLY <1>3, FlagChange, tab \in Table, c \in Live(tab), ~slot.done, ~slot.moved
<1>5. tab2[c] = slot
      BY <1>1, <1>3
<1> QED BY <1>2, <1>3, <1>4, <1>5

\* The running coroutine has a typed slot.
LEMMA RunningSlot ==
    ASSUME SchedTypes, cur_coro # 0
    PROVE  /\ cur_coro \in Live(coros) /\ cur_coro \in 1 .. Len(coros)
           /\ coros[cur_coro] \in SlotType(1 .. MaxSpawns)
           /\ ~coros[cur_coro].done /\ ~coros[cur_coro].moved
<1>1. cur_coro \in Live(coros) /\ coros \in Seq(SlotType(1 .. MaxSpawns))
      BY DEF SchedTypes, Table
<1>2. cur_coro \in 1 .. Len(coros) /\ Runnable(coros, cur_coro)
      BY <1>1 DEF Live
<1> QED BY <1>1, <1>2 DEF Runnable

\* chan_block marks its context's slot, before and after the switch.
LEMMA BlockedSet ==
    ASSUME SchedTypes, NEW b \in BOOLEAN, SetBlocked(b)
    PROVE  /\ coros' \in Table /\ Len(coros') = Len(coros) /\ Live(coros') = Live(coros)
           /\ \A i \in Live(coros) : i # cur_coro => coros'[i].blocked = coros[i].blocked
           /\ cur_coro # 0 => coros'[cur_coro].blocked = b
<1>1. CASE cur_coro = 0
      BY <1>1 DEF SetBlocked, SchedTypes
<1>2. CASE cur_coro # 0
      <2>1. PICK slot : slot = [coros[cur_coro] EXCEPT !.blocked = b]
            OBVIOUS
      <2>2. slot \in SlotType(1 .. MaxSpawns) /\ slot.blocked = b /\ ~slot.done /\ ~slot.moved
            BY <1>2, <2>1, RunningSlot DEF SlotType
      <2>3. coros' = Put(coros, cur_coro, slot)
            BY <1>2, <2>1 DEF SetBlocked, Put
      <2>4. cur_coro \in Live(coros) /\ coros \in Table
            BY <1>2, RunningSlot DEF SchedTypes
      <2> QED BY <2>2, <2>3, <2>4, OwnFlag
<1> QED BY <1>1, <1>2
--------------------------------------------------------------------------------
(* The count of those suspended in chan_block *)

\* Who is in user code, or tries, is not suspended.
LEMMA RunsUnblocked ==
    ASSUME InUser \/ Trying
    PROVE  Running /\ cur_coro \notin Blocked /\ phase[cur_coro] = "run" /\ ~dead
BY DEF InUser, Trying, Blocked, Running

\* A step after which the same contexts are suspended.
LEMMA CountKept ==
    ASSUME SchedInv, Blocked' = Blocked, UNCHANGED <<stall, dead>>,
           \A i \in Live(coros)' : coros'[i].blocked <=> i \in Blocked,
           \A c \in Blocked : want'[c] = want[c]
    PROVE  Counted' /\ Small' /\ BlockedWant'
<1>1. Counted'
      BY DEF SchedInv, Counted, stall
<1>2. Small'
      BY DEF SchedInv, Small, stall
<1>3. BlockedWant'
      BY DEF SchedInv, BlockedWant
<1> QED BY <1>1, <1>2, <1>3

\* The channels' counts as one function.
LEMMA Filled ==
    ASSUME SchedTypes, NEW ch \in Chans
    PROVE  /\ inside[ch] \in Nat /\ inside[ch] <= Alloc(ch) /\ Alloc(ch) \in Nat \ {0}
<1>1. Room[ch] \in Nat
      BY SchedAssumption DEF SchedAssumption
<1>2. Alloc(ch) \in Nat \ {0}
      BY <1>1 DEF Alloc
<1> QED BY <1>2 DEF SchedTypes

\* A channel operation begins.
LEMMA StartKeeps ==
    ASSUME SchedInv, NEW cases \in Work \cup MainWork, Start(cases)
    PROVE  SchedInv'
<1>1. /\ UNCHANGED <<coros, cur_coro, inside, closed, phase, chan_epoch, chan_nblocked, chan_stall,
                     chan_stall_epoch, dead, exited, born>>
      /\ want' = [want EXCEPT ![cur_coro] = cases] /\ waits' = waits + 1
      BY DEF Start, chans, stall, ends
<1>2. /\ SchedTypes /\ ~dead /\ cur_coro \notin Blocked
      BY RunsUnblocked DEF Start, SchedInv
<1>3. cases \in Alternatives
      BY SchedAssumption DEF SchedAssumption, Alternatives
<1>4. SchedTypes'
      <2>1. want' \in [Contexts -> Alternatives]
            <3>1. want \in [Contexts -> Alternatives]
                  BY <1>2 DEF SchedTypes
            <3> QED BY <1>1, <1>3, <3>1
      <2>2. waits' \in Nat
            BY <1>1, <1>2 DEF SchedTypes
      <2>3. Live(coros)' = Live(coros)
            BY <1>1
      <2> QED BY <1>1, <1>2, <2>1, <2>2, <2>3 DEF SchedTypes
<1>5. Blocked' = Blocked
      BY <1>1 DEF Blocked
<1>6. \A c \in Blocked : want'[c] = want[c]
      BY <1>1, <1>2, FewContexts DEF SchedTypes
<1>7. \A i \in Live(coros)' : coros'[i].blocked <=> i \in Blocked
      BY <1>1, <1>2 DEF SchedInv, Counted
<1> QED BY <1>1, <1>4, <1>5, <1>6, <1>7, CountKept DEF SchedInv, stall

\* What a case that goes through does to its channel and the epoch.
LEMMA PerformMoves ==
    ASSUME SchedTypes, NEW case \in Cases, Perform(case)
    PROVE  \E d \in {-1, 0, 1} :
             /\ case[2] \in Chans /\ inside' = [inside EXCEPT ![case[2]] = @ + d]
             /\ inside[case[2]] + d \in 0 .. Alloc(case[2])
             /\ chan_epoch' = IF d = 0 THEN chan_epoch ELSE chan_epoch + 1
             /\ \E new \in Alternatives : want' = [want EXCEPT ![cur_coro] = new]
<1> DEFINE ch == case[2]
           d  == CASE case[1] = "send" /\ ~closed[ch]    -> 1
                   [] case[1] = "recv" /\ inside[ch] > 0 -> -1
                   [] OTHER                              -> 0
           new == IF d = 1 /\ Room[ch] = 0 /\ want[cur_coro] = {case} THEN {<<"taken", ch>>} ELSE {}
<1>1. ch \in Chans /\ case[1] \in {"send", "recv", "taken"}
      BY DEF Cases
<1>2. inside[ch] \in Nat /\ inside[ch] <= Alloc(ch) /\ Alloc(ch) \in Nat \ {0}
      BY <1>1, Filled
<1>3. d \in {-1, 0, 1}
      BY <1>1
<1>4. inside[ch] + d \in 0 .. Alloc(ch)
      <2>1. CASE case[1] = "send" /\ ~closed[ch]
            <3>1. inside[ch] < Alloc(ch) /\ d = 1
                  BY <2>1 DEF Perform, Ready
            <3> QED BY <1>2, <3>1
      <2>2. CASE case[1] = "recv" /\ inside[ch] > 0
            <3>1. d = -1
                  BY <2>2
            <3> QED BY <1>2, <2>2, <3>1
      <2>3. CASE ~ (case[1] = "send" /\ ~closed[ch]) /\ ~ (case[1] = "recv" /\ inside[ch] > 0)
            <3>1. d = 0
                  BY <2>3
            <3> QED BY <1>2, <3>1
      <2> QED BY <2>1, <2>2, <2>3
<1>5. new \in Alternatives
      BY <1>1 DEF Cases, Alternatives
<1>6. /\ inside' = [inside EXCEPT ![ch] = @ + d]
      /\ chan_epoch' = (IF d = 0 THEN chan_epoch ELSE chan_epoch + 1)
      /\ want' = [want EXCEPT ![cur_coro] = new]
      BY DEF Perform
<1> HIDE DEF d, new
<1> QED BY <1>1, <1>3, <1>4, <1>5, <1>6

\* A case goes through.
LEMMA PerformKeeps ==
    ASSUME SchedInv, NEW case \in Cases, Perform(case)
    PROVE  SchedInv'
<1>1. /\ UNCHANGED <<coros, cur_coro, closed, phase, chan_nblocked, chan_stall,
                     chan_stall_epoch, dead, born, waits>>
      /\ exited' \in BOOLEAN
      BY DEF Perform, stall, hist
<1>2. SchedTypes /\ ~dead /\ cur_coro \notin Blocked
      BY RunsUnblocked DEF Perform, SchedInv
<1>3. PICK d \in {-1, 0, 1} :
         /\ case[2] \in Chans /\ inside' = [inside EXCEPT ![case[2]] = @ + d]
         /\ inside[case[2]] + d \in 0 .. Alloc(case[2])
         /\ chan_epoch' = IF d = 0 THEN chan_epoch ELSE chan_epoch + 1
         /\ \E new \in Alternatives : want' = [want EXCEPT ![cur_coro] = new]
      BY <1>2, PerformMoves
<1>4. PICK new \in Alternatives : want' = [want EXCEPT ![cur_coro] = new]
      BY <1>3
<1>5. want' \in [Contexts -> Alternatives] /\ \A c \in Contexts : c # cur_coro => want'[c] = want[c]
      <2>1. want \in [Contexts -> Alternatives]
            BY <1>2 DEF SchedTypes
      <2> QED BY <1>4, <2>1
<1>6. /\ inside' \in [Chans -> Nat]
      /\ \A ch \in Chans : inside'[ch] \in 0 .. Alloc(ch)
      <2>1. PICK k : k = case[2]
            OBVIOUS
      <2>2. PICK n : n = inside[k] + d
            OBVIOUS
      <2>3. k \in Chans /\ inside' = [inside EXCEPT ![k] = n] /\ n \in 0 .. Alloc(k)
            BY <1>3, <2>1, <2>2
      <2>4. inside \in [Chans -> Nat] /\ \A ch \in Chans : inside[ch] \in 0 .. Alloc(ch)
            BY <1>2 DEF SchedTypes
      <2>5. n \in Nat
            BY <1>2, <2>3, Filled
      <2> QED BY <2>3, <2>4, <2>5
<1>7. chan_epoch' \in Nat /\ chan_epoch' >= chan_epoch
      BY <1>2, <1>3 DEF SchedTypes
<1>8. SchedTypes'
      <2>1. Live(coros)' = Live(coros)
            BY <1>1
      <2>2. chan_stall_epoch <= chan_epoch'
            BY <1>2, <1>7 DEF SchedTypes
      <2> QED BY <1>1, <1>2, <1>5, <1>6, <1>7, <2>1, <2>2 DEF SchedTypes
<1>9. Blocked' = Blocked
      BY <1>1 DEF Blocked
<1>10. \A c \in Blocked : want'[c] = want[c]
       BY <1>2, <1>5, FewContexts
<1>11. \A i \in Live(coros)' : coros'[i].blocked <=> i \in Blocked
       BY <1>1, <1>2 DEF SchedInv, Counted
<1> QED BY <1>1, <1>8, <1>9, <1>10, <1>11, CountKept DEF SchedInv, stall

\* A channel is closed.
LEMMA CloseKeeps ==
    ASSUME SchedInv, NEW ch \in Chans, Close(ch)
    PROVE  SchedInv'
<1>1. /\ UNCHANGED <<coros, cur_coro, inside, want, phase, chan_nblocked, chan_stall,
                     chan_stall_epoch, dead, exited, born, waits>>
      /\ closed' = [closed EXCEPT ![ch] = TRUE] /\ chan_epoch' = chan_epoch + 1
      BY DEF Close, stall, ends, hist
<1>2. SchedTypes /\ ~dead
      BY RunsUnblocked DEF Close, SchedInv
<1>3. closed' \in [Chans -> BOOLEAN]
      BY <1>1, <1>2 DEF SchedTypes
<1>4. chan_epoch' \in Nat /\ chan_stall_epoch <= chan_epoch'
      BY <1>1, <1>2 DEF SchedTypes
<1>5. SchedTypes'
      <2>1. Live(coros)' = Live(coros)
            BY <1>1
      <2> QED BY <1>1, <1>2, <1>3, <1>4, <2>1 DEF SchedTypes
<1>6. Blocked' = Blocked
      BY <1>1 DEF Blocked
<1>7. \A i \in Live(coros)' : coros'[i].blocked <=> i \in Blocked
      BY <1>1, <1>2 DEF SchedInv, Counted
<1> QED BY <1>1, <1>5, <1>6, <1>7, CountKept DEF SchedInv, stall

\* The phase of the running context changes.
LEMMA PhaseMoves ==
    ASSUME SchedTypes, NEW ph \in {"run", "yield", "blocked", "join"},
           phase' = [phase EXCEPT ![cur_coro] = ph]
    PROVE  /\ phase' \in [Contexts -> {"run", "yield", "blocked", "join"}]
           /\ phase'[cur_coro] = ph /\ \A c \in Contexts : c # cur_coro => phase'[c] = phase[c]
BY FewContexts DEF SchedTypes

\* The context after the running one.
LEMMA NextContext ==
    ASSUME SchedTypes
    PROVE  /\ CoroNext(coros, cur_coro) \in {0} \cup Live(coros)
           /\ CoroNext(coros, cur_coro) # 0 => CoroNext(coros, cur_coro) > cur_coro
<1>1. cur_coro \in Nat
      BY FewContexts, SchedAssumption DEF Contexts, SchedAssumption
<1>2. coros \in Seq(SlotType(1 .. MaxSpawns))
      BY DEF SchedTypes, Table
<1> QED BY <1>1, <1>2, NextIsLive

\* chan_block counts its context in, or dies.
LEMMA BlockKeeps ==
    ASSUME SchedInv, Block
    PROVE  SchedInv'
<1>1. /\ UNCHANGED <<inside, closed, want, chan_epoch, exited, born, waits>>
      /\ chan_nblocked' = chan_nblocked + 1 /\ dead' = Verdict
      /\ chan_stall' = (IF Stalled THEN chan_stall + 1 ELSE IF AllBlocked THEN 1 ELSE chan_stall)
      /\ chan_stall_epoch' = (IF AllBlocked THEN chan_epoch ELSE chan_stall_epoch)
      BY DEF Block, chans, hist
<1>2. SchedTypes /\ ~dead /\ cur_coro \notin Blocked
      BY RunsUnblocked DEF Block, SchedInv
<1>3. /\ chan_nblocked = Cardinality(Blocked)
      /\ \A i \in Live(coros) : coros[i].blocked <=> i \in Blocked
      BY <1>2 DEF SchedInv, Counted
<1>4. chan_nblocked \in 0 .. Slots /\ Slots \in Nat \ {0} /\ CoroLive(coros) \in 0 .. Slots - 1
      BY <1>2, <1>3, FewContexts, SchedAssumption DEF SchedAssumption
<1>5. chan_stall \in 0 .. Slots
      BY <1>2, <1>4 DEF SchedInv, Small
<1>6. chan_stall_epoch' \in Int /\ chan_stall_epoch' <= chan_epoch
      BY <1>1, <1>2 DEF SchedTypes
<1>7. dead' \in BOOLEAN
      BY <1>1 DEF Verdict, Stalled, AllBlocked
<1>8. Small'
      <2>1. chan_nblocked' \in 0 .. Slots + 1
            BY <1>1, <1>4
      <2>2. chan_stall' \in 0 .. Slots + 2
            BY <1>1, <1>4, <1>5
      <2>3. ~dead' => chan_stall' <= Slots
            <3>1. ~Verdict => ~Stalled \/ chan_stall + 1 <= CoroLive(coros) + 1
                  BY <1>4, <1>5 DEF Verdict
            <3> QED BY <1>1, <1>4, <1>5, <3>1
      <2> QED BY <2>1, <2>2, <2>3 DEF Small
<1>9. CASE Verdict
      <2>1. UNCHANGED <<coros, cur_coro, phase>> /\ dead'
            BY <1>1, <1>9 DEF Block
      <2>2. Live(coros)' = Live(coros) /\ Blocked' = Blocked
            BY <2>1 DEF Blocked
      <2>3. SchedTypes'
            BY <1>1, <1>2, <1>6, <1>7, <2>1, <2>2 DEF SchedTypes
      <2>4. Counted'
            BY <2>1 DEF Counted
      <2>5. BlockedWant'
            BY <1>1, <2>2 DEF SchedInv, BlockedWant
      <2> QED BY <1>8, <2>3, <2>4, <2>5 DEF SchedInv
<1>10. CASE ~Verdict
       <2>1. SetBlocked(TRUE) /\ SwitchFrom("blocked")
             BY <1>10 DEF Block
       <2>2. /\ coros' \in Table /\ Len(coros') = Len(coros) /\ Live(coros') = Live(coros)
             /\ \A i \in Live(coros) : i # cur_coro => coros'[i].blocked = coros[i].blocked
             /\ cur_coro # 0 => coros'[cur_coro].blocked = TRUE
             BY <1>2, <2>1, BlockedSet
       <2>3. /\ phase' \in [Contexts -> {"run", "yield", "blocked", "join"}]
             /\ phase'[cur_coro] = "blocked" /\ \A c \in Contexts : c # cur_coro => phase'[c] = phase[c]
             BY <1>2, <2>1, PhaseMoves DEF SwitchFrom
       <2>4. cur_coro' \in {0} \cup Live(coros')
             BY <1>2, <2>1, <2>2, NextContext DEF SwitchFrom
       <2>5. SchedTypes'
             BY <1>1, <1>2, <1>6, <1>7, <2>2, <2>3, <2>4 DEF SchedTypes
       <2>6. Blocked' = Blocked \cup {cur_coro}
             <3>1. {0} \cup Live(coros) \subseteq Contexts
                   BY <1>2, FewContexts
             <3>2. cur_coro \in {0} \cup Live(coros)
                   BY <1>2 DEF SchedTypes
             <3> QED BY <2>2, <2>3, <3>1, <3>2 DEF Blocked
       <2>7. Cardinality(Blocked \cup {cur_coro}) = Cardinality(Blocked) + 1
             BY <1>2, FewContexts, FS_AddElement
       <2>8. Counted'
             <3>1. \A i \in Live(coros) : coros'[i].blocked <=> i \in Blocked \cup {cur_coro}
                   <4> TAKE i \in Live(coros)
                   <4>1. CASE i = cur_coro
                         <5>1. i \in Nat \ {0}
                               BY <1>2, FewContexts
                         <5> QED BY <2>2, <4>1, <5>1
                   <4>2. CASE i # cur_coro
                         BY <1>3, <2>2, <4>2
                   <4> QED BY <4>1, <4>2
             <3> QED BY <1>1, <1>3, <2>2, <2>6, <2>7, <3>1 DEF Counted
       <2>9. BlockedWant'
             BY <1>1, <2>6 DEF SchedInv, BlockedWant, Block, Trying
       <2> QED BY <1>8, <2>5, <2>8, <2>9 DEF SchedInv
<1> QED BY <1>9, <1>10

\* The context switched to is no longer counted.
LEMMA WakeKeeps ==
    ASSUME SchedInv, Wake
    PROVE  SchedInv'
<1>1. /\ UNCHANGED <<cur_coro, inside, closed, want, chan_epoch, chan_stall, chan_stall_epoch,
                     dead, exited, born, waits>>
      /\ phase' = [phase EXCEPT ![cur_coro] = "run"]
      /\ phase[cur_coro] \in {"blocked", "yield"}
      BY DEF Wake, chans, ends, hist
<1>2. SchedTypes /\ ~dead
      BY DEF Wake, SchedInv, Running
<1>3. /\ chan_nblocked = Cardinality(Blocked)
      /\ \A i \in Live(coros) : coros[i].blocked <=> i \in Blocked
      BY <1>2 DEF SchedInv, Counted
<1>4. /\ phase' \in [Contexts -> {"run", "yield", "blocked", "join"}]
      /\ phase'[cur_coro] = "run" /\ \A c \in Contexts : c # cur_coro => phase'[c] = phase[c]
      BY <1>1, <1>2, PhaseMoves
<1>5. {0} \cup Live(coros) \subseteq Contexts /\ cur_coro \in {0} \cup Live(coros)
      BY <1>2, FewContexts DEF SchedTypes
<1>6. CASE phase[cur_coro] = "blocked"
      <2>1. SetBlocked(FALSE) /\ chan_nblocked' = chan_nblocked - 1
            BY <1>6 DEF Wake
      <2>2. /\ coros' \in Table /\ Len(coros') = Len(coros) /\ Live(coros') = Live(coros)
            /\ \A i \in Live(coros) : i # cur_coro => coros'[i].blocked = coros[i].blocked
            /\ cur_coro # 0 => coros'[cur_coro].blocked = FALSE
            BY <1>2, <2>1, BlockedSet
      <2>3. SchedTypes'
            BY <1>1, <1>2, <1>4, <2>2 DEF SchedTypes
      <2>4. Blocked' = Blocked \ {cur_coro} /\ cur_coro \in Blocked
            BY <1>4, <1>5, <1>6, <2>2 DEF Blocked
      <2>5. Cardinality(Blocked \ {cur_coro}) = Cardinality(Blocked) - 1
            BY <1>2, <2>4, FewContexts, FS_RemoveElement
      <2>6. Counted'
            <3>1. \A i \in Live(coros) : coros'[i].blocked <=> i \in Blocked \ {cur_coro}
                  <4> TAKE i \in Live(coros)
                  <4>1. CASE i = cur_coro
                        <5>1. i \in Nat \ {0}
                              BY <1>2, FewContexts
                        <5> QED BY <2>2, <4>1, <5>1
                  <4>2. CASE i # cur_coro
                        BY <1>3, <2>2, <4>2
                  <4> QED BY <4>1, <4>2
            <3> QED BY <1>3, <2>1, <2>2, <2>4, <2>5, <3>1 DEF Counted
      <2>7. Small'
            <3>1. Cardinality(Blocked) \in 0 .. Slots /\ Slots \in Nat
                  BY <1>2, FewContexts, SchedAssumption DEF SchedAssumption
            <3>2. Cardinality(Blocked) - 1 \in Nat
                  BY <1>2, <2>4, <2>5, FewContexts, FS_RemoveElement, FS_CardinalityType
            <3>3. chan_nblocked' \in 0 .. Slots + 1
                  BY <1>3, <2>1, <3>1, <3>2
            <3> QED BY <1>1, <3>3 DEF SchedInv, Small
      <2>8. BlockedWant'
            BY <1>1, <2>4 DEF SchedInv, BlockedWant
      <2> QED BY <2>3, <2>6, <2>7, <2>8 DEF SchedInv
<1>7. CASE phase[cur_coro] # "blocked"
      <2>1. UNCHANGED <<coros, chan_nblocked>>
            BY <1>7 DEF Wake
      <2>2. Live(coros)' = Live(coros)
            BY <2>1
      <2>3. SchedTypes'
            BY <1>1, <1>2, <1>4, <2>1, <2>2 DEF SchedTypes
      <2>4. Blocked' = Blocked
            BY <1>4, <1>5, <1>7, <2>2 DEF Blocked
      <2>5. \A i \in Live(coros)' : coros'[i].blocked <=> i \in Blocked
            BY <1>3, <2>1
      <2> QED BY <1>1, <2>1, <2>3, <2>4, <2>5, CountKept DEF SchedInv, stall
<1> QED BY <1>6, <1>7

\* A coroutine is given a slot that was nobody's.
LEMMA SpawnKeeps ==
    ASSUME SchedInv, Spawn
    PROVE  SchedInv' /\ Blocked' = Blocked
<1> DEFINE id == FreeSlot(coros)
           slot == Fresh(born + 1)
<1>1. /\ UNCHANGED <<cur_coro, inside, closed, want, chan_epoch, chan_nblocked, chan_stall,
                     chan_stall_epoch, dead, exited, waits>>
      /\ born' = born + 1 /\ born < MaxSpawns
      BY DEF Spawn, chans, stall, ends
<1>2. SchedTypes /\ ~dead /\ MaxSpawns \in Nat /\ Slots \in Nat \ {0}
      BY RunsUnblocked, SchedAssumption DEF Spawn, SchedInv, SchedAssumption
<1>3. /\ \A i \in Live(coros) : coros[i].blocked <=> i \in Blocked
      BY <1>2 DEF SchedInv, Counted
<1>4. {0} \cup Live(coros) \subseteq Contexts /\ cur_coro \in {0} \cup Live(coros)
      BY <1>2, FewContexts DEF SchedTypes
<1>5. coros \in Table /\ Len(coros) < Slots
      BY <1>2 DEF SchedTypes
<1>6. id \in 0 .. Slots - 1 /\ id <= Len(coros) + 1 /\ id \notin Live(coros)
      BY <1>2, <1>5, FreeSlotIsFree DEF Table
<1>7. born + 1 \in 1 .. MaxSpawns /\ born' \in Nat
      BY <1>1, <1>2 DEF SchedTypes
<1>8. slot \in SlotType(1 .. MaxSpawns) /\ ~slot.done /\ ~slot.moved /\ ~slot.blocked
      <2>1. PICK who \in 1 .. MaxSpawns : who = born + 1
            BY <1>7
      <2>2. Fresh(who) \in SlotType(1 .. MaxSpawns) /\ ~Fresh(who).done /\ ~Fresh(who).moved
            /\ ~Fresh(who).blocked
            BY DEF Fresh, SlotType
      <2> QED BY <2>1, <2>2
<1>9. CASE id = 0
      <2>1. UNCHANGED <<coros, phase>>
            BY <1>9 DEF Spawn
      <2>2. Live(coros)' = Live(coros) /\ Blocked' = Blocked
            BY <2>1 DEF Blocked
      <2>3. SchedTypes'
            BY <1>1, <1>2, <1>7, <2>1, <2>2 DEF SchedTypes
      <2>4. \A i \in Live(coros)' : coros'[i].blocked <=> i \in Blocked
            BY <1>3, <2>1
      <2> QED BY <1>1, <2>2, <2>3, <2>4, CountKept DEF SchedInv, stall
<1>10. CASE id # 0
       <2>1. id \in 1 .. Len(coros) + 1 /\ id \in Contexts
             BY <1>6, <1>10 DEF Contexts
       <2>2. coros' = Fill(coros, id, slot) /\ phase' = [phase EXCEPT ![id] = "run"]
             BY <1>10 DEF Spawn
       <2> HIDE DEF id, slot
       <2>3. /\ coros' \in Table
             /\ Len(coros') = IF id > Len(coros) THEN Len(coros) + 1 ELSE Len(coros)
             /\ \A j \in 1 .. Len(coros') : coros'[j] = IF j = id THEN slot ELSE coros[j]
             <3>1. /\ Fill(coros, id, slot) \in Table
                   /\ Len(Fill(coros, id, slot)) = IF id > Len(coros) THEN Len(coros) + 1 ELSE Len(coros)
                   /\ \A j \in 1 .. Len(Fill(coros, id, slot)) :
                        Fill(coros, id, slot)[j] = IF j = id THEN slot ELSE coros[j]
                   BY <1>5, <1>8, <2>1, FillSlot DEF Table
             <3> QED BY <2>2, <3>1
       <2>4. Len(coros') < Slots
             <3>1. Len(coros) \in Nat
                   BY <1>5 DEF Table
             <3> QED BY <1>2, <1>5, <1>6, <1>10, <2>3, <3>1
       <2>5. DOMAIN coros' = 1 .. Len(coros') /\ DOMAIN coros = 1 .. Len(coros)
             BY <1>5, <2>3 DEF Table
       <2>6. Live(coros') = Live(coros) \cup {id}
             <3>1. Len(coros) \in Nat /\ 1 .. Len(coros') = (1 .. Len(coros)) \cup {id}
                   BY <1>5, <2>1, <2>3 DEF Table
             <3>2. \A j \in 1 .. Len(coros') : j # id => (Runnable(coros', j) <=> Runnable(coros, j))
                   BY <2>3 DEF Runnable
             <3>3. Runnable(coros', id)
                   BY <1>8, <2>3, <3>1 DEF Runnable
             <3> QED BY <2>5, <3>1, <3>2, <3>3 DEF Live
       <2>7. /\ phase' \in [Contexts -> {"run", "yield", "blocked", "join"}]
             /\ phase'[id] = "run" /\ \A c \in Contexts : c # id => phase'[c] = phase[c]
             BY <1>2, <2>1, <2>2 DEF SchedTypes
       <2>8. Blocked' = Blocked
             BY <1>4, <1>6, <1>10, <2>6, <2>7 DEF Blocked
       <2>9. \A i \in Live(coros)' : coros'[i].blocked <=> i \in Blocked
             <3> TAKE i \in Live(coros)'
             <3>1. i \in 1 .. Len(coros') /\ i \in Live(coros) \cup {id}
                   BY <2>5, <2>6 DEF Live
             <3>2. CASE i = id
                   <4>1. ~coros'[i].blocked
                         BY <1>8, <2>3, <3>1, <3>2
                   <4>2. i \notin Blocked
                         BY <1>6, <1>10, <3>2 DEF Blocked
                   <4> QED BY <4>1, <4>2
             <3>3. CASE i # id
                   BY <1>3, <2>3, <3>1, <3>3
             <3> QED BY <3>2, <3>3
       <2>10. SchedTypes'
             <3>1. cur_coro \in {0} \cup Live(coros')
                   BY <1>4, <2>6
             <3> QED BY <1>1, <1>2, <1>7, <2>3, <2>4, <2>7, <3>1 DEF SchedTypes
       <2> QED BY <1>1, <2>8, <2>9, <2>10, CountKept DEF SchedInv, stall
<1> QED BY <1>9, <1>10

\* A plain yield marks the slot it leaves.
LEMMA YieldKeeps ==
    ASSUME SchedInv, Yield
    PROVE  SchedInv' /\ Blocked' = Blocked
<1>1. /\ UNCHANGED <<inside, closed, want, chan_epoch, chan_nblocked, chan_stall,
                     chan_stall_epoch, dead, exited, born, waits>>
      /\ SwitchFrom("yield")
      BY DEF Yield, chans, stall, ends, hist
<1>2. SchedTypes /\ ~dead /\ cur_coro \notin Blocked
      BY RunsUnblocked DEF Yield, SchedInv
<1>3. \A i \in Live(coros) : coros[i].blocked <=> i \in Blocked
      BY <1>2 DEF SchedInv, Counted
<1>4. {0} \cup Live(coros) \subseteq Contexts /\ cur_coro \in {0} \cup Live(coros)
      BY <1>2, FewContexts DEF SchedTypes
<1>5. /\ coros' \in Table /\ Len(coros') = Len(coros) /\ Live(coros') = Live(coros)
      /\ \A i \in Live(coros) : coros'[i].blocked = coros[i].blocked
      <2>1. CASE cur_coro = 0
            BY <1>2, <2>1 DEF Yield, SchedTypes
      <2>2. CASE cur_coro # 0
            <3>1. PICK slot : slot = [coros[cur_coro] EXCEPT !.parked = TRUE]
                  OBVIOUS
            <3>2. /\ slot \in SlotType(1 .. MaxSpawns) /\ slot.blocked = coros[cur_coro].blocked
                  /\ ~slot.done /\ ~slot.moved
                  BY <1>2, <2>2, <3>1, RunningSlot DEF SlotType
            <3>3. coros' = Put(coros, cur_coro, slot)
                  BY <2>2, <3>1 DEF Yield, Put
            <3>4. cur_coro \in Live(coros) /\ coros \in Table
                  BY <1>2, <2>2, RunningSlot DEF SchedTypes
            <3>5. /\ coros' \in Table /\ Len(coros') = Len(coros) /\ Live(coros') = Live(coros)
                  /\ coros'[cur_coro] = slot
                  /\ \A i \in Live(coros) : i # cur_coro => coros'[i] = coros[i]
                  BY <3>2, <3>3, <3>4, OwnFlag
            <3> QED BY <3>2, <3>5
      <2> QED BY <2>1, <2>2
<1>6. /\ phase' \in [Contexts -> {"run", "yield", "blocked", "join"}]
      /\ phase'[cur_coro] = "yield" /\ \A c \in Contexts : c # cur_coro => phase'[c] = phase[c]
      BY <1>1, <1>2, PhaseMoves DEF SwitchFrom
<1>7. cur_coro' \in {0} \cup Live(coros')
      BY <1>1, <1>2, <1>5, NextContext DEF SwitchFrom
<1>8. SchedTypes'
      BY <1>1, <1>2, <1>5, <1>6, <1>7 DEF SchedTypes
<1>9. Blocked' = Blocked
      BY <1>2, <1>4, <1>5, <1>6 DEF Blocked
<1>10. \A i \in Live(coros)' : coros'[i].blocked <=> i \in Blocked
       BY <1>3, <1>5
<1> QED BY <1>1, <1>8, <1>9, <1>10, CountKept DEF SchedInv, stall

\* The running coroutine ends.
LEMMA FinishKeeps ==
    ASSUME SchedInv, Finish
    PROVE  /\ SchedInv' /\ Blocked' = Blocked /\ Live(coros') = Live(coros) \ {cur_coro}
<1>1. /\ UNCHANGED <<inside, closed, want, phase, chan_epoch, chan_nblocked, chan_stall,
                     chan_stall_epoch, dead, exited, born, waits>>
      /\ cur_coro # 0 /\ cur_coro' = CoroNext(coros, cur_coro)
      BY DEF Finish, chans, stall, ends, hist
<1>2. SchedTypes /\ ~dead /\ cur_coro \notin Blocked
      BY RunsUnblocked DEF Finish, SchedInv
<1>3. \A i \in Live(coros) : coros[i].blocked <=> i \in Blocked
      BY <1>2 DEF SchedInv, Counted
<1>4. PICK slot : slot = [coros[cur_coro] EXCEPT !.done = TRUE]
      OBVIOUS
<1>5. slot \in SlotType(1 .. MaxSpawns) /\ slot.done
      BY <1>1, <1>2, <1>4, RunningSlot DEF SlotType
<1>6. /\ coros' = [coros EXCEPT ![cur_coro] = slot] /\ coros \in Table
      /\ cur_coro \in 1 .. Len(coros)
      BY <1>1, <1>2, <1>4, RunningSlot DEF Finish, SchedTypes
<1>7. /\ coros' \in Table /\ Len(coros') = Len(coros)
      /\ \A j \in 1 .. Len(coros) : coros'[j] = IF j = cur_coro THEN slot ELSE coros[j]
      BY <1>5, <1>6 DEF Table
<1>8. Live(coros') = Live(coros) \ {cur_coro}
      <2>1. DOMAIN coros' = 1 .. Len(coros) /\ DOMAIN coros = 1 .. Len(coros)
            BY <1>6, <1>7 DEF Table
      <2>2. \A j \in 1 .. Len(coros) : j # cur_coro => (Runnable(coros', j) <=> Runnable(coros, j))
            BY <1>7 DEF Runnable
      <2>3. ~Runnable(coros', cur_coro)
            BY <1>5, <1>6, <1>7 DEF Runnable
      <2> QED BY <2>1, <2>2, <2>3 DEF Live
<1>9. cur_coro' \in {0} \cup Live(coros')
      <2>1. cur_coro' \in {0} \cup Live(coros) /\ (cur_coro' # 0 => cur_coro' > cur_coro)
            BY <1>1, <1>2, NextContext
      <2>2. cur_coro \in Nat
            BY <1>2, FewContexts, SchedAssumption DEF Contexts, SchedAssumption
      <2> QED BY <1>8, <2>1, <2>2
<1>10. SchedTypes'
       BY <1>1, <1>2, <1>7, <1>9 DEF SchedTypes
<1>11. Blocked' = Blocked
       BY <1>1, <1>2, <1>8 DEF Blocked
<1>12. \A i \in Live(coros)' : coros'[i].blocked <=> i \in Blocked
       <2>1. \A i \in Live(coros) : i \in 1 .. Len(coros)
             BY <1>6 DEF Live, Table
       <2> QED BY <1>3, <1>7, <1>8, <2>1
<1> QED BY <1>1, <1>8, <1>10, <1>11, <1>12, CountKept DEF SchedInv, stall

\* coro_run_all begins, goes round and comes back.
LEMMA RunAllKeeps ==
    ASSUME SchedInv, RunAll \/ RunAllYield \/ RunAllDone
    PROVE  SchedInv' /\ Blocked' = Blocked
<1>1. /\ UNCHANGED <<coros, inside, closed, want, chan_epoch, chan_nblocked, chan_stall,
                     chan_stall_epoch, dead, exited, born, waits>>
      BY DEF RunAll, RunAllYield, RunAllDone, chans, stall, ends, hist
<1>2. /\ SchedTypes /\ ~dead /\ cur_coro = 0 /\ phase[0] \in {"run", "join"}
      BY DEF RunAll, RunAllYield, RunAllDone, SchedInv, InUser, Running
<1>3. \A i \in Live(coros) : coros[i].blocked <=> i \in Blocked
      BY <1>2 DEF SchedInv, Counted
<1>4. Live(coros)' = Live(coros) /\ {0} \cup Live(coros) \subseteq Contexts
      BY <1>1, <1>2, FewContexts
<1>5. cur_coro' \in {0} \cup Live(coros)
      BY <1>2, NextContext DEF RunAll, RunAllYield, RunAllDone
<1>6. /\ phase' \in [Contexts -> {"run", "yield", "blocked", "join"}]
      /\ phase'[0] \in {"run", "join"} /\ \A c \in Contexts : c # 0 => phase'[c] = phase[c]
      <2>1. CASE phase' = phase
            BY <1>2, <2>1 DEF SchedTypes
      <2>2. CASE \E ph \in {"run", "join"} : phase' = [phase EXCEPT ![0] = ph]
            BY <1>2, <2>2, PhaseMoves
      <2> QED BY <2>1, <2>2 DEF RunAll, RunAllYield, RunAllDone
<1>7. SchedTypes'
      BY <1>1, <1>2, <1>4, <1>5, <1>6 DEF SchedTypes
<1>8. Blocked' = Blocked
      BY <1>2, <1>4, <1>6 DEF Blocked
<1>9. \A i \in Live(coros)' : coros'[i].blocked <=> i \in Blocked
      BY <1>1, <1>3
<1> QED BY <1>1, <1>7, <1>8, <1>9, CountKept DEF SchedInv, stall

\* Nothing has happened yet.
LEMMA InitInv == Init => SchedInv
<1> SUFFICES ASSUME Init PROVE SchedInv
    OBVIOUS
<1> USE DEF Init
<1>1. Slots \in Nat \ {0} /\ Room \in [Chans -> Nat]
      BY SchedAssumption DEF SchedAssumption
<1>2. Live(coros) = {} /\ Blocked = {}
      BY <1>1 DEF Live, Blocked, Contexts
<1>3. \A ch \in Chans : Alloc(ch) \in Nat
      BY <1>1 DEF Alloc
<1>4. SchedTypes
      <2>1. coros \in Table /\ Len(coros) < Slots
            BY <1>1 DEF Table
      <2>2. {} \in Alternatives
            BY DEF Alternatives
      <2>3. want \in [Contexts -> Alternatives]
            BY <2>2
      <2>4. /\ \A ch \in Chans : inside[ch] \in 0 .. Alloc(ch) /\ closed[ch] \in BOOLEAN
            /\ inside \in [Chans -> Nat] /\ closed \in [Chans -> BOOLEAN]
            BY <1>3
      <2>5. phase \in [Contexts -> {"run", "yield", "blocked", "join"}]
            OBVIOUS
      <2>6. chan_epoch \in Nat /\ chan_stall_epoch \in Int /\ chan_stall_epoch <= chan_epoch
            OBVIOUS
      <2>7. cur_coro \in {0} \cup Live(coros) /\ dead \in BOOLEAN /\ exited \in BOOLEAN
            /\ born \in Nat /\ waits \in Nat
            OBVIOUS
      <2> HIDE DEF Init
      <2> QED BY <2>1, <2>3, <2>4, <2>5, <2>6, <2>7 DEF SchedTypes
<1>5. Counted
      BY <1>2, FS_EmptySet DEF Counted
<1>6. Small /\ BlockedWant
      BY <1>1, <1>2 DEF Small, BlockedWant
<1> QED BY <1>4, <1>5, <1>6 DEF SchedInv

\* Every step, and standing still, keeps the count right.
LEMMA SchedStep == SchedInv /\ [Next]_vars => SchedInv'
<1> SUFFICES ASSUME SchedInv, [Next]_vars PROVE SchedInv'
    OBVIOUS
<1>1. CASE \E cases \in Work \cup MainWork : Start(cases)
      BY <1>1, StartKeeps
<1>2. CASE \E case \in Cases : Perform(case)
      BY <1>2, PerformKeeps
<1>3. CASE \E ch \in Chans : Close(ch)
      BY <1>3, CloseKeeps
<1>4. CASE Block \/ Wake \/ Spawn \/ Yield \/ Finish
      BY <1>4, BlockKeeps, WakeKeeps, SpawnKeeps, YieldKeeps, FinishKeeps
<1>5. CASE RunAll \/ RunAllYield \/ RunAllDone
      BY <1>5, RunAllKeeps
<1>6. CASE UNCHANGED vars
      <2>1. UNCHANGED <<coros, cur_coro, inside, closed, want, phase, chan_epoch, chan_nblocked,
                        chan_stall, chan_stall_epoch, dead, exited, born, waits>>
            BY <1>6 DEF vars, chans, stall, ends, hist
      <2>2. Live(coros)' = Live(coros) /\ Blocked' = Blocked
            BY <2>1 DEF Blocked
      <2>3. SchedTypes'
            BY <2>1, <2>2 DEF SchedInv, SchedTypes
      <2>4. Counted' /\ Small' /\ BlockedWant'
            BY <2>1, <2>2 DEF SchedInv, Counted, Small, BlockedWant
      <2> QED BY <2>3, <2>4 DEF SchedInv
<1> QED BY <1>1, <1>2, <1>3, <1>4, <1>5, <1>6 DEF Next

\* What holds in every reachable state of the scheduler.
THEOREM SchedInvariant == Spec => []SchedInv
<1>1. Init => SchedInv
      BY InitInv
<1>2. SchedInv /\ [Next]_vars => SchedInv'
      BY SchedStep
<1> QED BY <1>1, <1>2, PTL DEF Spec

\* chan_nblocked is the number of contexts suspended in chan_block and
\* `blocked` marks the coroutines among them, through every switch, spawn,
\* end and reuse of a slot.
THEOREM SchedCounts == Spec => []BlockedCounted
<1>1. SchedInv => BlockedCounted
      <2> SUFFICES ASSUME SchedInv PROVE BlockedCounted
          OBVIOUS
      <2>1. TypeOK
            <3>1. /\ want \in [Contexts -> SUBSET Cases]
                  BY DEF SchedInv, SchedTypes, Alternatives
            <3>2. coros \in Seq(SlotType(1 .. MaxSpawns))
                  BY DEF SchedInv, SchedTypes, Table
            <3> QED BY <3>1, <3>2 DEF TypeOK, SchedInv, SchedTypes, Small
      <2> QED BY <2>1 DEF BlockedCounted, SchedInv, Counted
<1> QED BY <1>1, SchedInvariant, PTL
--------------------------------------------------------------------------------
(* No alarm without a deadlock, when main only runs the others *)

\* Coming from a context, c has its turn before p.
Ahead(from, c, p) == IF p >= from THEN c >= from /\ c < p ELSE c >= from \/ c < p

\* Those suspended contexts that cannot go on and have their turn after c.
Passed(c) == {p \in Blocked : ~CanGo(p) /\ Ahead(cur_coro, c, p)}

\* While the epoch stands still and somebody suspended could go on without
\* having had his turn, no context has been counted twice as stalled.
Paced ==
    ~dead /\ chan_stall_epoch = chan_epoch =>
        \A c \in Blocked : CanGo(c) => chan_stall <= Cardinality(Passed(c))

\* Main waits for no channel, and has handed over by coro_run_all.
MainJoins ==
    /\ want[0] = {} /\ phase[0] \in {"run", "join"}
    /\ cur_coro # 0 => phase[0] = "join"

AlarmInv == MainJoins /\ Paced /\ NoFalseAlarm

\* Suspended contexts are coroutines.
LEMMA MainUnblocked ==
    ASSUME SchedInv, MainJoins
    PROVE  0 \notin Blocked /\ Blocked \subseteq Live(coros)
BY DEF MainJoins, Blocked

\* The others keep their order when control goes to the next.
LEMMA TurnsKeep ==
    ASSUME SchedInv, NEW c \in Live(coros), NEW p \in Live(coros), c # cur_coro, p # cur_coro,
           Ahead(cur_coro, c, p)
    PROVE  Ahead(CoroNext(coros, cur_coro), c, p)
<1>1. PICK n : n = CoroNext(coros, cur_coro)
      OBVIOUS
<1>2. n \in {0} \cup Live(coros) /\ (n # 0 => n > cur_coro)
      BY <1>1, NextContext DEF SchedInv
<1>3. cur_coro \in Nat /\ Live(coros) \subseteq Nat /\ 0 \notin Live(coros)
      BY FewContexts, SchedAssumption DEF Contexts, SchedAssumption, SchedInv
<1>4. \A x \in Live(coros) : x > cur_coro => n > cur_coro /\ n <= x
      BY <1>1, <1>3, NextIsFirst DEF SchedInv, SchedTypes, Table
<1> QED BY <1>1, <1>2, <1>3, <1>4 DEF Ahead

\* Who has just had his turn comes last.
LEMMA TurnIsLast ==
    ASSUME SchedInv, NEW c \in Live(coros), c # cur_coro
    PROVE  Ahead(CoroNext(coros, cur_coro), c, cur_coro)
<1>1. PICK n : n = CoroNext(coros, cur_coro)
      OBVIOUS
<1>2. n \in {0} \cup Live(coros) /\ (n # 0 => n > cur_coro)
      BY <1>1, NextContext DEF SchedInv
<1>3. cur_coro \in Nat /\ Live(coros) \subseteq Nat /\ 0 \notin Live(coros)
      BY FewContexts, SchedAssumption DEF Contexts, SchedAssumption, SchedInv
<1>4. \A x \in Live(coros) : x > cur_coro => n > cur_coro /\ n <= x
      BY <1>1, <1>3, NextIsFirst DEF SchedInv, SchedTypes, Table
<1> QED BY <1>1, <1>2, <1>3, <1>4 DEF Ahead

\* What can go through is the same while no channel changes.
LEMMA ReadyKept ==
    ASSUME UNCHANGED <<inside, closed>>, NEW c, want'[c] = want[c]
    PROVE  CanGo(c)' <=> CanGo(c)
BY DEF CanGo, Ready

\* A step that adds no stall and leaves whoever could go on his turn.
LEMMA PacedOn ==
    ASSUME Paced, UNCHANGED <<chan_stall, chan_stall_epoch, chan_epoch, dead>>, IsFiniteSet(Blocked'),
           SchedInv,
           \A c \in Blocked' : CanGo(c)' => c \in Blocked /\ CanGo(c) /\ Passed(c) \subseteq Passed(c)'
    PROVE  Paced'
<1> SUFFICES ASSUME ~dead, chan_stall_epoch = chan_epoch, NEW c \in Blocked', CanGo(c)'
             PROVE  chan_stall <= Cardinality(Passed(c)')
    BY DEF Paced
<1>1. Passed(c)' \subseteq Blocked'
      BY DEF Passed
<1>2. IsFiniteSet(Passed(c)')
      BY <1>1, FS_Subset
<1>3. chan_stall <= Cardinality(Passed(c)) /\ Passed(c) \subseteq Passed(c)'
      BY DEF Paced
<1>4. /\ IsFiniteSet(Passed(c)) /\ Cardinality(Passed(c)) <= Cardinality(Passed(c)')
      BY <1>2, <1>3, FS_Subset
<1>5. Cardinality(Passed(c)) \in Nat /\ Cardinality(Passed(c)') \in Nat /\ chan_stall \in Nat
      BY <1>2, <1>4, FS_CardinalityType DEF SchedInv, Small
<1> QED BY <1>3, <1>4, <1>5

\* Nobody's turn comes or goes.
LEMMA PacedStays ==
    ASSUME SchedInv, Paced, UNCHANGED <<chan_stall, chan_stall_epoch, chan_epoch, dead, inside, closed>>,
           cur_coro' = cur_coro, Blocked' \subseteq Blocked, Blocked \ {cur_coro} \subseteq Blocked',
           \A c \in Blocked : want'[c] = want[c]
    PROVE  Paced'
<1>1. IsFiniteSet(Blocked')
      BY FewContexts, FS_Subset DEF SchedInv
<1>2. \A c \in Blocked : CanGo(c)' <=> CanGo(c)
      BY ReadyKept
<1>3. Blocked \subseteq Nat /\ cur_coro \in Nat
      BY FewContexts, SchedAssumption DEF Contexts, SchedAssumption, SchedInv
<1>4. ASSUME NEW c \in Blocked' PROVE Passed(c) \subseteq Passed(c)'
      <2> SUFFICES ASSUME NEW p \in Passed(c) PROVE p \in Passed(c)'
          OBVIOUS
      <2>1. p \in Blocked /\ ~CanGo(p) /\ Ahead(cur_coro, c, p)
            BY DEF Passed
      <2>2. p # cur_coro
            BY <1>3, <1>4, <2>1 DEF Ahead
      <2>3. p \in Blocked' /\ ~CanGo(p)'
            BY <1>2, <2>1, <2>2
      <2>4. Ahead(cur_coro', c, p)
            BY <2>1
      <2> QED BY <2>3, <2>4 DEF Passed
<1> QED BY <1>1, <1>2, <1>4, PacedOn

\* Control goes to the next without anybody being suspended.
LEMMA PacedSwitch ==
    ASSUME SchedInv, Paced, UNCHANGED <<chan_stall, chan_stall_epoch, chan_epoch, dead, inside, closed>>,
           cur_coro' = CoroNext(coros, cur_coro), Blocked' = Blocked, cur_coro \notin Blocked,
           Blocked \subseteq Live(coros), want' = want
    PROVE  Paced'
<1>1. IsFiniteSet(Blocked')
      BY FewContexts DEF SchedInv
<1>2. \A c \in Blocked : CanGo(c)' <=> CanGo(c)
      BY ReadyKept
<1>3. ASSUME NEW c \in Blocked' PROVE Passed(c) \subseteq Passed(c)'
      <2> SUFFICES ASSUME NEW p \in Passed(c) PROVE p \in Passed(c)'
          OBVIOUS
      <2>1. p \in Blocked /\ ~CanGo(p) /\ Ahead(cur_coro, c, p)
            BY DEF Passed
      <2>2. Ahead(CoroNext(coros, cur_coro), c, p)
            BY <1>3, <2>1, TurnsKeep
      <2>3. p \in Blocked' /\ ~CanGo(p)'
            BY <1>2, <2>1
      <2>4. Ahead(cur_coro', c, p)
            BY <2>2
      <2> QED BY <2>3, <2>4 DEF Passed
<1> QED BY <1>1, <1>2, <1>3, PacedOn

\* chan_block suspends the running context, which could not go on.
LEMMA PacedBlock ==
    ASSUME SchedInv, Paced, MainJoins, Block
    PROVE  Paced'
<1>1. /\ UNCHANGED <<inside, closed, want, chan_epoch>>
      /\ dead' = Verdict
      /\ chan_stall' = (IF Stalled THEN chan_stall + 1 ELSE IF AllBlocked THEN 1 ELSE chan_stall)
      /\ chan_stall_epoch' = (IF AllBlocked THEN chan_epoch ELSE chan_stall_epoch)
      /\ want[cur_coro] # {} /\ ~CanGo(cur_coro)
      BY DEF Block, chans, Trying, CanGo
<1>2. SchedTypes /\ ~dead /\ cur_coro \notin Blocked
      BY RunsUnblocked DEF Block, SchedInv
<1>3. cur_coro \in Live(coros) /\ Blocked \subseteq Live(coros)
      BY <1>1, <1>2, MainUnblocked DEF MainJoins, SchedTypes
<1> SUFFICES ASSUME ~Verdict, chan_stall_epoch' = chan_epoch,
                    NEW c \in Blocked', CanGo(c)'
             PROVE  chan_stall' <= Cardinality(Passed(c)')
    BY <1>1 DEF Paced
<1>4. SetBlocked(TRUE) /\ SwitchFrom("blocked")
      BY DEF Block
<1>5. Live(coros') = Live(coros)
      BY <1>2, <1>4, BlockedSet
<1>6. /\ phase'[cur_coro] = "blocked" /\ \A x \in Contexts : x # cur_coro => phase'[x] = phase[x]
      /\ cur_coro' = CoroNext(coros, cur_coro)
      BY <1>2, <1>4, PhaseMoves DEF SwitchFrom
<1>7. Blocked' = Blocked \cup {cur_coro}
      <2>1. {0} \cup Live(coros) \subseteq Contexts
            BY <1>2, FewContexts
      <2> QED BY <1>3, <1>5, <1>6, <2>1 DEF Blocked
<1>8. \A x : CanGo(x)' <=> CanGo(x)
      BY <1>1, ReadyKept
<1>9. c \in Blocked /\ CanGo(c) /\ c # cur_coro
      BY <1>1, <1>2, <1>7, <1>8
<1>10. Passed(c) \cup {cur_coro} \subseteq Passed(c)'
       <2>1. cur_coro \in Passed(c)'
             <3>1. PICK r : r = cur_coro
                   OBVIOUS
             <3>2. Ahead(cur_coro', c, r)
                   BY <1>3, <1>6, <1>9, <3>1, TurnIsLast
             <3>3. r \in Blocked' /\ ~CanGo(r)'
                   BY <1>1, <1>7, <1>8, <3>1
             <3>4. r \in Passed(c)'
                   BY <3>2, <3>3 DEF Passed
             <3> QED BY <3>1, <3>4
       <2>2. ASSUME NEW p \in Passed(c) PROVE p \in Passed(c)'
             <3>1. p \in Blocked /\ ~CanGo(p) /\ Ahead(cur_coro, c, p)
                   BY DEF Passed
             <3>2. Ahead(cur_coro', c, p)
                   BY <1>2, <1>3, <1>6, <1>9, <3>1, TurnsKeep
             <3>3. p \in Blocked' /\ ~CanGo(p)'
                   BY <1>7, <1>8, <3>1
             <3> QED BY <3>2, <3>3 DEF Passed
       <2> QED BY <2>1, <2>2
<1>11. /\ IsFiniteSet(Passed(c)') /\ IsFiniteSet(Passed(c)) /\ cur_coro \notin Passed(c)
       <2>1. IsFiniteSet(Blocked) /\ IsFiniteSet(Blocked')
             BY <1>2, <1>7, FewContexts, FS_AddElement
       <2>2. Passed(c) \subseteq Blocked /\ Passed(c)' \subseteq Blocked'
             BY DEF Passed
       <2> QED BY <1>2, <2>1, <2>2, FS_Subset
<1>12. /\ Cardinality(Passed(c) \cup {cur_coro}) = Cardinality(Passed(c)) + 1
       /\ Cardinality(Passed(c) \cup {cur_coro}) <= Cardinality(Passed(c)')
       BY <1>10, <1>11, FS_AddElement, FS_Subset
<1>13. Cardinality(Passed(c)) \in Nat /\ Cardinality(Passed(c)') \in Nat /\ chan_stall \in Nat
       BY <1>11, FS_CardinalityType DEF SchedInv, Small
<1>14. CASE Stalled \/ ~AllBlocked
       <2>1. chan_stall_epoch = chan_epoch
             BY <1>1, <1>14 DEF Stalled
       <2>2. chan_stall <= Cardinality(Passed(c))
             BY <1>2, <1>9, <2>1 DEF Paced
       <2>3. chan_stall' <= chan_stall + 1
             BY <1>1, <1>13, <1>14 DEF Stalled
       <2>4. chan_stall' \in Nat
             BY <1>1, <1>13
       <2> QED BY <1>12, <1>13, <2>2, <2>3, <2>4
<1>15. CASE AllBlocked /\ ~Stalled
       <2>1. chan_stall' = 1
             BY <1>1, <1>15
       <2> QED BY <1>12, <1>13, <2>1
<1> QED BY <1>14, <1>15

\* The verdict: everybody is suspended and has been found stuck in turn.
LEMMA VerdictRight ==
    ASSUME SchedInv, Paced, MainJoins, Block, Verdict
    PROVE  AllStuck'
<1>1. /\ UNCHANGED <<inside, closed, want, coros, cur_coro, phase>>
      /\ want[cur_coro] # {} /\ ~CanGo(cur_coro)
      BY DEF Block, chans, Trying, CanGo
<1>2. SchedTypes /\ ~dead /\ cur_coro \notin Blocked
      BY RunsUnblocked DEF Block, SchedInv
<1>3. cur_coro \in Live(coros) /\ Blocked \subseteq Live(coros) /\ cur_coro # 0
      BY <1>1, <1>2, MainUnblocked DEF MainJoins, SchedTypes
<1>4. /\ chan_nblocked + 1 >= CoroLive(coros) /\ chan_epoch = chan_stall_epoch
      /\ chan_stall + 1 > CoroLive(coros) + 1
      BY DEF Verdict, Stalled, AllBlocked
<1>5. /\ IsFiniteSet(Live(coros)) /\ IsFiniteSet(Blocked)
      /\ Cardinality(Live(coros)) \in Nat /\ Cardinality(Blocked) \in Nat
      BY <1>2, FewContexts, FS_CardinalityType
<1>6. Blocked \cup {cur_coro} = Live(coros)
      <2>1. /\ IsFiniteSet(Blocked \cup {cur_coro})
            /\ Cardinality(Blocked \cup {cur_coro}) = Cardinality(Blocked) + 1
            BY <1>2, <1>5, FS_AddElement
      <2>2. Blocked \cup {cur_coro} \subseteq Live(coros)
            BY <1>3
      <2>3. Cardinality(Blocked \cup {cur_coro}) <= Cardinality(Live(coros))
            BY <1>5, <2>2, FS_Subset
      <2>4. chan_nblocked = Cardinality(Blocked)
            BY <1>2 DEF SchedInv, Counted
      <2>5. Cardinality(Blocked \cup {cur_coro}) = Cardinality(Live(coros))
            BY <1>4, <1>5, <2>1, <2>3, <2>4 DEF CoroLive
      <2> QED BY <1>5, <2>2, <2>5, FS_Subset
<1>7. \A c \in Blocked : ~CanGo(c)
      <2> SUFFICES ASSUME NEW c \in Blocked, CanGo(c) PROVE FALSE
          OBVIOUS
      <2>1. chan_stall <= Cardinality(Passed(c))
            BY <1>2, <1>4 DEF Paced
      <2>2. Passed(c) \subseteq Live(coros)
            BY <1>3 DEF Passed
      <2>3. Cardinality(Passed(c)) <= Cardinality(Live(coros)) /\ IsFiniteSet(Passed(c))
            BY <1>5, <2>2, FS_Subset
      <2>4. Cardinality(Passed(c)) \in Nat /\ chan_stall \in Nat
            BY <2>3, FS_CardinalityType DEF SchedInv, Small
      <2> QED BY <1>4, <1>5, <2>1, <2>3, <2>4 DEF CoroLive
<1>8. \A c \in Live(coros) : want[c] # {} /\ ~CanGo(c)
      BY <1>1, <1>6, <1>7 DEF SchedInv, BlockedWant
<1>9. phase[0] = "join"
      BY <1>3 DEF MainJoins
<1>10. AllStuck
       BY <1>8, <1>9 DEF AllStuck, Stuck, CanGo
<1> QED BY <1>1, <1>10 DEF AllStuck, Stuck, Ready

\* Main goes on to wait for no channel.
LEMMA MainKeepsJoining ==
    ASSUME MainWork = {}, ~MainYields, SchedInv, MainJoins, [Next]_vars
    PROVE  MainJoins'
<1> USE DEF MainJoins
<1>1. /\ want \in [Contexts -> Alternatives] /\ cur_coro \in Contexts /\ 0 \in Contexts
      /\ phase \in [Contexts -> {"run", "yield", "blocked", "join"}]
      BY FewContexts DEF SchedInv, SchedTypes
<1>2. ASSUME NEW cases \in Work \cup MainWork, Start(cases) PROVE MainJoins'
      <2>1. cur_coro # 0 /\ want' = [want EXCEPT ![cur_coro] = cases] /\ UNCHANGED <<phase, cur_coro>>
            BY <1>2 DEF Start
      <2> QED BY <1>1, <2>1
<1>3. ASSUME NEW case \in Cases, Perform(case) PROVE MainJoins'
      <2>1. /\ cur_coro # 0 /\ UNCHANGED <<phase, cur_coro>>
            BY <1>3 DEF Perform, Trying
      <2>2. PICK new \in Alternatives : want' = [want EXCEPT ![cur_coro] = new]
            BY <1>3, PerformMoves DEF SchedInv
      <2> QED BY <1>1, <2>1, <2>2
<1>4. ASSUME NEW ch \in Chans, Close(ch) PROVE MainJoins'
      BY <1>4 DEF Close
<1>5. CASE Block
      <2>1. cur_coro # 0 /\ want' = want
            BY <1>5 DEF Block, Trying
      <2>2. phase'[0] = phase[0]
            BY <1>1, <1>5, <2>1 DEF Block, SwitchFrom
      <2> QED BY <2>1, <2>2
<1>6. CASE Wake
      <2>1. cur_coro # 0 /\ want' = want /\ cur_coro' = cur_coro /\ phase'[0] = phase[0]
            BY <1>1, <1>6 DEF Wake
      <2> QED BY <2>1
<1>7. CASE Spawn
      BY <1>1, <1>7 DEF Spawn
<1>8. CASE Yield
      <2>1. cur_coro # 0 /\ want' = want /\ phase'[0] = phase[0]
            BY <1>1, <1>8 DEF Yield, SwitchFrom
      <2> QED BY <2>1
<1>9. CASE Finish
      BY <1>9 DEF Finish
<1>10. CASE RunAll \/ RunAllYield \/ RunAllDone
      BY <1>1, <1>10 DEF RunAll, RunAllYield, RunAllDone
<1>11. CASE UNCHANGED vars
      BY <1>11 DEF vars
<1> QED BY <1>2, <1>3, <1>4, <1>5, <1>6, <1>7, <1>8, <1>9, <1>10, <1>11 DEF Next

\* Every step keeps the pace.
LEMMA PacedKept ==
    ASSUME SchedInv, MainJoins, Paced, [Next]_vars
    PROVE  Paced'
<1>1. 0 \notin Blocked /\ Blocked \subseteq Live(coros) /\ Blocked \subseteq Contexts
      BY MainUnblocked, FewContexts DEF SchedInv
<1>2. ASSUME NEW cases \in Work \cup MainWork, Start(cases) PROVE Paced'
      <2>1. /\ UNCHANGED <<coros, cur_coro, inside, closed, phase, chan_epoch, chan_stall,
                           chan_stall_epoch, dead>>
            /\ want' = [want EXCEPT ![cur_coro] = cases]
            BY <1>2 DEF Start, chans, stall, ends
      <2>2. Blocked' = Blocked /\ cur_coro \notin Blocked
            BY <1>2, <2>1, RunsUnblocked DEF Start, Blocked
      <2>3. \A c \in Blocked : want'[c] = want[c]
            BY <1>1, <2>1, <2>2 DEF SchedInv, SchedTypes
      <2> QED BY <2>1, <2>2, <2>3, PacedStays
<1>3. ASSUME NEW case \in Cases, Perform(case) PROVE Paced'
      <2>1. UNCHANGED <<coros, cur_coro, closed, phase, chan_stall, chan_stall_epoch, dead>>
            BY <1>3 DEF Perform, stall
      <2>2. PICK d \in {-1, 0, 1} :
               /\ case[2] \in Chans /\ inside' = [inside EXCEPT ![case[2]] = @ + d]
               /\ inside[case[2]] + d \in 0 .. Alloc(case[2])
               /\ chan_epoch' = IF d = 0 THEN chan_epoch ELSE chan_epoch + 1
               /\ \E new \in Alternatives : want' = [want EXCEPT ![cur_coro] = new]
            BY <1>3, PerformMoves DEF SchedInv
      <2>3. CASE d # 0
            <3>1. chan_epoch' # chan_stall_epoch'
                  BY <2>1, <2>2, <2>3 DEF SchedInv, SchedTypes
            <3> QED BY <3>1 DEF Paced
      <2>4. CASE d = 0
            <3>1. inside' = inside /\ chan_epoch' = chan_epoch
                  <4>1. PICK k : k = case[2]
                        OBVIOUS
                  <4>2. k \in Chans /\ inside' = [inside EXCEPT ![k] = inside[k] + 0]
                        BY <2>2, <2>4, <4>1
                  <4>3. inside \in [Chans -> Nat]
                        BY DEF SchedInv, SchedTypes
                  <4>4. inside[k] + 0 = inside[k]
                        BY <4>2, <4>3
                  <4>5. inside' = inside
                        BY <4>2, <4>3, <4>4
                  <4> QED BY <2>2, <2>4, <4>5
            <3>2. Blocked' = Blocked /\ cur_coro \notin Blocked
                  BY <1>3, <2>1, RunsUnblocked DEF Perform, Blocked
            <3>3. PICK new \in Alternatives : want' = [want EXCEPT ![cur_coro] = new]
                  BY <2>2
            <3>4. \A c \in Blocked : want'[c] = want[c]
                  BY <1>1, <3>2, <3>3 DEF SchedInv, SchedTypes
            <3> QED BY <2>1, <3>1, <3>2, <3>4, PacedStays
      <2> QED BY <2>3, <2>4
<1>4. ASSUME NEW ch \in Chans, Close(ch) PROVE Paced'
      <2>1. chan_epoch' = chan_epoch + 1 /\ chan_stall_epoch' = chan_stall_epoch
            BY <1>4 DEF Close, stall
      <2>2. chan_epoch' # chan_stall_epoch'
            BY <2>1 DEF SchedInv, SchedTypes
      <2> QED BY <2>2 DEF Paced
<1>5. CASE Block
      BY <1>5, PacedBlock
<1>6. CASE Wake
      <2>1. /\ UNCHANGED <<cur_coro, inside, closed, want, chan_epoch, chan_stall, chan_stall_epoch, dead>>
            /\ phase' = [phase EXCEPT ![cur_coro] = "run"]
            BY <1>6 DEF Wake, chans, ends
      <2>2. Live(coros') = Live(coros)
            <3>1. CASE SetBlocked(FALSE)
                  BY <3>1, BlockedSet DEF SchedInv
            <3>2. CASE UNCHANGED coros
                  BY <3>2
            <3> QED BY <1>6, <3>1, <3>2 DEF Wake
      <2>3. /\ phase'[cur_coro] = "run" /\ \A c \in Contexts : c # cur_coro => phase'[c] = phase[c]
            BY <2>1, PhaseMoves DEF SchedInv
      <2>4. {0} \cup Live(coros) \subseteq Contexts
            BY FewContexts DEF SchedInv
      <2>5. Blocked' \subseteq Blocked /\ Blocked \ {cur_coro} \subseteq Blocked'
            BY <2>2, <2>3, <2>4 DEF Blocked
      <2> QED BY <2>1, <2>5, PacedStays
<1>7. CASE Spawn
      <2>1. UNCHANGED <<cur_coro, inside, closed, want, chan_epoch, chan_stall, chan_stall_epoch, dead>>
            BY <1>7 DEF Spawn, chans, stall, ends
      <2>2. Blocked' = Blocked
            BY <1>7, SpawnKeeps
      <2> QED BY <2>1, <2>2, PacedStays
<1>8. CASE Yield
      <2>1. /\ UNCHANGED <<inside, closed, want, chan_epoch, chan_stall, chan_stall_epoch, dead>>
            /\ cur_coro' = CoroNext(coros, cur_coro)
            BY <1>8 DEF Yield, SwitchFrom, chans, stall, ends
      <2>2. Blocked' = Blocked /\ cur_coro \notin Blocked
            BY <1>8, YieldKeeps, RunsUnblocked DEF Yield
      <2> QED BY <1>1, <2>1, <2>2, PacedSwitch
<1>9. CASE Finish
      <2>1. /\ UNCHANGED <<inside, closed, want, chan_epoch, chan_stall, chan_stall_epoch, dead>>
            /\ cur_coro' = CoroNext(coros, cur_coro)
            BY <1>9 DEF Finish, chans, stall, ends
      <2>2. Blocked' = Blocked /\ cur_coro \notin Blocked
            BY <1>9, FinishKeeps, RunsUnblocked DEF Finish
      <2> QED BY <1>1, <2>1, <2>2, PacedSwitch
<1>10. CASE RunAll \/ RunAllYield \/ RunAllDone
      <2>1. /\ UNCHANGED <<inside, closed, want, chan_epoch, chan_stall, chan_stall_epoch, dead>>
            /\ Blocked' = Blocked
            BY <1>10, RunAllKeeps DEF RunAll, RunAllYield, RunAllDone, chans, stall, ends
      <2>2. CASE cur_coro' = cur_coro
            BY <2>1, <2>2, PacedStays
      <2>3. CASE cur_coro = 0 /\ cur_coro' = CoroNext(coros, cur_coro)
            BY <1>1, <2>1, <2>3, PacedSwitch
      <2> QED BY <1>10, <2>2, <2>3 DEF RunAll, RunAllYield, RunAllDone
<1>11. CASE UNCHANGED vars
      <2>1. UNCHANGED <<coros, cur_coro, inside, closed, want, phase, chan_epoch, chan_stall,
                        chan_stall_epoch, dead>>
            BY <1>11 DEF vars, chans, stall, ends
      <2>2. Blocked' = Blocked
            BY <2>1 DEF Blocked
      <2> QED BY <2>1, <2>2, PacedStays
<1> QED BY <1>2, <1>3, <1>4, <1>5, <1>6, <1>7, <1>8, <1>9, <1>10, <1>11 DEF Next

\* A verdict is the last step; no other one ends the program by it.
LEMMA AlarmKept ==
    ASSUME SchedInv, AlarmInv, [Next]_vars
    PROVE  NoFalseAlarm'
<1>1. CASE dead
      <2>1. UNCHANGED vars
            BY <1>1 DEF Next, Start, Perform, Close, Block, Wake, Spawn, Yield, Finish, RunAll,
                        RunAllYield, RunAllDone, InUser, Trying, Running
      <2>2. UNCHANGED <<coros, want, phase, inside, closed, dead>>
            BY <2>1 DEF vars, chans, ends
      <2>3. AllStuck
            BY <1>1 DEF AlarmInv, NoFalseAlarm
      <2>4. AllStuck'
            BY <2>2, <2>3 DEF AllStuck, Stuck, Ready
      <2> QED BY <2>4 DEF NoFalseAlarm
<1>2. CASE ~dead /\ dead'
      <2>1. Block /\ Verdict
            BY <1>2 DEF Next, Start, Perform, Close, Block, Wake, Spawn, Yield, Finish, RunAll,
                        RunAllYield, RunAllDone, vars, ends
      <2> QED BY <2>1, VerdictRight DEF AlarmInv, NoFalseAlarm
<1> QED BY <1>1, <1>2 DEF NoFalseAlarm

\* "every coroutine is blocked on a channel" is only said when it is so, for
\* any channels, any operations on them and any number of coroutines, if
\* main waits for no channel itself and leaves them the processor by
\* coro_run_all (the heuristic of chan_block).
THEOREM SchedHonest ==
    ASSUME MainWork = {}, ~MainYields
    PROVE  Spec => []NoFalseAlarm
<1>1. Init => AlarmInv
      <2> SUFFICES ASSUME Init PROVE AlarmInv
          OBVIOUS
      <2>1. 0 \in Contexts
            BY InitInv, FewContexts DEF SchedInv
      <2>2. MainJoins /\ ~dead
            BY <2>1 DEF Init, MainJoins
      <2>3. chan_stall_epoch # chan_epoch
            BY DEF Init
      <2> QED BY <2>2, <2>3 DEF AlarmInv, Paced, NoFalseAlarm
<1>2. SchedInv /\ AlarmInv /\ [Next]_vars => AlarmInv'
      BY MainKeepsJoining, PacedKept, AlarmKept DEF AlarmInv
<1>3. AlarmInv => NoFalseAlarm
      BY DEF AlarmInv
<1> QED BY <1>1, <1>2, <1>3, SchedInvariant, PTL DEF Spec
================================================================================
