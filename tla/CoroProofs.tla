------------------------------- MODULE CoroProofs -------------------------------
(***************************************************************************)
(* Proofs about Coro and Gen, for every size of the slot table and every   *)
(* number of spawns: the table is sound however slots are reused, the      *)
(* round robin starves nobody, and coro_run_all comes back only when every *)
(* accepted coroutine has ended; and generators, while the round robin     *)
(* leaves them alone, deliver every value once and in order.               *)
(***************************************************************************)
EXTENDS Gen, CoroTableProofs

\* Coroutines that were given a slot and have not ended.
Accepted == (1 .. born) \ (refused \cup ended)

\* A coroutine has a live slot exactly while it is accepted, and a live slot
\* is nobody else's.
SlotsMatch ==
    /\ refused \cap ended = {}
    /\ \A i \in Live(coros) : coros[i].who \in Accepted
    /\ \A w \in Accepted : \E i \in Live(coros) : coros[i].who = w
    /\ \A i, j \in Live(coros) : coros[i].who = coros[j].who => i = j

\* The inductive invariant: what a slot holds ties the table to the history.
CoroInv == TypeOK /\ RunningIsLive /\ SlotsMatch

\* The table is empty to begin with.
LEMMA InitInv == Init => CoroInv
<1> SUFFICES ASSUME Init PROVE CoroInv
    OBVIOUS
<1> USE CoroAssumption DEF CoroAssumption, Init
<1>1. TypeOK
      <2>1. coros \in Seq(SlotType(1 .. MaxSpawns)) /\ Len(coros) < Slots
            OBVIOUS
      <2>2. since \in [1 .. Slots - 1 -> 0 .. Slots]
            <3>1. 0 \in 0 .. Slots
                  OBVIOUS
            <3> QED BY <3>1
      <2>3. cur_coro \in {0} \cup DOMAIN coros /\ born \in 0 .. MaxSpawns
            OBVIOUS
      <2>4. joining \in BOOLEAN
            OBVIOUS
      <2>5. refused \subseteq 1 .. born /\ ended \subseteq 1 .. born
            OBVIOUS
      <2> HIDE DEF Init
      <2> QED BY <2>1, <2>2, <2>3, <2>4, <2>5 DEF TypeOK
<1>2. RunningIsLive
      BY DEF RunningIsLive
<1>3. Live(coros) = {} /\ Accepted = {}
      BY DEF Live, Accepted
<1> QED BY <1>1, <1>2, <1>3 DEF CoroInv, SlotsMatch

\* A refused coroutine is one more that has no slot.
LEMMA TurnedAway ==
    ASSUME CoroInv, born < MaxSpawns, born' = born + 1, refused' = refused \cup {born + 1},
           UNCHANGED <<coros, cur_coro, joining, ended, since>>
    PROVE  CoroInv'
<1>1. /\ born \in 0 .. MaxSpawns /\ born + 1 \in 1 .. MaxSpawns
      /\ refused \subseteq 1 .. born /\ ended \subseteq 1 .. born
      BY CoroAssumption DEF CoroAssumption, CoroInv, TypeOK
<1>2. Accepted' = Accepted /\ Live(coros)' = Live(coros)
      BY <1>1 DEF Accepted
<1>3. TypeOK'
      <2>1. refused' \subseteq 1 .. born' /\ ended' \subseteq 1 .. born' /\ born' \in 0 .. MaxSpawns
            BY <1>1
      <2>2. /\ coros \in Seq(SlotType(1 .. MaxSpawns)) /\ Len(coros) < Slots
            /\ cur_coro \in {0} \cup DOMAIN coros
            BY DEF CoroInv, TypeOK
      <2>3. joining \in BOOLEAN /\ since \in [1 .. Slots - 1 -> 0 .. Slots]
            BY DEF CoroInv, TypeOK
      <2> QED BY <2>1, <2>2, <2>3 DEF TypeOK
<1>4. SlotsMatch'
      BY <1>1, <1>2 DEF CoroInv, SlotsMatch
<1> QED BY <1>2, <1>3, <1>4 DEF CoroInv, RunningIsLive

\* An accepted coroutine fills a slot that was nobody's, and runs at once or
\* leaves the running one be.
LEMMA TakenIn ==
    ASSUME CoroInv, NEW id, id = FreeSlot(coros), id # 0,
           born < MaxSpawns, born' = born + 1, coros' = Fill(coros, id, Fresh(born + 1)),
           UNCHANGED <<joining, refused, ended>>, cur_coro' \in {cur_coro, id},
           since' \in [1 .. Slots - 1 -> 0 .. Slots]
    PROVE  /\ CoroInv' /\ id \in 1 .. Slots - 1
           /\ Live(coros') = Live(coros) \cup {id}
           /\ coros'[id].who = born + 1
           /\ \A i \in Live(coros) : i # id /\ coros'[i] = coros[i]
<1> DEFINE slot == Fresh(born + 1)
           T    == SlotType(1 .. MaxSpawns)
<1> USE CoroAssumption DEF CoroAssumption
<1>1. /\ coros \in Seq(T) /\ Len(coros) < Slots /\ born \in 0 .. MaxSpawns
      /\ born + 1 \in 1 .. MaxSpawns
      /\ refused \subseteq 1 .. born /\ ended \subseteq 1 .. born
      BY DEF CoroInv, TypeOK
<1>2. /\ id \in 0 .. Slots - 1 /\ id <= Len(coros) + 1 /\ id \notin Live(coros)
      BY <1>1, FreeSlotIsFree
<1>3. id \in 1 .. Len(coros) + 1 /\ id \in 1 .. Slots - 1
      BY <1>1, <1>2
<1>4. slot \in T /\ slot.who = born + 1 /\ ~slot.done /\ ~slot.moved
      BY <1>1 DEF Fresh, SlotType
<1>5. coros' = Fill(coros, id, slot)
      OBVIOUS
<1> HIDE DEF slot, T
<1>6. /\ coros' \in Seq(T)
      /\ Len(coros') = IF id > Len(coros) THEN Len(coros) + 1 ELSE Len(coros)
      /\ Live(coros') = Live(coros) \cup {id} /\ coros'[id] = slot
      /\ \A i \in Live(coros) : i # id /\ coros'[i] = coros[i]
      BY <1>1, <1>2, <1>3, <1>4, <1>5, FillsLive
<1>7. Accepted' = Accepted \cup {born + 1} /\ born + 1 \notin Accepted
      BY <1>1 DEF Accepted
<1>8. TypeOK'
      <2>1. Len(coros') < Slots
            BY <1>1, <1>3, <1>6
      <2>2. cur_coro' \in {0} \cup DOMAIN coros'
            <3>1. cur_coro \in {0} \cup Live(coros) /\ Live(coros') \subseteq DOMAIN coros'
                  BY DEF CoroInv, RunningIsLive, Live
            <3> QED BY <1>6, <3>1
      <2>3. refused' \subseteq 1 .. born' /\ ended' \subseteq 1 .. born' /\ born' \in 0 .. MaxSpawns
            BY <1>1
      <2>4. joining' \in BOOLEAN
            BY DEF CoroInv, TypeOK
      <2> QED BY <1>6, <2>1, <2>2, <2>3, <2>4 DEF TypeOK, T
<1>9. SlotsMatch'
      <2>1. \A i \in Live(coros) : coros[i].who \in Accepted
            BY DEF CoroInv, SlotsMatch
      <2>2. refused' \cap ended' = {}
            BY DEF CoroInv, SlotsMatch
      <2>3. coros'[id].who = born + 1 /\ \A i \in Live(coros) : coros'[i].who = coros[i].who
            BY <1>4, <1>6
      <2>4. \A w \in Accepted' : \E i \in Live(coros') : coros'[i].who = w
            <3> SUFFICES ASSUME NEW w \in Accepted' PROVE \E i \in Live(coros') : coros'[i].who = w
                OBVIOUS
            <3>1. CASE w = born + 1
                  BY <1>6, <2>3, <3>1
            <3>2. CASE w \in Accepted
                  <4>1. PICK i \in Live(coros) : coros[i].who = w
                        BY <3>2 DEF CoroInv, SlotsMatch
                  <4> QED BY <1>6, <2>3, <4>1
            <3> QED BY <1>7, <3>1, <3>2
      <2>5. \A i, j \in Live(coros') : coros'[i].who = coros'[j].who => i = j
            <3>1. \A i, j \in Live(coros) : coros[i].who = coros[j].who => i = j
                  BY DEF CoroInv, SlotsMatch
            <3>2. \A i \in Live(coros) : coros'[i].who # coros'[id].who
                  BY <1>7, <2>1, <2>3
            <3> SUFFICES ASSUME NEW i \in Live(coros'), NEW j \in Live(coros'),
                                coros'[i].who = coros'[j].who
                         PROVE  i = j
                OBVIOUS
            <3>3. CASE i = id \/ j = id
                  BY ONLY <1>6, <3>2, <3>3, i \in Live(coros'), j \in Live(coros'), coros'[i].who = coros'[j].who
            <3>4. CASE i \in Live(coros) /\ j \in Live(coros)
                  BY ONLY <2>3, <3>1, <3>4, coros'[i].who = coros'[j].who
            <3> QED BY <1>6, <3>3, <3>4
      <2> QED BY <1>4, <1>6, <1>7, <2>1, <2>2, <2>3, <2>4, <2>5 DEF SlotsMatch
<1>10. RunningIsLive'
      BY <1>6 DEF CoroInv, RunningIsLive
<1> QED BY <1>3, <1>4, <1>6, <1>8, <1>9, <1>10 DEF CoroInv

\* A spawn fills a slot that was nobody's, or is refused.
LEMMA SpawnKeepsInv ==
    ASSUME CoroInv, Spawn PROVE CoroInv'
<1>1. born < MaxSpawns /\ born' = born + 1 /\ UNCHANGED <<cur_coro, joining, ended>>
      BY DEF Spawn
<1>2. CASE FreeSlot(coros) = 0
      BY <1>1, <1>2, TurnedAway DEF Spawn
<1>3. CASE FreeSlot(coros) # 0
      <2>1. since' \in [1 .. Slots - 1 -> 0 .. Slots]
            <3>1. since \in [1 .. Slots - 1 -> 0 .. Slots] /\ 0 \in 0 .. Slots
                  BY CoroAssumption DEF CoroAssumption, CoroInv, TypeOK
            <3> QED BY <1>3, <3>1 DEF Spawn
      <2> QED BY <1>1, <1>3, <2>1, TakenIn DEF Spawn
<1> QED BY <1>2, <1>3

\* A switch to a live context keeps the types.
LEMMA SwitchTypes ==
    ASSUME TypeOK, NEW to, SwitchTo(to)
    PROVE  cur_coro' = to /\ since' \in [1 .. Slots - 1 -> 0 .. Slots]
BY CoroAssumption DEF TypeOK, SwitchTo

\* What a step that leaves the history alone has to show of the types.
LEMMA TypesOfParts ==
    ASSUME TypeOK, UNCHANGED <<joining, born, refused, ended>>,
           coros' \in Seq(SlotType(1 .. MaxSpawns)), Len(coros') < Slots,
           cur_coro' \in {0} \cup DOMAIN coros',
           since' \in [1 .. Slots - 1 -> 0 .. Slots]
    PROVE  TypeOK'
<1>1. /\ joining' \in BOOLEAN /\ born' \in 0 .. MaxSpawns
      /\ refused' \subseteq 1 .. born' /\ ended' \subseteq 1 .. born'
      BY DEF TypeOK
<1> QED BY <1>1 DEF TypeOK

\* A yield changes nobody's slot but for a flag that says it gave way.
LEMMA YieldKeepsInv ==
    ASSUME CoroInv, Yield PROVE CoroInv'
<1> DEFINE T == SlotType(1 .. MaxSpawns)
<1> USE CoroAssumption DEF CoroAssumption
<1>1. coros \in Seq(T) /\ Len(coros) < Slots /\ cur_coro \in {0} \cup DOMAIN coros /\ cur_coro \in Nat
      BY DEF CoroInv, TypeOK
<1>2. coros' \in Seq(T) /\ Len(coros') = Len(coros)
      <2>1. CASE cur_coro = 0
            BY <1>1, <2>1 DEF Yield
      <2>2. CASE cur_coro # 0
            <3>1. coros' = [coros EXCEPT ![cur_coro] = [coros[cur_coro] EXCEPT !.parked = TRUE]]
                  BY <2>2 DEF Yield
            <3>2. coros[cur_coro] \in T
                  <4> HIDE DEF T
                  <4> QED BY <1>1, <2>2
            <3>3. [coros[cur_coro] EXCEPT !.parked = TRUE] \in T
                  BY <3>2 DEF SlotType
            <3> HIDE DEF T
            <3> QED BY <1>1, <2>2, <3>1, <3>3
      <2> QED BY <2>1, <2>2
<1>3. \A i \in 1 .. Len(coros) : /\ coros'[i].who = coros[i].who
                                 /\ coros'[i].done = coros[i].done /\ coros'[i].moved = coros[i].moved
      <2>1. CASE cur_coro = 0
            BY <1>1, <2>1 DEF Yield
      <2>2. CASE cur_coro # 0
            BY <1>1, <2>2 DEF Yield, SlotType
      <2> QED BY <2>1, <2>2
<1>4. Live(coros') = Live(coros)
      BY <1>1, <1>2, <1>3 DEF Live, Runnable
<1>5. cur_coro' \in {0} \cup Live(coros) /\ since' \in [1 .. Slots - 1 -> 0 .. Slots]
      BY <1>1, NextIsLive, SwitchTypes DEF Yield, CoroInv
<1>6. Live(coros) \subseteq 1 .. Len(coros) /\ UNCHANGED <<joining, born, refused, ended>>
      BY <1>1 DEF Live, Yield
<1>7. TypeOK'
      <2>1. Len(coros') < Slots
            BY <1>1, <1>2
      <2>2. cur_coro' \in {0} \cup DOMAIN coros'
            <3>1. DOMAIN coros' = 1 .. Len(coros)
                  BY <1>2
            <3> QED BY <1>5, <1>6, <3>1
      <2> QED BY <1>2, <1>5, <1>6, <2>1, <2>2, TypesOfParts DEF CoroInv
<1>8. SlotsMatch'
      BY <1>3, <1>4, <1>6 DEF CoroInv, SlotsMatch, Accepted
<1> QED BY <1>4, <1>5, <1>7, <1>8 DEF CoroInv, RunningIsLive

\* The coroutine that ends gives up the one slot that was its own, whoever
\* gets control.
LEMMA GivenUp ==
    ASSUME CoroInv, cur_coro # 0, coros' = [coros EXCEPT ![cur_coro].done = TRUE],
           ended' = ended \cup {coros[cur_coro].who}, UNCHANGED <<joining, born, refused>>,
           NEW to, to \in {0} \cup Live(coros), to # cur_coro, SwitchTo(to)
    PROVE  /\ CoroInv' /\ Live(coros') = Live(coros) \ {cur_coro}
           /\ \A i \in Live(coros) : coros'[i].who = coros[i].who
<1> DEFINE T   == SlotType(1 .. MaxSpawns)
           who == coros[cur_coro].who
<1> USE CoroAssumption DEF CoroAssumption
<1>1. /\ coros \in Seq(T) /\ Len(coros) < Slots /\ cur_coro \in Live(coros)
      /\ cur_coro \in 1 .. Len(coros)
      /\ refused \subseteq 1 .. born /\ ended \subseteq 1 .. born
      BY DEF CoroInv, TypeOK, RunningIsLive, Live
<1>2. /\ coros' = [coros EXCEPT ![cur_coro] = [coros[cur_coro] EXCEPT !.done = TRUE]]
      /\ ended' = ended \cup {who} /\ UNCHANGED <<joining, born, refused>>
      OBVIOUS
<1>3. coros[cur_coro] \in T
      <2> HIDE DEF T
      <2> QED BY <1>1
<1>4. [coros[cur_coro] EXCEPT !.done = TRUE] \in T
      BY <1>3 DEF SlotType
<1>5. coros' \in Seq(T) /\ Len(coros') = Len(coros)
      <2> HIDE DEF T
      <2> QED BY <1>1, <1>2, <1>4
<1>6. \A i \in 1 .. Len(coros) : /\ coros'[i].who = coros[i].who
                                 /\ i # cur_coro => coros'[i] = coros[i]
      BY <1>1, <1>2, <1>3 DEF SlotType
<1>7. coros'[cur_coro].done
      BY <1>1, <1>2, <1>3 DEF SlotType
<1>8. Live(coros') = Live(coros) \ {cur_coro}
      BY <1>1, <1>5, <1>6, <1>7 DEF Live, Runnable
<1>9. who \in Accepted
      BY <1>1 DEF CoroInv, SlotsMatch
<1>10. Accepted' = Accepted \ {who}
      BY <1>2 DEF Accepted
<1>11. cur_coro' \in {0} \cup Live(coros')
      BY <1>8 DEF SwitchTo
<1>12. TypeOK'
      <2>1. since' \in [1 .. Slots - 1 -> 0 .. Slots]
            BY SwitchTypes DEF CoroInv
      <2>2. cur_coro' \in {0} \cup DOMAIN coros'
            BY <1>11 DEF Live
      <2>3. ended' \subseteq 1 .. born'
            BY <1>1, <1>2, <1>9 DEF Accepted
      <2>4. Len(coros') < Slots
            BY <1>1, <1>5
      <2>5. joining' \in BOOLEAN /\ born' \in 0 .. MaxSpawns /\ refused' \subseteq 1 .. born'
            BY <1>1, <1>2 DEF CoroInv, TypeOK
      <2> QED BY <1>5, <2>1, <2>2, <2>3, <2>4, <2>5 DEF TypeOK
<1>13. SlotsMatch'
      <2>1. refused' \cap ended' = {}
            BY <1>2, <1>9 DEF CoroInv, SlotsMatch, Accepted
      <2>2. \A i \in Live(coros') : coros'[i].who \in Accepted'
            BY <1>1, <1>6, <1>8, <1>10 DEF CoroInv, SlotsMatch, Live
      <2>3. \A w \in Accepted' : \E i \in Live(coros') : coros'[i].who = w
            BY <1>1, <1>6, <1>8, <1>10 DEF CoroInv, SlotsMatch, Live
      <2>4. \A i, j \in Live(coros') : coros'[i].who = coros'[j].who => i = j
            BY <1>1, <1>6, <1>8 DEF CoroInv, SlotsMatch, Live
      <2> QED BY <2>1, <2>2, <2>3, <2>4 DEF SlotsMatch
<1>14. \A i \in Live(coros) : coros'[i].who = coros[i].who
      BY <1>1, <1>6 DEF Live
<1> QED BY <1>8, <1>11, <1>12, <1>13, <1>14 DEF CoroInv, RunningIsLive

\* At the end of a coroutine the round goes on behind its slot.
LEMMA FinishKeepsInv ==
    ASSUME CoroInv, Finish PROVE CoroInv'
<1>1. coros \in Seq(SlotType(1 .. MaxSpawns)) /\ cur_coro \in Nat /\ cur_coro # 0
      BY DEF CoroInv, TypeOK, Finish
<1>2. CoroNext(coros, cur_coro) \in {0} \cup Live(coros) /\ CoroNext(coros, cur_coro) # cur_coro
      BY <1>1, NextIsLive
<1> QED BY <1>2, GivenUp DEF Finish

\* Every step keeps the invariant; joining touches no slot.
LEMMA StepKeepsInv == CoroInv /\ [Next]_vars => CoroInv'
<1> SUFFICES ASSUME CoroInv, [Next]_vars PROVE CoroInv'
    OBVIOUS
<1>1. CASE RunAll \/ RunAllDone \/ UNCHANGED vars
      <2>1. UNCHANGED <<coros, cur_coro, born, refused, ended, since>> /\ joining' \in BOOLEAN
            BY <1>1 DEF RunAll, RunAllDone, vars, CoroInv, TypeOK
      <2>2. TypeOK'
            BY <2>1 DEF CoroInv, TypeOK
      <2>3. RunningIsLive' /\ SlotsMatch'
            BY <2>1 DEF CoroInv, RunningIsLive, SlotsMatch, Accepted
      <2> QED BY <2>2, <2>3 DEF CoroInv
<1> QED BY <1>1, SpawnKeepsInv, YieldKeepsInv, FinishKeepsInv DEF Next

\* A coroutine with a slot has exactly one.
LEMMA InvGivesSound == CoroInv => TableSound
<1> SUFFICES ASSUME CoroInv, NEW w \in Accepted
             PROVE  Cardinality({i \in Live(coros) : coros[i].who = w}) = 1
    BY DEF CoroInv, TableSound, EachHasItsSlot, Accepted
<1>1. PICK i \in Live(coros) : coros[i].who = w
      BY DEF CoroInv, SlotsMatch
<1>2. {j \in Live(coros) : coros[j].who = w} = {i}
      BY <1>1 DEF CoroInv, SlotsMatch
<1> QED BY <1>2, FS_Singleton

\* The table and the history agree in every reachable state.
THEOREM CoroInvariant == Spec => []CoroInv
<1> QED BY InitInv, StepKeepsInv, PTL DEF Spec

\* Whatever slots are reused, each coroutine that was accepted and has not
\* ended has its own, and control is in a live one (coro_spawn, coro_finish).
THEOREM CoroSound == Spec => []TableSound
<1> QED BY CoroInvariant, InvGivesSound, PTL
-------------------------------------------------------------------------------
(* The round robin *)

\* A coroutine has waited for no more switches than there are places, in the
\* order of the scan, between its own and the running one's.
RoundInv ==
    \A i \in Live(coros) :
        since[i] <= IF cur_coro >= i THEN cur_coro - i ELSE Slots - i + cur_coro

\* What the types say of a live slot.
LEMMA LiveTypes ==
    ASSUME TypeOK
    PROVE  /\ Slots \in Nat /\ Len(coros) < Slots /\ Len(coros) \in Nat
           /\ cur_coro \in Nat /\ cur_coro <= Len(coros)
           /\ \A i \in Live(coros) : i \in 1 .. Slots - 1 /\ i <= Len(coros) /\ since[i] \in Nat
<1>1. Slots \in Nat /\ Len(coros) < Slots /\ Len(coros) \in Nat
      BY CoroAssumption DEF CoroAssumption, TypeOK
<1>2. cur_coro \in Nat /\ cur_coro <= Len(coros)
      BY DEF TypeOK
<1>3. \A i \in Live(coros) : i \in 1 .. Len(coros)
      BY DEF TypeOK, Live
<1>4. \A i \in 1 .. Slots - 1 : since[i] \in Nat
      BY DEF TypeOK
<1> QED BY <1>1, <1>2, <1>3, <1>4

\* A switch brings the running place one nearer to everybody who waits.
LEMMA SwitchKeepsRound ==
    ASSUME TypeOK, RoundInv, NEW to, to = CoroNext(coros, cur_coro), to # cur_coro, SwitchTo(to),
           NEW i \in Live(coros)
    PROVE  since'[i] <= IF to >= i THEN to - i ELSE Slots - i + to
<1>1. PICK c : c = cur_coro
      OBVIOUS
<1>2. /\ c \in Nat /\ c < Slots /\ Slots \in Nat /\ i \in Nat /\ i >= 1 /\ i < Slots /\ since[i] \in Nat
      /\ i \in DOMAIN since
      BY <1>1, LiveTypes DEF TypeOK
<1>3. since[i] <= IF c >= i THEN c - i ELSE Slots - i + c
      BY <1>1 DEF RoundInv
<1>4. since'[i] \in Nat /\ since'[i] <= since[i] + 1
      <2>1. since'[i] = IF i = to THEN 0 ELSE IF since[i] < Slots THEN since[i] + 1 ELSE since[i]
            BY <1>2 DEF SwitchTo
      <2> QED BY <1>2, <2>1
<1>5. CASE i = to
      <2>1. since'[i] = 0
            BY <1>2, <1>5 DEF SwitchTo
      <2> QED BY <1>2, <1>5, <2>1
<1>6. CASE i # to /\ to = 0
      <2>1. i <= c
            <3> SUFFICES ASSUME i > c PROVE FALSE
                BY <1>2
            <3> DEFINE later == {j \in Live(coros) : j > cur_coro}
            <3>1. i \in later
                  BY <1>1
            <3>2. later \subseteq Nat
                  BY LiveTypes
            <3>3. Least(later) \in later
                  BY <3>1, <3>2, LeastOf
            <3>4. to \in later
                  BY <3>1, <3>3 DEF CoroNext
            <3> QED BY <1>1, <1>2, <1>6, <3>4
      <2> QED BY <1>2, <1>3, <1>4, <1>6, <2>1
<1>7. CASE i # to /\ to # 0
      <2>1. to \in Nat /\ to > c /\ (i > c => i > to)
            <3> DEFINE later == {j \in Live(coros) : j > cur_coro}
            <3>1. later # {} /\ to = Least(later)
                  BY <1>7 DEF CoroNext
            <3>2. later \subseteq Nat
                  BY LiveTypes
            <3>3. to \in later /\ \A j \in later : to <= j
                  BY <3>1, <3>2, LeastOf
            <3>4. i > c => to <= i
                  BY <1>1, <3>3
            <3> HIDE DEF later
            <3>5. to \in Nat
                  BY <3>2, <3>3
            <3>6. to > c
                  BY <1>1, <3>3 DEF later
            <3> QED BY <1>2, <1>7, <3>4, <3>5, <3>6
      <2> QED BY <1>2, <1>3, <1>4, <1>7, <2>1
<1> QED BY <1>5, <1>6, <1>7

\* Every step keeps the round robin; a slot just filled has waited for none.
LEMMA StepKeepsRound == CoroInv /\ RoundInv /\ [Next]_vars => RoundInv'
<1> SUFFICES ASSUME CoroInv, RoundInv, [Next]_vars PROVE RoundInv'
    OBVIOUS
<1>0. TypeOK /\ coros \in Seq(SlotType(1 .. MaxSpawns))
      BY DEF CoroInv, TypeOK
<1>1. CASE Spawn
      <2>0. born + 1 \in 1 .. MaxSpawns
            BY <1>0, <1>1, CoroAssumption DEF CoroAssumption, Spawn, TypeOK
      <2>1. UNCHANGED cur_coro /\ Fresh(born + 1) \in SlotType(1 .. MaxSpawns)
            BY <1>1, <2>0 DEF Spawn, Fresh, SlotType
      <2>2. CASE FreeSlot(coros) = 0
            <3>1. UNCHANGED <<coros, since>>
                  BY <1>1, <2>2 DEF Spawn
            <3> QED BY <2>1, <3>1 DEF RoundInv
      <2>3. CASE FreeSlot(coros) # 0
            <3>1. PICK id, slot : id = FreeSlot(coros) /\ slot = Fresh(born + 1)
                  OBVIOUS
            <3>2. coros' = Fill(coros, id, slot) /\ since' = [since EXCEPT ![id] = 0]
                  BY <1>1, <2>3, <3>1 DEF Spawn
            <3>3. id \in 0 .. Slots - 1 /\ id <= Len(coros) + 1 /\ id # 0
                  BY <1>0, <2>3, <3>1, FreeSlotIsFree, CoroAssumption DEF CoroAssumption, TypeOK
            <3>4. id \in 1 .. Len(coros) + 1 /\ slot \in SlotType(1 .. MaxSpawns)
                  BY <1>0, <2>1, <3>1, <3>3, LiveTypes
            <3>5. /\ Len(coros') = IF id > Len(coros) THEN Len(coros) + 1 ELSE Len(coros)
                  /\ coros' \in Seq(SlotType(1 .. MaxSpawns))
                  /\ \A j \in 1 .. Len(coros') : coros'[j] = IF j = id THEN slot ELSE coros[j]
                  <4>1. PICK tab, T : tab = coros /\ T = SlotType(1 .. MaxSpawns)
                        OBVIOUS
                  <4>2. tab \in Seq(T) /\ slot \in T /\ id \in 1 .. Len(tab) + 1
                        BY <1>0, <3>4, <4>1
                  <4>3. /\ Fill(tab, id, slot) \in Seq(T)
                        /\ Len(Fill(tab, id, slot)) = IF id > Len(tab) THEN Len(tab) + 1 ELSE Len(tab)
                        /\ \A j \in 1 .. Len(Fill(tab, id, slot)) :
                             Fill(tab, id, slot)[j] = IF j = id THEN slot ELSE tab[j]
                        BY ONLY <4>2, FillSlot
                  <4> QED BY <3>2, <4>1, <4>3
            <3>6. \A i \in Live(coros') : i \in Live(coros) \/ i = id
                  BY <1>0, <3>4, <3>5 DEF Live, Runnable
            <3>7. since'[id] = 0 /\ \A i \in Live(coros) : i # id => since'[i] = since[i]
                  BY <3>2, <3>3, LiveTypes, <1>0 DEF TypeOK
            <3>8. ASSUME NEW i \in Live(coros')
                  PROVE  since'[i] <= IF cur_coro >= i THEN cur_coro - i ELSE Slots - i + cur_coro
                  <4>1. CASE i = id
                        BY <1>0, <3>3, <3>7, <4>1, LiveTypes
                  <4>2. CASE i # id
                        BY <3>6, <3>7, <3>8, <4>2 DEF RoundInv
                  <4> QED BY <4>1, <4>2
            <3> QED BY <2>1, <3>8 DEF RoundInv
      <2> QED BY <2>2, <2>3
<1>2. CASE Yield \/ Finish
      <2>1. PICK to : to = CoroNext(coros, cur_coro)
            OBVIOUS
      <2>2. SwitchTo(to) /\ cur_coro' = to
            BY <1>2, <2>1 DEF Yield, Finish, SwitchTo
      <2>3. to # cur_coro
            <3>1. CASE Yield
                  BY <2>1, <3>1 DEF Yield
            <3>2. CASE Finish
                  <4> DEFINE later == {j \in Live(coros) : j > cur_coro}
                  <4>1. later \subseteq Nat /\ cur_coro \in Nat /\ cur_coro # 0
                        BY <1>0, <3>2, LiveTypes DEF Finish
                  <4>2. CASE later # {}
                        <5>1. Least(later) \in later
                              BY <4>1, <4>2, LeastOf
                        <5> QED BY <2>1, <4>1, <4>2, <5>1 DEF CoroNext
                  <4> QED BY <2>1, <4>1, <4>2 DEF CoroNext
            <3> QED BY <1>2, <3>1, <3>2
      <2>4. \A i \in Live(coros') : i \in Live(coros)
            <3>1. CASE cur_coro = 0
                  BY <1>2, <3>1 DEF Yield, Finish
            <3>2. CASE cur_coro # 0
                  <4>1. PICK slot : coros' = [coros EXCEPT ![cur_coro] = slot]
                                    /\ (~slot.done /\ ~slot.moved =>
                                            ~coros[cur_coro].done /\ ~coros[cur_coro].moved)
                        <5>1. cur_coro \in Live(coros)
                              BY <3>2 DEF CoroInv, RunningIsLive
                        <5>2. ~coros[cur_coro].done /\ ~coros[cur_coro].moved
                              BY <5>1 DEF Live, Runnable
                        <5>3. \E slot : coros' = [coros EXCEPT ![cur_coro] = slot]
                              BY <1>2, <3>2 DEF Yield, Finish
                        <5> QED BY <5>2, <5>3
                  <4>2. DOMAIN coros' = DOMAIN coros /\ \A i \in DOMAIN coros : i # cur_coro => coros'[i] = coros[i]
                        BY <1>0, <4>1
                  <4>3. cur_coro \in Live(coros)
                        BY <3>2 DEF CoroInv, RunningIsLive
                  <4> QED BY <4>2, <4>3 DEF Live, Runnable
            <3> QED BY <3>1, <3>2
      <2>5. \A i \in Live(coros) : since'[i] <= IF to >= i THEN to - i ELSE Slots - i + to
            BY <1>0, <2>1, <2>2, <2>3, SwitchKeepsRound
      <2> QED BY <2>2, <2>4, <2>5 DEF RoundInv
<1>3. CASE RunAll \/ RunAllDone \/ UNCHANGED vars
      <2>1. UNCHANGED <<coros, cur_coro, since>>
            BY <1>3 DEF RunAll, RunAllDone, vars
      <2> QED BY <2>1 DEF RoundInv
<1> QED BY <1>1, <1>2, <1>3 DEF Next

\* A live coroutine waits for at most one turn of every other context, also
\* when slots are reused and others spawn meanwhile (coro_next).
THEOREM CoroRoundRobin == Spec => []WaitsOneRound
<1>1. Init => RoundInv
      BY DEF Init, RoundInv, Live
<1>2. CoroInv /\ RoundInv => WaitsOneRound
      <2> SUFFICES ASSUME TypeOK, RoundInv, NEW i \in Live(coros) PROVE since[i] < Slots
          BY DEF CoroInv, WaitsOneRound
      <2>1. since[i] <= IF cur_coro >= i THEN cur_coro - i ELSE Slots - i + cur_coro
            BY DEF RoundInv
      <2> QED BY <2>1, LiveTypes
<1> QED BY <1>1, <1>2, StepKeepsRound, CoroInvariant, PTL DEF Spec
-------------------------------------------------------------------------------
(* The promise *)

\* A coroutine and its live slot stand for one another: those alive are the
\* accepted ones, and they are as many as the live slots.
LEMMA AliveCounts ==
    ASSUME CoroInv
    PROVE  /\ Alive = Accepted
           /\ IsFiniteSet(Live(coros)) /\ Cardinality(Alive) = Cardinality(Live(coros))
<1> DEFINE holder == [i \in Live(coros) |-> coros[i].who]
<1>1. Alive = Accepted
      BY DEF CoroInv, SlotsMatch, Alive
<1>2. IsFiniteSet(Live(coros))
      <2>1. IsFiniteSet(1 .. Len(coros)) /\ Live(coros) \subseteq 1 .. Len(coros)
            BY FS_Interval DEF CoroInv, TypeOK, Live
      <2> QED BY <2>1, FS_Subset
<1>3. holder \in Surjection(Live(coros), Alive)
      BY DEF Surjection, Alive
<1>4. holder \in Injection(Live(coros), Alive)
      BY DEF Injection, IsInjective, Alive, CoroInv, SlotsMatch
<1> HIDE DEF holder
<1> QED BY <1>1, <1>2, <1>3, <1>4, FS_Surjection

\* Who runs, in the promise's words.
LEMMA RunningSays ==
    ASSUME CoroInv
    PROVE  /\ Running = 0 <=> cur_coro = 0
           /\ cur_coro # 0 => Running = coros[cur_coro].who /\ Running \in Alive
           /\ \A i \in Live(coros) : coros[i].who \in Alive /\ coros[i].who # 0
<1>1. \A i \in Live(coros) : coros[i].who \in Alive /\ coros[i].who # 0
      BY DEF CoroInv, SlotsMatch, Accepted, Alive, TypeOK
<1> QED BY <1>1 DEF CoroInv, RunningIsLive, Running

\* A spawn finds the table full exactly when that many coroutines are alive.
LEMMA FullMeansFull ==
    ASSUME CoroInv
    PROVE  FreeSlot(coros) = 0 <=> ~ (Cardinality(Alive) < Slots - 1)
<1> DEFINE live == Live(coros)
<1> USE CoroAssumption DEF CoroAssumption
<1>1. /\ coros \in Seq(SlotType(1 .. MaxSpawns)) /\ Len(coros) \in Nat /\ Len(coros) < Slots
      /\ live \subseteq 1 .. Len(coros)
      BY DEF CoroInv, TypeOK, Live
<1>2. IsFiniteSet(1 .. Len(coros)) /\ Cardinality(1 .. Len(coros)) = Len(coros)
      <2>1. PICK n \in Nat : n = Len(coros)
            BY <1>1
      <2>2. Cardinality(1 .. n) = IF 1 > n THEN 0 ELSE n - 1 + 1
            BY FS_Interval
      <2>3. IsFiniteSet(1 .. n)
            BY FS_Interval
      <2> QED BY <2>1, <2>2, <2>3
<1>3. /\ Cardinality(live) <= Len(coros) /\ Cardinality(live) \in Nat
      /\ Cardinality(live) = Len(coros) => live = 1 .. Len(coros)
      BY <1>1, <1>2, FS_Subset, FS_CardinalityType
<1>4. CASE live = 1 .. Len(coros)
      <2>1. FreeSlot(coros) = IF Len(coros) + 1 >= Slots THEN 0 ELSE Len(coros) + 1
            BY <1>1, <1>4 DEF FreeSlot
      <2> QED BY <1>1, <1>2, <1>4, <2>1, AliveCounts
<1>5. CASE live # 1 .. Len(coros)
      <2> DEFINE reusable == DOMAIN coros \ live
      <2>1. reusable # {} /\ reusable \subseteq 1 .. Len(coros)
            <3>1. DOMAIN coros = 1 .. Len(coros)
                  BY <1>1
            <3> HIDE DEF live
            <3> QED BY <1>1, <1>5, <3>1
      <2>2. Least(reusable) \in reusable
            BY <2>1, LeastOf, reusable \subseteq Nat
      <2>3. FreeSlot(coros) = Least(reusable)
            BY <2>1 DEF FreeSlot
      <2>4. Cardinality(live) < Slots - 1
            BY <1>1, <1>3, <1>5
      <2> QED BY <2>1, <2>2, <2>3, <2>4, AliveCounts
<1> QED BY <1>4, <1>5

\* A spawn takes a coroutine in or turns it away, as promised.
LEMMA SpawnPromised ==
    ASSUME CoroInv, CoroInv', Spawn PROVE Abs!Spawn
<1>1. /\ born < MaxSpawns /\ (~joining \/ cur_coro # 0) /\ born' = born + 1
      /\ UNCHANGED <<cur_coro, joining, ended>>
      BY DEF Spawn
<1>2. born \in Nat /\ refused \subseteq 1 .. born /\ ended \subseteq 1 .. born
      BY DEF CoroInv, TypeOK
<1>3. Alive = Accepted /\ Alive' = Accepted'
      BY DEF CoroInv, SlotsMatch, Alive
<1>4. Alive' = IF Cardinality(Alive) < Slots - 1 THEN Alive \cup {born + 1} ELSE Alive
      <2>1. CASE FreeSlot(coros) = 0
            <3>1. refused' = refused \cup {born + 1}
                  BY <2>1 DEF Spawn
            <3>2. Accepted' = Accepted
                  BY <1>1, <1>2, <3>1 DEF Accepted
            <3> QED BY <1>3, <2>1, <3>2, FullMeansFull
      <2>2. CASE FreeSlot(coros) # 0
            <3>1. refused' = refused
                  BY <2>2 DEF Spawn
            <3>2. Accepted' = Accepted \cup {born + 1}
                  BY <1>1, <1>2, <3>1 DEF Accepted
            <3> QED BY <1>3, <2>2, <3>2, FullMeansFull
      <2> QED BY <2>1, <2>2
<1>5. Running' = Running
      <2>1. CASE cur_coro = 0
            BY <1>1, <2>1 DEF Running
      <2>2. CASE cur_coro # 0
            <3>1. cur_coro \in Live(coros) /\ cur_coro \in 1 .. Len(coros)
                  BY <2>2 DEF CoroInv, RunningIsLive, TypeOK
            <3>2. coros'[cur_coro] = coros[cur_coro]
                  <4> DEFINE id == FreeSlot(coros)
                  <4>1. coros \in Seq(SlotType(1 .. MaxSpawns)) /\ Len(coros) < Slots
                        BY DEF CoroInv, TypeOK
                  <4>2. id \in 0 .. Slots - 1 /\ id <= Len(coros) + 1 /\ id # cur_coro
                        BY <3>1, <4>1, CoroAssumption, FreeSlotIsFree DEF CoroAssumption
                  <4>3. CASE id = 0
                        BY <4>3 DEF Spawn
                  <4>4. CASE id # 0
                        <5>1. coros' = Fill(coros, id, Fresh(born + 1))
                              BY <4>4 DEF Spawn
                        <5> HIDE DEF id
                        <5> QED BY <3>1, <4>1, <4>2, <5>1 DEF Fill
                  <4> QED BY <4>3, <4>4
            <3> QED BY <1>1, <2>2, <3>2 DEF Running
      <2> QED BY <2>1, <2>2
<1>6. ~joining \/ Running # 0
      BY <1>1, RunningSays
<1>7. Abs!Cardinality(Alive) = Cardinality(Alive)
      BY Zenon DEF Abs!Cardinality, Cardinality
<1> QED BY <1>1, <1>4, <1>5, <1>6, <1>7 DEF Abs!Spawn

\* A yield hands the thread to somebody else who is alive, or to main.
LEMMA YieldPromised ==
    ASSUME CoroInv, CoroInv', Yield PROVE Abs!Yield
<1>1. PICK to : to = CoroNext(coros, cur_coro) /\ to # cur_coro /\ cur_coro' = to
      BY DEF Yield, SwitchTo
<1>2. UNCHANGED <<joining, born, refused, ended>>
      BY DEF Yield
<1>3. Alive' = Alive
      <2>1. Alive = Accepted /\ Alive' = Accepted'
            BY DEF CoroInv, SlotsMatch, Alive
      <2> QED BY <1>2, <2>1 DEF Accepted
<1>4. coros \in Seq(SlotType(1 .. MaxSpawns)) /\ cur_coro \in Nat
      BY DEF CoroInv, TypeOK
<1>5. to \in {0} \cup Live(coros)
      BY <1>1, <1>4, NextIsLive
<1>6. to # 0 => coros'[to] = coros[to]
      BY <1>1, <1>4, <1>5 DEF Yield, Live
<1>7. Running' = IF to = 0 THEN 0 ELSE coros[to].who
      BY <1>1, <1>6 DEF Running
<1>8. Running' \in Alive \cup {0}
      BY <1>5, <1>7, RunningSays
<1>9. Running' # Running
      <2>1. CASE to = 0
            BY <1>1, <1>7, <2>1, RunningSays
      <2>2. CASE to # 0 /\ cur_coro = 0
            BY <1>5, <1>7, <2>2, RunningSays DEF Running
      <2>3. CASE to # 0 /\ cur_coro # 0
            <3>1. to \in Live(coros) /\ cur_coro \in Live(coros)
                  BY <1>5, <2>3 DEF CoroInv, RunningIsLive
            <3>2. coros[to].who # coros[cur_coro].who
                  BY <1>1, <3>1 DEF CoroInv, SlotsMatch
            <3> QED BY <1>7, <2>3, <3>2 DEF Running
      <2> QED BY <2>1, <2>2, <2>3
<1> QED BY <1>2, <1>3, <1>8, <1>9 DEF Abs!Yield

\* A coroutine that ends leaves, and the thread goes to who is left or to main.
LEMMA FinishPromised ==
    ASSUME CoroInv, CoroInv', Finish PROVE Abs!Finish
<1>1. /\ cur_coro # 0 /\ ended' = ended \cup {coros[cur_coro].who}
      /\ UNCHANGED <<joining, born, refused>>
      BY DEF Finish
<1>2. Running # 0 /\ Running = coros[cur_coro].who
      BY <1>1, RunningSays
<1>3. Alive' = Alive \ {Running}
      <2>1. Alive = Accepted /\ Alive' = Accepted'
            BY DEF CoroInv, SlotsMatch, Alive
      <2> QED BY <1>1, <1>2, <2>1 DEF Accepted
<1>4. Running' \in Alive' \cup {0}
      BY DEF CoroInv, RunningIsLive, Running, Alive
<1> QED BY <1>1, <1>2, <1>3, <1>4 DEF Abs!Finish

\* Joining begins and ends as promised.
LEMMA JoinPromised ==
    ASSUME CoroInv, CoroInv', RunAll \/ RunAllDone PROVE Abs!RunAll \/ Abs!RunAllDone
<1>1. UNCHANGED <<coros, cur_coro, born>> /\ cur_coro = 0 /\ joining' # joining
      BY DEF RunAll, RunAllDone, CoroInv, TypeOK
<1>2. UNCHANGED <<Alive, Running>> /\ Running = 0
      BY <1>1 DEF Alive, Running
<1>3. CASE RunAll
      BY <1>1, <1>2, <1>3 DEF RunAll, Abs!RunAll
<1>4. CASE RunAllDone
      <2>1. Alive = {}
            BY <1>4 DEF RunAllDone, CoroPending, Alive
      <2> QED BY <1>1, <1>2, <1>4, <2>1 DEF RunAllDone, Abs!RunAllDone
<1> QED BY <1>3, <1>4

\* The slot table keeps the promise of a scheduler for every size of it: a
\* spawn is refused exactly when CORO_SLOTS - 1 coroutines are alive, and a
\* switch only goes to who is alive (coro_spawn, coro_next, coro_finish,
\* coro_run_all).
THEOREM CoroKeepsPromise == Spec => Promise
<1>1. Init => Abs!Init
      BY DEF Init, Abs!Init, Alive, Running, Live
<1>2. CoroInv /\ CoroInv' /\ [Next]_vars => [Abs!Next]_(Abs!vars)
      <2> SUFFICES ASSUME CoroInv, CoroInv', [Next]_vars PROVE [Abs!Next]_(Abs!vars)
          OBVIOUS
      <2>1. CASE Next
            BY <2>1, SpawnPromised, YieldPromised, FinishPromised, JoinPromised DEF Next, Abs!Next
      <2>2. CASE UNCHANGED vars
            BY <2>2 DEF vars, Abs!vars, Alive, Running
      <2> QED BY <2>1, <2>2
<1> QED BY <1>1, <1>2, CoroInvariant, PTL DEF Spec, Promise, Abs!Spec
-------------------------------------------------------------------------------
(* Generators *)

\* A generator that is not at its end and does not rest at a yield: its body
\* runs, or has switched away itself.
Acting(g)   == g \in made /\ ~Over(g) /\ (g = Me \/ g \in calling)
Consumer(g) == WhoIs(gens[g].parent)

GenCounts == got \in [Numbers -> 0 .. MaxYields] /\ last \in [Numbers -> 0 .. MaxYields]

\* What the Gen of a generator has to do with its coroutine and its values: a
\* resting one holds the value that is still to be delivered, the others none.
Kept(g) ==
    /\ g \in refused <=> gens[g].coro = 0
    /\ g \in ended <=> gens[g].done
    /\ ~Over(g) => gens[g].coro \in Live(coros) /\ coros[gens[g].coro].who = g
    /\ last[g] = got[g]
    /\ Over(g) \/ Acting(g) => got[g] = yielded[g]
    /\ ~Over(g) /\ ~Acting(g) => gens[g].val = got[g] + 1 /\ yielded[g] = got[g] + 1

GenKept ==
    /\ \A g \in made : Kept(g)
    /\ \A g \in Numbers \ made : yielded[g] = 0 /\ got[g] = 0 /\ last[g] = 0
    /\ \A g \in told : Over(g)

\* Whoever called the body that runs is still where it called it, and nobody
\* has called two: control goes back the way it came.
GenChain ==
    /\ Me \notin calling
    /\ \A g \in made : Acting(g) =>
          /\ gens[g].parent \in {0} \cup Live(coros)
          /\ Consumer(g) \in calling
          /\ \A h \in made : Acting(h) /\ Consumer(h) = Consumer(g) => h = g

\* The inductive invariant of generators.
GenInv == CoroInv /\ GenTypes /\ GenCounts /\ GenKept /\ GenChain

\* What the invariant says of the contexts there are.
LEMMA Contexts ==
    ASSUME CoroInv, GenTypes
    PROVE  /\ cur_coro \in {0} \cup Live(coros)
           /\ \A i \in {0} \cup Live(coros) : i \in 0 .. Slots - 1 /\ WhoIs(i) \in {0} \cup Accepted
           /\ \A i \in Live(coros) : i # 0 /\ WhoIs(i) = coros[i].who /\ WhoIs(i) # 0
           /\ \A i, j \in {0} \cup Live(coros) : WhoIs(i) = WhoIs(j) => i = j
           /\ born \in 0 .. MaxSpawns /\ 0 \notin Accepted /\ Accepted \subseteq 1 .. born
           /\ made \subseteq Numbers /\ born + 1 \notin made /\ born + 1 \notin calling
           /\ cur_coro \in 0 .. Slots - 1 /\ Me \in 0 .. born
<1>1. cur_coro \in {0} \cup Live(coros)
      BY DEF CoroInv, RunningIsLive
<1>2. born \in 0 .. MaxSpawns /\ 0 \notin Accepted /\ Accepted \subseteq 1 .. born
      BY DEF CoroInv, TypeOK, Accepted
<1>3. Live(coros) \subseteq 1 .. Slots - 1
      BY CoroAssumption DEF CoroAssumption, CoroInv, TypeOK, Live
<1>4. \A i \in Live(coros) : i # 0 /\ WhoIs(i) = coros[i].who /\ coros[i].who \in Accepted
      BY <1>3 DEF CoroInv, SlotsMatch, WhoIs
<1>5. \A i, j \in Live(coros) : coros[i].who = coros[j].who => i = j
      BY DEF CoroInv, SlotsMatch
<1>6. WhoIs(0) = 0
      BY DEF WhoIs
<1>7. \A i \in {0} \cup Live(coros) : i \in 0 .. Slots - 1 /\ WhoIs(i) \in {0} \cup Accepted
      BY <1>3, <1>4, <1>6, CoroAssumption DEF CoroAssumption
<1>8. \A i, j \in {0} \cup Live(coros) : WhoIs(i) = WhoIs(j) => i = j
      BY <1>2, <1>4, <1>5, <1>6
<1>9. made \subseteq Numbers /\ born + 1 \notin made /\ born + 1 \notin calling
      BY <1>2, CoroAssumption DEF CoroAssumption, GenTypes, Numbers
<1>10. cur_coro \in 0 .. Slots - 1 /\ Me \in 0 .. born
      <2>1. cur_coro \in 0 .. Slots - 1 /\ Me \in {0} \cup Accepted
            BY <1>1, <1>7 DEF Me
      <2>2. \A w \in {0} \cup Accepted : w \in 0 .. born
            BY <1>2
      <2> QED BY <2>1, <2>2
<1> QED BY <1>1, <1>2, <1>4, <1>7, <1>8, <1>9, <1>10

\* Who is live stays who it is.
Settled(rest) ==
    \A i \in rest : i \in Live(coros') /\ coros'[i].who = coros[i].who

\* A step that leaves control where it is leaves the chain as it is, also
\* when a generator is made that never gets to run.
LEMMA StaysPut ==
    ASSUME GenInv, CoroInv', Settled(Live(coros)), UNCHANGED <<cur_coro, calling>>,
           made \subseteq made', \A g \in made : gens'[g] = gens[g],
           \A g \in made' \ made : ~Acting(g)'
    PROVE  GenChain' /\ \A g \in made : Acting(g)' <=> Acting(g)
<1>1. \A i \in {0} \cup Live(coros) : i \in {0} \cup Live(coros') /\ WhoIs(i)' = WhoIs(i)
      BY DEF Settled, WhoIs
<1>2. Me' = Me
      BY <1>1, Contexts DEF Me, GenInv
<1>3. \A g \in made : Over(g)' <=> Over(g)
      BY DEF Over
<1>4. \A g \in made : Acting(g)' <=> Acting(g)
      BY <1>2, <1>3 DEF Acting
<1>5. \A g \in made : Acting(g) => Consumer(g)' = Consumer(g)
      BY <1>1 DEF Consumer, GenInv, GenChain
<1>6. GenChain'
      <2>1. \A g \in made' : Acting(g)' => g \in made /\ Acting(g)
            BY <1>4
      <2>2. \A g \in made : Acting(g) => /\ gens'[g].parent \in {0} \cup Live(coros')
                                         /\ Consumer(g)' \in calling
            BY <1>1, <1>5 DEF GenInv, GenChain
      <2>3. \A g, h \in made : Acting(g) /\ Acting(h) /\ Consumer(h)' = Consumer(g)' => h = g
            BY <1>5 DEF GenInv, GenChain
      <2> QED BY <1>2, <2>1, <2>2, <2>3 DEF GenInv, GenChain
<1> QED BY <1>4, <1>6

\* A call of a generator puts it at the end of the chain, behind its caller.
LEMMA CallExtends ==
    ASSUME GenInv, CoroInv', Settled(Live(coros)),
           NEW g, g \notin calling, g # Me, made' = made \cup {g}, calling' = calling \cup {Me},
           cur_coro' \in Live(coros'), coros'[cur_coro'].who = g,
           gens'[g].coro # 0, ~gens'[g].done, gens'[g].parent = cur_coro,
           \A h \in made \ {g} : gens'[h] = gens[h]
    PROVE  /\ GenChain' /\ Acting(g)'
           /\ \A h \in made \ {g} : Acting(h)' <=> Acting(h)
<1>1. \A i \in {0} \cup Live(coros) : i \in {0} \cup Live(coros') /\ WhoIs(i)' = WhoIs(i)
      BY DEF Settled, WhoIs
<1>2. cur_coro' # 0 /\ Me' = g
      <2>1. \A i \in Live(coros') : i # 0
            BY DEF CoroInv, TypeOK, Live
      <2> QED BY <2>1 DEF Me, WhoIs
<1>3. Acting(g)'
      BY <1>2 DEF Acting, Over
<1>4. \A h \in made \ {g} : Over(h)' <=> Over(h)
      BY DEF Over
<1>5. \A h \in made \ {g} : Acting(h)' <=> Acting(h)
      BY <1>2, <1>4 DEF Acting
<1>6. \A h \in made \ {g} : Acting(h) => /\ gens'[h].parent \in {0} \cup Live(coros')
                                        /\ Consumer(h)' = Consumer(h) /\ Consumer(h) \in calling
      BY <1>1 DEF Consumer, GenInv, GenChain
<1>7. gens'[g].parent \in {0} \cup Live(coros') /\ Consumer(g)' = Me
      BY <1>1, Contexts DEF GenInv, Consumer, Me
<1>8. Me \notin calling /\ \A h, k \in made : Acting(h) /\ Acting(k) /\ Consumer(h) = Consumer(k) => h = k
      BY DEF GenInv, GenChain
<1>9. GenChain'
      <2>1. Me' \notin calling'
            BY <1>2
      <2>2. ASSUME NEW h \in made', Acting(h)' PROVE /\ gens'[h].parent \in {0} \cup Live(coros')
                                                    /\ Consumer(h)' \in calling'
            BY <1>5, <1>6, <1>7, <2>2
      <2>3. ASSUME NEW h \in made', NEW k \in made', Acting(h)', Acting(k)', Consumer(h)' = Consumer(k)'
            PROVE  h = k
            <3>1. CASE h # g /\ k # g
                  BY <1>5, <1>6, <1>8, <2>3, <3>1
            <3>2. CASE h # g /\ k = g
                  BY <1>5, <1>6, <1>7, <1>8, <2>3, <3>2
            <3>3. CASE h = g /\ k # g
                  BY <1>5, <1>6, <1>7, <1>8, <2>3, <3>3
            <3> QED BY <3>1, <3>2, <3>3
      <2> QED BY <2>1, <2>2, <2>3 DEF GenChain
<1> QED BY <1>3, <1>5, <1>9

\* A generator gives control back to its consumer and leaves the chain.
LEMMA ReturnShortens ==
    ASSUME GenInv, CoroInv', Settled(Live(coros) \ {cur_coro}),
           NEW m, m = Me, Acting(m), made' = made, calling' = calling \ {Consumer(m)},
           cur_coro' = gens[m].parent,
           \A h \in made \ {m} : gens'[h] = gens[h]
    PROVE  /\ GenChain' /\ ~Acting(m)' /\ gens[m].parent # cur_coro
           /\ \A h \in made \ {m} : Acting(h)' <=> Acting(h)
<1> DEFINE c == Consumer(m)
<1>1. \A i \in ({0} \cup Live(coros)) \ {cur_coro} :
         i \in {0} \cup Live(coros') /\ WhoIs(i)' = WhoIs(i)
      BY DEF Settled, WhoIs
<1>2. m \in made /\ m \notin calling /\ cur_coro \in {0} \cup Live(coros)
      BY Contexts DEF GenInv, GenChain, Acting
<1>3. \A h \in made : Acting(h) => /\ gens[h].parent \in {0} \cup Live(coros)
                                   /\ Consumer(h) \in calling
                                   /\ gens[h].parent # cur_coro
      BY <1>2 DEF GenInv, GenChain, Consumer, Me
<1>4. c \in calling /\ c # m /\ Me' = c
      <2>1. c \in calling /\ gens[m].parent \in ({0} \cup Live(coros)) \ {cur_coro}
            BY <1>2, <1>3
      <2>2. Me' = c
            BY <1>1, <2>1 DEF Consumer, Me, WhoIs
      <2> QED BY <1>2, <2>1, <2>2
<1>5. m # Me' /\ m \notin calling'
      BY <1>2, <1>4
<1>6. \A h \in made \ {m} : Over(h)' <=> Over(h)
      BY DEF Over
<1>7. \A h \in made \ {m} : Acting(h)' <=> Acting(h)
      BY <1>4, <1>6 DEF Acting
<1>8. ~Acting(m)'
      BY <1>5 DEF Acting
<1>9. \A h \in made \ {m} : Acting(h) => /\ gens'[h].parent \in {0} \cup Live(coros')
                                        /\ Consumer(h)' = Consumer(h)
      BY <1>1, <1>3 DEF Consumer
<1>10. \A h, k \in made : Acting(h) /\ Acting(k) /\ Consumer(h) = Consumer(k) => h = k
      BY DEF GenInv, GenChain
<1>11. GenChain'
      <2>1. Me' \notin calling'
            BY <1>4
      <2>2. ASSUME NEW h \in made, Acting(h)'
            PROVE  h # m /\ Acting(h) /\ Consumer(h) # c
            BY <1>2, <1>7, <1>8, <1>10, <2>2
      <2>3. ASSUME NEW h \in made, Acting(h)'
            PROVE  gens'[h].parent \in {0} \cup Live(coros') /\ Consumer(h)' \in calling'
            BY <1>3, <1>9, <2>2, <2>3
      <2>4. ASSUME NEW h \in made, NEW k \in made, Acting(h)', Acting(k)', Consumer(h)' = Consumer(k)'
            PROVE  h = k
            BY <1>9, <1>10, <2>2, <2>4
      <2> QED BY <2>1, <2>3, <2>4 DEF GenChain
<1> QED BY <1>2, <1>3, <1>7, <1>8, <1>11

\* A generator nothing happens to is kept as it was.
LEMMA KeptStays ==
    ASSUME NEW g, Kept(g), Acting(g)' <=> Acting(g), gens'[g] = gens[g],
           g \in refused' <=> g \in refused, g \in ended' <=> g \in ended,
           last'[g] = last[g], got'[g] = got[g], yielded'[g] = yielded[g],
           ~Over(g) => Settled({gens[g].coro})
    PROVE  Kept(g)'
<1>1. Over(g)' <=> Over(g)
      BY DEF Over
<1>2. ~Over(g) => gens[g].coro \in Live(coros') /\ coros'[gens[g].coro].who = coros[gens[g].coro].who
      BY DEF Settled
<1> QED BY <1>1, <1>2 DEF Kept

\* A switch to who is live keeps the table sound.
LEMMA SwitchKeepsInv ==
    ASSUME CoroInv, NEW to, to \in {0} \cup Live(coros), SwitchTo(to),
           UNCHANGED <<coros, joining, born, refused, ended>>
    PROVE  CoroInv' /\ cur_coro' = to
<1>1. cur_coro' = to /\ since' \in [1 .. Slots - 1 -> 0 .. Slots]
      BY SwitchTypes DEF CoroInv
<1>2. coros \in Seq(SlotType(1 .. MaxSpawns)) /\ Len(coros) < Slots /\ Live(coros) \subseteq DOMAIN coros
      BY DEF CoroInv, TypeOK, Live
<1>3. TypeOK'
      BY <1>1, <1>2, TypesOfParts DEF CoroInv
<1>4. RunningIsLive' /\ SlotsMatch'
      BY <1>1 DEF CoroInv, RunningIsLive, SlotsMatch, Accepted
<1> QED BY <1>1, <1>3, <1>4 DEF CoroInv

\* The slots of the coroutines there are, after a spawn.
LEMMA SpawnSettles ==
    ASSUME CoroInv, Spawn PROVE Settled(Live(coros))
<1>1. born < MaxSpawns /\ born' = born + 1 /\ UNCHANGED <<cur_coro, joining, ended>>
      BY DEF Spawn
<1>2. CASE FreeSlot(coros) = 0
      BY <1>1, <1>2 DEF Spawn, Settled
<1>3. CASE FreeSlot(coros) # 0
      <2>1. since' \in [1 .. Slots - 1 -> 0 .. Slots]
            BY SpawnKeepsInv DEF CoroInv, TypeOK
      <2>2. \A i \in Live(coros) : i \in Live(coros') /\ coros'[i] = coros[i]
            BY <1>1, <1>3, <2>1, TakenIn DEF Spawn
      <2> QED BY <2>2 DEF Settled
<1> QED BY <1>2, <1>3

\* A plain spawn is nothing to a generator.
LEMMA SpawnPlainKeepsGen ==
    ASSUME GenInv, SpawnPlain PROVE GenInv'
<1>1. Spawn /\ UNCHANGED genvars /\ CoroInv'
      BY SpawnKeepsInv DEF SpawnPlain, GenInv
<1>2. Settled(Live(coros))
      BY <1>1, SpawnSettles DEF GenInv
<1>3. /\ UNCHANGED <<cur_coro, ended, gens, made, calling, yielded, got, last, told>>
      /\ refused' \in {refused, refused \cup {born + 1}} /\ born' = born + 1
      BY <1>1 DEF Spawn, genvars
<1>4. GenChain' /\ \A g \in made : Acting(g)' <=> Acting(g)
      BY <1>1, <1>2, <1>3, StaysPut
<1>5. born \in 0 .. MaxSpawns /\ born + 1 \notin made
      BY Contexts DEF GenInv
<1>6. ASSUME NEW g \in made PROVE Kept(g)'
      <2>1. Kept(g) /\ (g \in refused' <=> g \in refused)
            BY <1>3, <1>5 DEF GenInv, GenKept
      <2>2. ~Over(g) => Settled({gens[g].coro})
            BY <1>2, <2>1 DEF Kept, Settled
      <2> QED BY <1>3, <1>4, <2>1, <2>2, KeptStays
<1>7. GenKept'
      BY <1>3, <1>6 DEF GenInv, GenKept, Over
<1>8. GenTypes' /\ GenCounts'
      BY <1>3, <1>5 DEF GenInv, GenTypes, GenCounts
<1> QED BY <1>1, <1>4, <1>7, <1>8 DEF GenInv

\* A round robin that comes when every generator is at its end finds nobody
\* to disturb.
LEMMA RoundKeepsGen ==
    ASSUME GenInv, CoroInv', \A g \in made : Over(g),
           UNCHANGED <<born, refused, gens, made, yielded, got, last, told>>,
           calling' = calling \ {Me'}, \A g \in made : g \in ended' <=> g \in ended
    PROVE  GenInv'
<1>1. \A g \in made : Over(g)'
      BY DEF Over
<1>2. GenChain'
      BY <1>1 DEF GenChain, Acting
<1>3. ASSUME NEW g \in made PROVE Kept(g)'
      <2>1. Kept(g) /\ Over(g) /\ Over(g)'
            BY <1>1 DEF GenInv, GenKept
      <2> QED BY <2>1 DEF Kept
<1>4. GenKept'
      BY <1>1, <1>3 DEF GenInv, GenKept, Over
<1>5. GenTypes' /\ GenCounts'
      BY DEF GenInv, GenTypes, GenCounts
<1> QED BY <1>2, <1>4, <1>5 DEF GenInv

\* Whoever the round robin comes to is who it was.
LEMMA RoundFinds ==
    ASSUME CoroInv, Yield \/ Finish PROVE Me' = WhoIs(cur_coro')
<1> DEFINE to == CoroNext(coros, cur_coro)
<1>1. coros \in Seq(SlotType(1 .. MaxSpawns)) /\ cur_coro \in Nat
      BY DEF CoroInv, TypeOK
<1>2. to \in {0} \cup Live(coros) /\ to # cur_coro
      BY <1>1, NextIsLive DEF Yield, Finish
<1>3. cur_coro' = to
      BY DEF Yield, Finish, SwitchTo
<1> HIDE DEF to
<1>4. to # 0 => coros'[to] = coros[to]
      BY <1>1, <1>2 DEF Yield, Finish, Live
<1> QED BY <1>3, <1>4 DEF Me, WhoIs

\* So it is for coro_yield, coro_finish and coro_run_all.
LEMMA PlainKeepsGen ==
    ASSUME ~Mixing, GenInv, YieldAny \/ FinishPlain \/ RunAllMain PROVE GenInv'
<1>1. \A g \in made : Over(g)
      BY DEF YieldAny, FinishPlain, RunAllMain, MayYield
<1>2. CoroInv'
      BY StepKeepsInv DEF YieldAny, FinishPlain, RunAllMain, Next, GenInv
<1>3. CASE YieldAny
      <2>1. calling' = calling \ {Me'}
            BY <1>3, RoundFinds DEF YieldAny, GenInv
      <2> QED BY <1>1, <1>2, <1>3, <2>1, RoundKeepsGen DEF YieldAny, Yield
<1>4. CASE FinishPlain
      <2>1. Me \notin made /\ ended' = ended \cup {Me}
            BY <1>4 DEF FinishPlain, Finish, Me, WhoIs
      <2>2. calling' = calling \ {Me'}
            BY <1>4, RoundFinds DEF FinishPlain, GenInv
      <2> QED BY <1>1, <1>2, <1>4, <2>1, <2>2, RoundKeepsGen DEF FinishPlain, Finish
<1>5. CASE RunAllMain
      <2>1. UNCHANGED <<coros, cur_coro, born, refused, ended, gens, made, calling, yielded, got, last, told>>
            BY <1>5 DEF RunAllMain, RunAll, RunAllDone, genvars
      <2>2. Me' = Me /\ calling' = calling \ {Me'}
            BY <2>1 DEF Me, WhoIs, GenInv, GenChain
      <2> QED BY <1>1, <1>2, <2>1, <2>2, RoundKeepsGen
<1> QED BY <1>3, <1>4, <1>5

\* A generator that runs is acting.
LEMMA RunningActs ==
    ASSUME GenInv, Me \in made PROVE Acting(Me) /\ cur_coro # 0 /\ cur_coro \in Live(coros)
<1>1. cur_coro \in Live(coros) /\ cur_coro # 0 /\ Me \in Accepted
      <2>1. Me # 0 /\ (cur_coro = 0 => Me = 0)
            BY DEF GenInv, GenTypes, Me, WhoIs
      <2>2. /\ cur_coro \in {0} \cup Live(coros) /\ 0 \notin Live(coros)
            /\ WhoIs(cur_coro) \in {0} \cup Accepted
            BY Contexts DEF GenInv
      <2> QED BY <2>1, <2>2 DEF Me
<1>2. ~Over(Me)
      BY <1>1 DEF GenInv, GenKept, Kept, Over, Accepted
<1> QED BY <1>1, <1>2 DEF Acting

\* gen_yield leaves the value where gen_next finds it.
LEMMA GenYieldKeepsGen ==
    ASSUME GenInv, GenYield PROVE GenInv'
<1>1. PICK m : m = Me /\ m \in made /\ Acting(m)
      BY RunningActs DEF GenYield
<1>2. /\ m \in Numbers /\ yielded[m] < MaxYields /\ yielded' = [yielded EXCEPT ![m] = @ + 1]
      /\ gens' = [gens EXCEPT ![m].val = yielded[m] + 1]
      /\ SwitchTo(gens[m].parent) /\ calling' = calling \ {Consumer(m)}
      /\ UNCHANGED <<coros, joining, born, refused, ended, made, got, last, told>>
      BY <1>1, Contexts DEF GenInv, GenYield, Consumer
<1>3. /\ gens \in [Numbers -> [coro : 0 .. Slots - 1, parent : 0 .. Slots - 1,
                               done : BOOLEAN, val : 0 .. MaxYields]]
      /\ yielded \in [Numbers -> 0 .. MaxYields] /\ MaxYields \in Nat
      BY GenAssumption DEF GenAssumption, GenInv, GenTypes
<1>4. yielded[m] \in Nat /\ yielded[m] + 1 \in 0 .. MaxYields /\ yielded'[m] = yielded[m] + 1
      BY <1>2, <1>3
<1>5. /\ gens'[m].val = yielded[m] + 1 /\ gens'[m].coro = gens[m].coro
      /\ gens'[m].parent = gens[m].parent /\ gens'[m].done = gens[m].done
      BY <1>2, <1>3
<1>6. \A h \in Numbers \ {m} : gens'[h] = gens[h] /\ yielded'[h] = yielded[h]
      BY <1>2, <1>3
<1>7. gens[m].parent \in {0} \cup Live(coros)
      BY <1>1 DEF GenInv, GenChain
<1>8. CoroInv' /\ cur_coro' = gens[m].parent
      BY <1>2, <1>7, SwitchKeepsInv DEF GenInv
<1>9. Settled(Live(coros))
      BY <1>2 DEF Settled
<1>10. made \subseteq Numbers
      BY Contexts DEF GenInv
<1>11. GenChain' /\ ~Acting(m)' /\ \A h \in made \ {m} : Acting(h)' <=> Acting(h)
      BY <1>1, <1>2, <1>6, <1>8, <1>9, <1>10, ReturnShortens DEF Settled
<1>12. ASSUME NEW g \in made PROVE Kept(g)'
      <2>1. Kept(g)
            BY DEF GenInv, GenKept
      <2>2. CASE g = m
            <3>1. ~Over(m) /\ ~Over(m)'
                  BY <1>1, <1>5 DEF Over, Acting
            <3>2. /\ got[m] = yielded[m] /\ last[m] = got[m]
                  /\ m \in refused <=> gens[m].coro = 0
                  /\ m \in ended <=> gens[m].done
                  /\ gens[m].coro \in Live(coros) /\ coros[gens[m].coro].who = m
                  BY <1>1, <2>1, <2>2, <3>1 DEF Kept
            <3> QED BY <1>2, <1>4, <1>5, <1>11, <2>2, <3>1, <3>2 DEF Kept
      <2>3. CASE g # m
            <3>1. ~Over(g) => Settled({gens[g].coro})
                  BY <1>9, <2>1 DEF Kept, Settled
            <3> QED BY <1>2, <1>6, <1>10, <1>11, <2>1, <2>3, <3>1, KeptStays
      <2> QED BY <2>2, <2>3
<1>13. GenKept'
      <2>1. \A g \in made : Over(g)' <=> Over(g)
            BY <1>5, <1>6, <1>10 DEF Over
      <2> QED BY <1>1, <1>2, <1>6, <1>12, <2>1 DEF GenInv, GenKept, GenTypes
<1>14. GenTypes' /\ GenCounts'
      <2>1. gens' \in [Numbers -> [coro : 0 .. Slots - 1, parent : 0 .. Slots - 1,
                                   done : BOOLEAN, val : 0 .. MaxYields]]
            BY <1>2, <1>3, <1>4
      <2>2. yielded' \in [Numbers -> 0 .. MaxYields]
            BY <1>2, <1>3, <1>4
      <2> QED BY <1>2, <2>1, <2>2 DEF GenInv, GenTypes, GenCounts
<1> QED BY <1>8, <1>11, <1>13, <1>14 DEF GenInv

\* gen_finish comes when every value yielded has been delivered.
LEMMA GenFinishKeepsGen ==
    ASSUME GenInv, GenFinish PROVE GenInv'
<1>1. PICK m : m = Me /\ m \in made /\ Acting(m)
      BY RunningActs DEF GenFinish
<1>2. /\ m \in Numbers /\ gens' = [gens EXCEPT ![m].done = TRUE]
      /\ coros' = [coros EXCEPT ![cur_coro].done = TRUE] /\ ended' = ended \cup {m}
      /\ SwitchTo(gens[m].parent) /\ calling' = calling \ {Consumer(m)}
      /\ UNCHANGED <<joining, born, refused, made, yielded, got, last, told>>
      BY <1>1, Contexts DEF GenInv, GenFinish, Consumer
<1>3. gens \in [Numbers -> [coro : 0 .. Slots - 1, parent : 0 .. Slots - 1,
                            done : BOOLEAN, val : 0 .. MaxYields]]
      BY DEF GenInv, GenTypes
<1>4. /\ gens'[m].done /\ gens'[m].coro = gens[m].coro
      /\ \A h \in Numbers \ {m} : gens'[h] = gens[h]
      BY <1>2, <1>3
<1>5. cur_coro # 0 /\ cur_coro \in Live(coros) /\ m = coros[cur_coro].who
      BY <1>1, RunningActs DEF Me, WhoIs
<1>6. gens[m].parent \in {0} \cup Live(coros) /\ cur_coro' = gens[m].parent
      BY <1>1, <1>2 DEF GenInv, GenChain, SwitchTo
<1>7. gens[m].parent # cur_coro
      BY <1>1 DEF GenInv, GenChain, Consumer, Me
<1>8. /\ CoroInv' /\ Live(coros') = Live(coros) \ {cur_coro}
      /\ \A i \in Live(coros) : coros'[i].who = coros[i].who
      BY <1>2, <1>5, <1>6, <1>7, GivenUp DEF GenInv
<1>9. Settled(Live(coros) \ {cur_coro}) /\ made \subseteq Numbers
      BY <1>8, Contexts DEF Settled, GenInv
<1>10. GenChain' /\ ~Acting(m)' /\ \A h \in made \ {m} : Acting(h)' <=> Acting(h)
      BY <1>1, <1>2, <1>4, <1>6, <1>8, <1>9, ReturnShortens
<1>11. ASSUME NEW g \in made PROVE Kept(g)'
      <2>1. Kept(g)
            BY DEF GenInv, GenKept
      <2>2. CASE g = m
            <3>1. Over(m)' /\ got[m] = yielded[m] /\ last[m] = got[m]
                  BY <1>1, <1>4, <2>1, <2>2 DEF Over, Kept
            <3>2. m \in refused <=> gens[m].coro = 0
                  BY <2>1, <2>2 DEF Kept
            <3> QED BY <1>2, <1>4, <2>2, <3>1, <3>2 DEF Kept
      <2>3. CASE g # m
            <3>1. ~Over(g) => Settled({gens[g].coro})
                  BY <1>5, <1>9, <2>1, <2>3 DEF Kept, Settled
            <3> QED BY <1>2, <1>4, <1>9, <1>10, <2>1, <2>3, <3>1, KeptStays
      <2> QED BY <2>2, <2>3
<1>12. GenKept'
      <2>1. \A g \in made : Over(g) => Over(g)'
            BY <1>4, <1>9 DEF Over
      <2> QED BY <1>2, <1>11, <2>1 DEF GenInv, GenKept, GenTypes
<1>13. GenTypes' /\ GenCounts'
      <2>1. gens' \in [Numbers -> [coro : 0 .. Slots - 1, parent : 0 .. Slots - 1,
                                   done : BOOLEAN, val : 0 .. MaxYields]]
            BY <1>2, <1>3
      <2> QED BY <1>2, <2>1 DEF GenInv, GenTypes, GenCounts
<1> QED BY <1>8, <1>10, <1>12, <1>13 DEF GenInv

\* gen_next delivers the one value that stood in the Gen, or the end.
LEMMA GenNextKeepsGen ==
    ASSUME GenInv, NEW m \in made, GenNext(m) PROVE GenInv'
<1>1. m # Me /\ m \notin calling /\ UNCHANGED <<coros, joining, born, refused, ended, made, yielded>>
      BY DEF GenNext
<1>2. Kept(m) /\ m \in Numbers /\ made \subseteq Numbers
      BY Contexts DEF GenInv, GenKept
<1>3. Settled(Live(coros))
      BY <1>1 DEF Settled
<1>4. CASE Over(m)
      <2>1. told' = told \cup {m} /\ UNCHANGED <<gens, calling, got, last, cur_coro, since>>
            BY <1>4 DEF GenNext
      <2>2. CoroInv'
            <3>1. UNCHANGED vars
                  BY <1>1, <2>1 DEF vars
            <3> QED BY <3>1, StepKeepsInv DEF GenInv
      <2>3. GenChain' /\ \A g \in made : Acting(g)' <=> Acting(g)
            BY <1>1, <1>3, <2>1, <2>2, StaysPut
      <2>4. ASSUME NEW g \in made PROVE Kept(g)'
            <3>1. Kept(g) /\ (~Over(g) => Settled({gens[g].coro}))
                  BY <1>3 DEF GenInv, GenKept, Kept, Settled
            <3> QED BY <1>1, <2>1, <2>3, <3>1, KeptStays
      <2>5. GenKept'
            BY <1>1, <1>4, <2>1, <2>4 DEF GenInv, GenKept, Over
      <2>6. GenTypes' /\ GenCounts'
            BY <1>1, <2>1 DEF GenInv, GenTypes, GenCounts
      <2> QED BY <2>2, <2>3, <2>5, <2>6 DEF GenInv
<1>5. CASE ~Over(m)
      <2>1. /\ last' = [last EXCEPT ![m] = gens[m].val] /\ got' = [got EXCEPT ![m] = @ + 1]
            /\ gens' = [gens EXCEPT ![m].parent = cur_coro]
            /\ calling' = calling \cup {Me} /\ SwitchTo(gens[m].coro) /\ UNCHANGED told
            BY <1>5 DEF GenNext
      <2>2. /\ gens \in [Numbers -> [coro : 0 .. Slots - 1, parent : 0 .. Slots - 1,
                                     done : BOOLEAN, val : 0 .. MaxYields]]
            /\ yielded \in [Numbers -> 0 .. MaxYields]
            /\ got \in [Numbers -> 0 .. MaxYields] /\ last \in [Numbers -> 0 .. MaxYields]
            BY DEF GenInv, GenTypes, GenCounts
      <2>3. /\ gens[m].val = got[m] + 1 /\ yielded[m] = got[m] + 1
            /\ gens[m].coro \in Live(coros) /\ coros[gens[m].coro].who = m
            BY <1>1, <1>2, <1>5 DEF Kept, Acting
      <2>4. /\ gens'[m].coro = gens[m].coro /\ gens'[m].done = gens[m].done
            /\ gens'[m].parent = cur_coro
            /\ last'[m] = got[m] + 1 /\ got'[m] = got[m] + 1
            BY <1>2, <2>1, <2>2, <2>3
      <2>5. \A h \in Numbers \ {m} : gens'[h] = gens[h] /\ last'[h] = last[h] /\ got'[h] = got[h]
            BY <2>1, <2>2
      <2>6. CoroInv' /\ cur_coro' = gens[m].coro
            BY <1>1, <2>1, <2>3, SwitchKeepsInv DEF GenInv
      <2>7. gens'[m].coro # 0 /\ ~gens'[m].done
            BY <1>5, <2>4 DEF Over
      <2>8. /\ GenChain' /\ Acting(m)'
            /\ \A h \in made \ {m} : Acting(h)' <=> Acting(h)
            <3>1. made' = made \cup {m} /\ cur_coro' \in Live(coros') /\ coros'[cur_coro'].who = m
                  BY <1>1, <2>3, <2>6
            <3>2. \A h \in made \ {m} : gens'[h] = gens[h]
                  BY <1>2, <2>5
            <3> QED BY <1>1, <1>3, <2>1, <2>4, <2>6, <2>7, <3>1, <3>2, CallExtends
      <2>9. ASSUME NEW g \in made PROVE Kept(g)'
            <3>1. Kept(g)
                  BY DEF GenInv, GenKept
            <3>2. CASE g = m
                  <4>1. /\ m \in refused <=> gens[m].coro = 0
                        /\ m \in ended <=> gens[m].done
                        BY <1>2 DEF Kept
                  <4>2. ~Over(m)' /\ last'[m] = got'[m] /\ got'[m] = yielded[m]
                        BY <2>3, <2>4, <2>7 DEF Over
                  <4>3. gens'[m].coro \in Live(coros') /\ coros'[gens'[m].coro].who = m
                        BY <1>1, <2>3, <2>4
                  <4>4. /\ m \in refused' <=> gens'[m].coro = 0
                        /\ m \in ended' <=> gens'[m].done
                        BY <1>1, <2>4, <4>1
                  <4>5. yielded'[m] = yielded[m]
                        BY <1>1
                  <4> QED BY <2>8, <3>2, <4>2, <4>3, <4>4, <4>5 DEF Kept
            <3>3. CASE g # m
                  <4>1. ~Over(g) => Settled({gens[g].coro})
                        BY <1>3, <3>1 DEF Kept, Settled
                  <4> QED BY <1>1, <1>2, <2>5, <2>8, <3>1, <3>3, <4>1, KeptStays
            <3> QED BY <3>2, <3>3
      <2>10. GenKept'
            <3>1. \A g \in made : Over(g)' <=> Over(g)
                  BY <1>2, <2>4, <2>5 DEF Over
            <3> QED BY <1>1, <2>1, <2>5, <2>9, <3>1 DEF GenInv, GenKept, GenTypes
      <2>11. GenTypes' /\ GenCounts'
            <3>1. cur_coro \in 0 .. Slots - 1 /\ Me \in 0 .. born
                  BY Contexts DEF GenInv
            <3>2. gens' \in [Numbers -> [coro : 0 .. Slots - 1, parent : 0 .. Slots - 1,
                                         done : BOOLEAN, val : 0 .. MaxYields]]
                  BY <2>1, <2>2, <3>1
            <3>3. got[m] + 1 \in 0 .. MaxYields
                  BY <1>2, <2>2, <2>3
            <3>4. GenCounts'
                  BY <2>1, <2>2, <2>3, <3>3 DEF GenCounts
            <3> QED BY <1>1, <2>1, <3>1, <3>2, <3>4 DEF GenInv, GenTypes
      <2> QED BY <2>6, <2>8, <2>10, <2>11 DEF GenInv
<1> QED BY <1>4, <1>5

\* A generator that is made is refused, or runs to its first value, on a Gen
\* that no other has left its end in.
LEMMA GenerateKeepsGen ==
    ASSUME ~Recycled, GenInv, Generate PROVE GenInv'
<1> DEFINE GenType == [coro : 0 .. Slots - 1, parent : 0 .. Slots - 1,
                       done : BOOLEAN, val : 0 .. MaxYields]
           new     == [ZeroGen EXCEPT !.coro = FreeSlot(coros)]
<1>1. PICK m, id : m = born + 1 /\ id = FreeSlot(coros)
      OBVIOUS
<1>2. /\ born < MaxSpawns /\ born' = m /\ made' = made \cup {m}
      /\ UNCHANGED <<joining, ended, yielded, got, last, told>>
      BY <1>1 DEF Generate
<1>3. /\ born \in 0 .. MaxSpawns /\ m \notin made /\ m \notin calling /\ made \subseteq Numbers
      /\ cur_coro \in 0 .. Slots - 1 /\ Me \in 0 .. born
      BY <1>1, Contexts DEF GenInv
<1>4. /\ m \in Numbers /\ m # Me /\ m \notin refused /\ m \notin ended /\ MaxYields \in Nat /\ Slots \in Nat \ {0}
      BY <1>1, <1>2, <1>3, CoroAssumption, GenAssumption
      DEF CoroAssumption, GenAssumption, Numbers, GenInv, CoroInv, TypeOK
<1>5. yielded[m] = 0 /\ got[m] = 0 /\ last[m] = 0
      BY <1>3, <1>4 DEF GenInv, GenKept
<1>6. gens \in [Numbers -> GenType]
      BY DEF GenInv, GenTypes
<1>7. ZeroGen \in GenType /\ ~ZeroGen.done
      BY <1>4 DEF ZeroGen
<1>8. {gens[h] : h \in {x \in made : Recycled /\ Over(x)}} = {}
      OBVIOUS
<1>9. new \in GenType /\ new.coro = id /\ ~new.done
      <2>1. id \in 0 .. Slots - 1
            BY <1>1, CoroAssumption, FreeSlotIsFree DEF CoroAssumption, GenInv, CoroInv, TypeOK
      <2> QED BY <1>1, <1>7, <2>1
<1>10. CASE id = 0
      <2>1. /\ gens' = [gens EXCEPT ![m] = new]
            /\ refused' = refused \cup {m} /\ UNCHANGED <<coros, cur_coro, since, calling>>
            BY <1>1, <1>10, <1>7, <1>8 DEF Generate
      <2>2. CoroInv' /\ Settled(Live(coros))
            BY <1>1, <1>2, <2>1, TurnedAway DEF Settled, GenInv
      <2>3. new \in GenType
            BY <1>9
      <2>4. gens' \in [Numbers -> GenType] /\ gens'[m] = new
            BY <1>4, <1>6, <2>1, <2>3
      <2>5. \A h \in Numbers \ {m} : gens'[h] = gens[h]
            BY <1>6, <2>1
      <2>6. gens'[m].coro = 0 /\ ~gens'[m].done
            BY <1>10, <1>9, <2>4
      <2>7. ~Acting(m)' /\ Over(m)'
            BY <2>6 DEF Acting, Over
      <2>8. \A g \in made : (Over(g)' <=> Over(g)) /\ g # m /\ gens'[g] = gens[g]
            BY <1>3, <2>5 DEF Over
      <2>9. GenChain' /\ \A g \in made : Acting(g)' <=> Acting(g)
            BY <1>2, <2>1, <2>2, <2>7, <2>8, StaysPut
      <2>10. ASSUME NEW g \in made' PROVE Kept(g)'
            <3>1. CASE g = m
                  BY <1>2, <1>4, <1>5, <2>1, <2>6, <2>7, <3>1 DEF Kept
            <3>2. CASE g \in made
                  <4>1. Kept(g) /\ (~Over(g) => Settled({gens[g].coro}))
                        BY <2>2, <3>2 DEF GenInv, GenKept, Kept, Settled
                  <4> QED BY <1>2, <2>1, <2>8, <2>9, <3>2, <4>1, KeptStays
            <3> QED BY <1>2, <3>1, <3>2
      <2>11. GenKept'
            BY <1>2, <1>3, <2>8, <2>10 DEF GenInv, GenKept, GenTypes
      <2>12. GenTypes' /\ GenCounts'
            BY <1>1, <1>2, <1>3, <2>1, <2>4 DEF GenInv, GenTypes, GenCounts
      <2> QED BY <2>2, <2>9, <2>11, <2>12 DEF GenInv
<1>11. CASE id # 0
      <2>1. /\ gens' = [gens EXCEPT ![m] = [new EXCEPT !.parent = cur_coro]]
            /\ coros' = Fill(coros, id, Fresh(m)) /\ UNCHANGED refused
            /\ calling' = calling \cup {Me} /\ SwitchTo(id)
            BY <1>1, <1>11, <1>7, <1>8 DEF Generate
      <2>2. cur_coro' = id /\ since' \in [1 .. Slots - 1 -> 0 .. Slots]
            BY <2>1, SwitchTypes DEF GenInv, CoroInv
      <2>3. /\ CoroInv' /\ id \in 1 .. Slots - 1 /\ id \in Live(coros') /\ coros'[id].who = m
            /\ \A i \in Live(coros) : i \in Live(coros') /\ coros'[i] = coros[i]
            BY <1>1, <1>2, <1>11, <2>1, <2>2, TakenIn DEF GenInv
      <2>4. Settled(Live(coros))
            BY <2>3 DEF Settled
      <2>5. [new EXCEPT !.parent = cur_coro] \in GenType
            BY <1>3, <1>9
      <2>6. gens' \in [Numbers -> GenType]
            BY <1>4, <1>6, <2>1, <2>5
      <2>7. \A h \in Numbers \ {m} : gens'[h] = gens[h]
            BY <1>6, <2>1
      <2>8. gens'[m].coro = id /\ ~gens'[m].done /\ gens'[m].parent = cur_coro
            <3>1. gens'[m] = [new EXCEPT !.parent = cur_coro]
                  BY <1>4, <1>6, <2>1
            <3> HIDE DEF new
            <3> QED BY <1>9, <3>1
      <2>9. GenChain' /\ Acting(m)' /\ \A h \in made \ {m} : Acting(h)' <=> Acting(h)
            <3>1. \A h \in made \ {m} : gens'[h] = gens[h]
                  BY <1>3, <2>7
            <3> QED BY <1>2, <1>3, <1>4, <1>11, <2>1, <2>2, <2>3, <2>4, <2>8, <3>1, CallExtends
      <2>10. \A g \in made : (Over(g)' <=> Over(g)) /\ g # m /\ gens'[g] = gens[g]
            BY <1>3, <2>7 DEF Over
      <2>11. ASSUME NEW g \in made' PROVE Kept(g)'
            <3>1. CASE g = m
                  <4>1. ~Over(m)' /\ got'[m] = yielded'[m] /\ last'[m] = got'[m]
                        BY <1>2, <1>5, <1>11, <2>8 DEF Over
                  <4>2. gens'[m].coro \in Live(coros') /\ coros'[gens'[m].coro].who = m
                        BY <2>3, <2>8
                  <4>3. /\ m \in refused' <=> gens'[m].coro = 0
                        /\ m \in ended' <=> gens'[m].done
                        BY <1>2, <1>4, <1>11, <2>1, <2>8
                  <4> QED BY <2>9, <3>1, <4>1, <4>2, <4>3 DEF Kept
            <3>2. CASE g \in made
                  <4>1. Kept(g) /\ (~Over(g) => Settled({gens[g].coro}))
                        BY <2>4, <3>2 DEF GenInv, GenKept, Kept, Settled
                  <4> QED BY <1>2, <2>1, <2>9, <2>10, <3>2, <4>1, KeptStays
            <3> QED BY <1>2, <3>1, <3>2
      <2>12. GenKept'
            BY <1>2, <1>3, <2>10, <2>11 DEF GenInv, GenKept, GenTypes
      <2>13. GenTypes' /\ GenCounts'
            BY <1>1, <1>2, <1>3, <2>1, <2>6 DEF GenInv, GenTypes, GenCounts
      <2> QED BY <2>3, <2>9, <2>12, <2>13 DEF GenInv
<1> QED BY <1>10, <1>11

\* Generators are as they should be when the program starts.
LEMMA InitGenInv == InitGen => GenInv
<1> SUFFICES ASSUME InitGen PROVE GenInv
    OBVIOUS
<1> USE CoroAssumption, GenAssumption DEF CoroAssumption, GenAssumption
<1>1. CoroInv
      BY InitInv DEF InitGen
<1>2. /\ made = {} /\ calling = {} /\ told = {} /\ born = 0
      /\ gens = [g \in Numbers |-> ZeroGen]
      /\ yielded = [g \in Numbers |-> 0] /\ got = [g \in Numbers |-> 0] /\ last = [g \in Numbers |-> 0]
      BY DEF InitGen, Init
<1>3. GenTypes
      <2>1. ZeroGen \in [coro : 0 .. Slots - 1, parent : 0 .. Slots - 1,
                         done : BOOLEAN, val : 0 .. MaxYields]
            BY DEF ZeroGen
      <2>2. gens \in [Numbers -> [coro : 0 .. Slots - 1, parent : 0 .. Slots - 1,
                                  done : BOOLEAN, val : 0 .. MaxYields]]
            BY <1>2, <2>1
      <2>3. yielded \in [Numbers -> 0 .. MaxYields]
            BY <1>2
      <2> QED BY <1>2, <2>2, <2>3 DEF GenTypes
<1>4. GenCounts /\ GenKept /\ GenChain
      BY <1>2 DEF GenCounts, GenKept, GenChain
<1> QED BY <1>1, <1>3, <1>4 DEF GenInv

\* What the invariant promises the consumers.
LEMMA GenInvGivesSound == GenInv => GenSound
<1> SUFFICES ASSUME GenInv PROVE GenSound
    OBVIOUS
<1>1. \A g \in made : Kept(g)
      BY DEF GenInv, GenKept
<1>2. InOrder
      BY <1>1 DEF InOrder, Kept
<1>3. NoneLost
      <2> SUFFICES ASSUME NEW g \in told
                   PROVE  g \in refused \/ (g \in ended /\ got[g] = yielded[g])
          BY DEF NoneLost
      <2>1. g \in made /\ Over(g) /\ Kept(g)
            BY <1>1 DEF GenInv, GenKept, GenTypes
      <2> QED BY <2>1 DEF Kept, Over
<1> QED BY <1>2, <1>3, InvGivesSound DEF GenInv, GenSound

\* While no coro_yield comes between a generator and its consumer, and no
\* Gen is cut from memory another has ended in, the values of every
\* generator come one by one and in order, none is lost when it says it is at
\* its end, and the scheduler's table is as sound as without generators:
\* however generators call one another, and whoever advances them (gen_next,
\* gen_yield, gen_finish and the spawner a generator function becomes).
THEOREM GensSound == ASSUME ~Mixing, ~Recycled PROVE SpecGen => []GenSound
<1>1. GenInv /\ [StepGen]_varsGen => GenInv'
      <2> SUFFICES ASSUME GenInv, [StepGen]_varsGen PROVE GenInv'
          OBVIOUS
      <2>1. CASE StepGen
            BY <2>1, SpawnPlainKeepsGen, PlainKeepsGen, GenerateKeepsGen, GenNextKeepsGen,
               GenYieldKeepsGen, GenFinishKeepsGen DEF StepGen
      <2>2. CASE UNCHANGED varsGen
            <3>1. UNCHANGED vars /\ Settled(Live(coros))
                  BY <2>2 DEF varsGen, coroutines, vars, Settled
            <3>2. UNCHANGED <<gens, made, calling, yielded, got, last, told>>
                  BY <2>2 DEF varsGen, genvars
            <3>3. CoroInv' /\ UNCHANGED <<coros, cur_coro, born, refused, ended>>
                  BY <3>1, StepKeepsInv DEF GenInv, vars
            <3>4. GenChain' /\ \A g \in made : Acting(g)' <=> Acting(g)
                  BY <3>1, <3>2, <3>3, StaysPut
            <3>5. GenKept'
                  BY <3>2, <3>3, <3>4 DEF GenInv, GenKept, Kept, Over
            <3> QED BY <3>2, <3>3, <3>4, <3>5 DEF GenInv, GenTypes, GenCounts
      <2> QED BY <2>1, <2>2
<1> QED BY <1>1, InitGenInv, GenInvGivesSound, PTL DEF SpecGen
===============================================================================
