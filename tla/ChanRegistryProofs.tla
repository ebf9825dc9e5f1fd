--------------------------- MODULE ChanRegistryProofs ---------------------------
(***************************************************************************)
(* Proofs about ChanRegistry, for any threads, channels and registry size: *)
(* what a scan of the parked flags may conclude, although it looks at one  *)
(* slot after the other while threads park, unpark, register and leave.    *)
(***************************************************************************)
EXTENDS ChanRegistry, TLAPS, WellFoundedInduction

\* The registry: slots in use are somebody's, and only they can be parked.
SlotsOwned ==
    /\ \A t \in Threads : my_slot[t] # Nobody => active[my_slot[t]]
    /\ \A s \in SlotNums : active[s] => \E t \in Threads : my_slot[t] = s
    /\ \A s \in SlotNums : parked[s] => active[s]

\* Control and the flag agree: parked means in a spin or in a scan.
ParkedWaits ==
    /\ \A t \in Threads : my_slot[t] # Nobody => (parked[my_slot[t]] <=> pc[t] \in {"spin", "scan"})
    /\ \A t \in Threads : pc[t] \in {"verdict", "scan"} => my_slot[t] # Nobody
    /\ \A t \in Threads : pc[t] = "off" => my_slot[t] = Nobody
    /\ \A t \in Threads : stall[t] = 3 => pc[t] \in {"verdict", "scan", "die"}

\* What the histories record, as types.
ScanType ==
    /\ scan \in [Threads -> [j : 1 .. RegSlots + 1, nactive : Nat, alive : Nat]]
    /\ met \in [Threads -> SUBSET Threads] /\ missed \in [Threads -> SUBSET Threads]
    /\ want \in [Threads -> Work \cup {NoWait}]
    /\ stall_epoch \in [Threads -> Int] /\ chan_epoch \in Nat
    /\ inside \in [Chans -> Nat]

\* A scan under way has met all who are parked now and all in the slots it
\* found quiet, and has missed all who are awake now.
ScanSees ==
    \A t \in Threads : pc[t] = "scan" =>
        /\ \A u \in Threads : my_slot[u] = Nobody \/ IsParked(u) => u \in met[t]
        /\ \A u \in Threads : my_slot[u] # Nobody /\ ~IsParked(u) => u \in missed[t]
        /\ scan[t].alive # 0 => missed[t] # {}
        /\ scan[t].alive = 0 =>
             \A u \in Threads : my_slot[u] # Nobody /\ my_slot[u] < scan[t].j => u \in met[t]

\* When all scan, the last to have begun has seen nobody awake since.
LastSees == (\A t \in Threads : pc[t] = "scan") => \E t \in Threads : missed[t] = {}

\* The inductive invariant.
RegistryInv == TypeOK /\ SlotsOwned /\ ParkedWaits /\ ScanType /\ ScanSees /\ LastSees

Labels == {"off", "idle", "user", "try", "bump", "block", "spin", "verdict", "scan", "die"}

\* The case "no wait" is not one of those that may be waited for.
LEMMA NoWaitIsNoCase == NoWait \notin Work
BY RegistryAssumption DEF RegistryAssumption, NoWait

\* The slot chan_thread_enter takes.
LEMMA FirstFree ==
    ASSUME NEW S \in SUBSET Nat, S # {}
    PROVE  (CHOOSE x \in S : \A y \in S : x <= y) \in S
<1>1. PICK x \in S : \A y \in S : ~(<<y, x>> \in OpToRel(<, Nat))
      BY NatLessThanWellFounded, WFMin
<1>2. \A y \in S : x <= y
      <2> TAKE y \in S
      <2>1. ~(<<y, x>> \in OpToRel(<, Nat))
            BY <1>1
      <2>2. ~(y < x)
            BY <2>1 DEF OpToRel
      <2> QED BY <2>2
<1> QED BY <1>2

\* Nothing scans, and nobody is parked, to begin with.
LEMMA InitInv == Init => RegistryInv
<1> SUFFICES ASSUME Init PROVE RegistryInv
    OBVIOUS
<1> USE RegistryAssumption DEF RegistryAssumption, SlotNums, Nobody
<1>0. \A t \in Threads : pc[t] = IF t \in Workers THEN "off" ELSE "user"
      BY DEF Init
<1>1. my_slot \in [Threads -> 0 .. RegSlots] /\ \A t \in Workers : my_slot[t] = 0
      BY DEF Init
<1>2. \A t, u \in Threads : my_slot[t] = my_slot[u] /\ my_slot[t] # 0 => t = u
      BY <1>1 DEF Init
<1>3. \A t \in Threads \ Workers : my_slot[t] # 0
      <2> DEFINE others == Threads \ Workers
      <2>1. \A n : 0 \notin 1 .. n
            OBVIOUS
      <2>2. {my_slot[t] : t \in others} = 1 .. Cardinality(others)
            BY DEF Init
      <2>3. 0 \notin {my_slot[t] : t \in others}
            BY <2>1, <2>2
      <2> QED BY <2>3, Zenon
<1>4. TypeOK
      <2>1. active \in [SlotNums -> BOOLEAN] /\ parked \in [SlotNums -> BOOLEAN]
            BY DEF Init
      <2>2. stall \in [Threads -> 0 .. 3]
            BY DEF Init
      <2>3. \A ch \in Chans : inside[ch] \in 0 .. Room[ch]
            BY DEF Init
      <2>4. pc \in [Threads -> Labels]
            BY DEF Init, Labels
      <2>5. \A t \in Threads : want[t] = NoWait
            BY DEF Init
      <2> QED BY <1>0, <1>1, <1>2, <2>1, <2>2, <2>3, <2>4, <2>5 DEF TypeOK, Labels
<1>5. SlotsOwned
      BY <1>1 DEF SlotsOwned, Init
<1>6. ParkedWaits
      BY <1>0, <1>1, <1>3 DEF ParkedWaits, Init
<1>7. ScanType
      <2>1. NoScan \in [j : 1 .. RegSlots + 1, nactive : Nat, alive : Nat]
            BY DEF NoScan
      <2> QED BY <2>1 DEF ScanType, Init
<1>8. ScanSees /\ LastSees
      <2>1. \A t \in Threads : pc[t] # "scan"
            BY <1>0
      <2> QED BY <2>1 DEF ScanSees, LastSees, Threads
<1> QED BY <1>4, <1>5, <1>6, <1>7, <1>8 DEF RegistryInv

\* A step of one thread that touches no flag, no scan and no history.
Quiet(t) ==
    /\ UNCHANGED <<reg, scan, hist>>
    /\ \E l \in Labels \ {"off", "spin", "scan"} : pc' = [pc EXCEPT ![t] = l]
    /\ pc[t] \notin {"spin", "scan"}

LEMMA QuietKeepsScans ==
    ASSUME RegistryInv, NEW t \in Threads, Quiet(t)
    PROVE  /\ SlotsOwned' /\ ScanSees' /\ LastSees' /\ pc' \in [Threads -> Labels]
           /\ \A u \in Threads : my_slot[u] # Nobody =>
                (parked'[my_slot'[u]] <=> pc'[u] \in {"spin", "scan"})
           /\ \A u \in Threads : pc'[u] = "off" => my_slot'[u] = Nobody
<1>1. pc \in [Threads -> Labels]
      BY DEF RegistryInv, TypeOK, Labels
<1>2. PICK l \in Labels \ {"off", "spin", "scan"} : pc' = [pc EXCEPT ![t] = l]
      BY DEF Quiet
<1>3. /\ pc' \in [Threads -> Labels]
      /\ \A u \in Threads : pc'[u] = "scan" <=> pc[u] = "scan"
      /\ \A u \in Threads : pc'[u] = "spin" <=> pc[u] = "spin"
      /\ \A u \in Threads : pc'[u] = "off" => pc[u] = "off"
      BY <1>1, <1>2 DEF Quiet
<1>4. UNCHANGED <<active, parked, my_slot, scan, met, missed>>
      BY DEF Quiet, reg, hist
<1>5. SlotsOwned'
      BY <1>4 DEF RegistryInv, SlotsOwned
<1>6. ScanSees' /\ LastSees'
      BY <1>3, <1>4 DEF RegistryInv, ScanSees, LastSees, IsParked
<1> QED BY <1>3, <1>4, <1>5, <1>6 DEF RegistryInv, ParkedWaits

\* pool_drain, the end of a coroutine, the call of a channel operation, its
\* locked part, the epoch's increment and chan_block with a coroutine.
LEMMA ProgramKeepsInv ==
    ASSUME RegistryInv, NEW t \in Threads,
           \/ \E w \in Workers : Take(t, w)
           \/ End(t)
           \/ \E case \in Work : Start(t, case)
           \/ Try(t) \/ Bump(t) \/ Block(t)
    PROVE  RegistryInv'
<1> USE RegistryAssumption DEF RegistryAssumption, Nobody
<1> DEFINE Waits == {"try", "block", "spin", "verdict", "scan", "die"}
<1>1. /\ pc \in [Threads -> Labels] /\ stall \in [Threads -> 0 .. 3]
      /\ want \in [Threads -> Work \cup {NoWait}]
      /\ \A u \in Threads : pc[u] \in Waits <=> want[u] # NoWait
      /\ \A ch \in Chans : inside[ch] \in 0 .. Room[ch]
      /\ inside \in [Chans -> Nat]
      /\ stall_epoch \in [Threads -> Int] /\ chan_epoch \in Nat
      BY DEF RegistryInv, TypeOK, ScanType, Labels
<1>2. Quiet(t) /\ \A u \in Threads : pc'[u] \in {"verdict"} => my_slot[u] # Nobody
      BY <1>1 DEF Take, End, Start, Try, Bump, Block, Quiet, Goto, Labels, hist, RegistryInv, ParkedWaits
<1>3. UNCHANGED <<active, parked, my_slot, scan, met, missed>>
      BY <1>2 DEF Quiet, reg, hist
<1>4. want' \in [Threads -> Work \cup {NoWait}]
      BY <1>1 DEF Take, End, Start, Try, Bump, Block
<1>5. \A u \in Threads : pc'[u] \in Waits <=> want'[u] # NoWait
      BY <1>1, NoWaitIsNoCase DEF Take, End, Start, Try, Bump, Block, Goto
<1>6. \A ch \in Chans : inside'[ch] \in 0 .. Room[ch]
      <2>1. CASE Try(t) /\ Ready(want[t])
            <3> DEFINE ch == want[t][2]
            <3>1. want[t] \in Work
                  BY <1>1, <2>1, NoWaitIsNoCase DEF Try
            <3>2. ch \in Chans /\ want[t][1] \in {"send", "recv"}
                  BY <3>1
            <3>3. Room[ch] \in Nat /\ inside[ch] \in 0 .. Room[ch]
                  BY <1>1, <3>2
            <3>4. inside' = [inside EXCEPT ![ch] = @ + (IF want[t][1] = "send" THEN 1 ELSE -1)]
                  BY <2>1 DEF Try
            <3>5. IF want[t][1] = "send" THEN inside[ch] < Room[ch] ELSE inside[ch] > 0
                  BY <2>1 DEF Ready
            <3>6. inside'[ch] \in 0 .. Room[ch]
                  BY <1>1, <3>2, <3>3, <3>4, <3>5
            <3> QED BY <1>1, <3>2, <3>4, <3>6
      <2>2. CASE ~(Try(t) /\ Ready(want[t]))
            BY <1>1, <2>2 DEF Take, End, Start, Try, Bump, Block
      <2> QED BY <2>1, <2>2
<1>7. /\ stall' \in [Threads -> 0 .. 3]
      /\ \A u \in Threads : stall'[u] = 3 => pc'[u] \in {"verdict", "scan", "die"}
      BY <1>1 DEF Take, End, Start, Try, Bump, Block, Goto, RegistryInv, ParkedWaits, heur
<1>8. stall_epoch' \in [Threads -> Int] /\ chan_epoch' \in Nat
      BY <1>1 DEF Take, End, Start, Try, Bump, Block, heur
<1>9. TypeOK'
      BY <1>2, <1>3, <1>5, <1>6, <1>7, QuietKeepsScans DEF RegistryInv, TypeOK, Labels
<1>10. ParkedWaits'
      BY <1>2, <1>3, <1>7, QuietKeepsScans DEF RegistryInv, ParkedWaits, Quiet
<1>11. inside' \in [Chans -> Nat]
      <2>1. \/ inside' = inside
            \/ inside' = [inside EXCEPT ![want[t][2]] = @ + (IF want[t][1] = "send" THEN 1 ELSE -1)]
            BY DEF Take, End, Start, Try, Bump, Block
      <2>2. inside' = [ch \in Chans |-> inside'[ch]]
            BY <1>1, <2>1
      <2> QED BY <1>6, <2>2
<1>12. ScanType'
      BY <1>3, <1>4, <1>8, <1>11 DEF RegistryInv, ScanType
<1> QED BY <1>2, <1>9, <1>10, <1>12, QuietKeepsScans DEF RegistryInv

\* A worker registers: whoever scans had it for nobody's business before.
LEMMA EnterKeepsInv ==
    ASSUME RegistryInv, NEW t \in Threads, Enter(t)
    PROVE  RegistryInv'
<1> USE RegistryAssumption DEF RegistryAssumption, Nobody, SlotNums
<1> DEFINE free == {s \in SlotNums : ~active[s]}
           l == IF t \in Workers THEN "idle" ELSE "user"
<1>1. /\ pc \in [Threads -> Labels] /\ my_slot \in [Threads -> 0 .. RegSlots]
      /\ active \in [SlotNums -> BOOLEAN] /\ parked \in [SlotNums -> BOOLEAN]
      /\ met \in [Threads -> SUBSET Threads] /\ missed \in [Threads -> SUBSET Threads]
      BY DEF RegistryInv, TypeOK, ScanType, Labels
<1>2. /\ pc[t] = "off" /\ my_slot[t] = 0 /\ pc' = [pc EXCEPT ![t] = l]
      /\ UNCHANGED <<parked, scan, met, chan_epoch, stall, stall_epoch, want, inside>>
      /\ l \in {"idle", "user"}
      BY DEF Enter, Goto, heur, RegistryInv, ParkedWaits
<1> HIDE DEF l
<1>3. /\ pc' \in [Threads -> Labels] /\ pc'[t] \in {"idle", "user"}
      /\ \A u \in Threads \ {t} : pc'[u] = pc[u]
      BY <1>1, <1>2 DEF Labels
<1>4. CASE free = {}
      <2>1. Quiet(t)
            BY <1>1, <1>2, <1>4 DEF Enter, Quiet, reg, hist, Labels
      <2>2. UNCHANGED <<active, parked, my_slot, scan, met, missed>>
            BY <2>1 DEF Quiet, reg, hist
      <2>3. TypeOK'
            <3>1. \A u \in Threads : pc'[u] \in {"try", "block", "spin", "verdict", "scan", "die"}
                                     <=> want'[u] # NoWait
                  BY <1>2, <1>3 DEF RegistryInv, TypeOK
            <3> QED BY <1>2, <1>3, <2>2, <3>1 DEF RegistryInv, TypeOK, Labels
      <2>4. ParkedWaits'
            BY <1>2, <1>3, <2>2 DEF RegistryInv, ParkedWaits
      <2>5. ScanType'
            BY <1>2, <2>2 DEF RegistryInv, ScanType
      <2> QED BY <2>1, <2>3, <2>4, <2>5, QuietKeepsScans DEF RegistryInv
<1>5. CASE free # {}
      <2> DEFINE s == CHOOSE x \in free : \A y \in free : x <= y
      <2>1. s \in free
            <3>1. free \in SUBSET Nat
                  OBVIOUS
            <3> HIDE DEF free
            <3> QED BY <1>5, <3>1, FirstFree
      <2>2. /\ active' = [active EXCEPT ![s] = TRUE] /\ my_slot' = [my_slot EXCEPT ![t] = s]
            /\ missed' = Seen(missed, t)
            BY <1>5 DEF Enter
      <2> HIDE DEF s
      <2>3. /\ s \in SlotNums /\ ~active[s] /\ ~parked[s]
            /\ \A u \in Threads : my_slot[u] # s
            <3>1. s \in SlotNums /\ ~active[s]
                  BY <2>1
            <3>2. ~parked[s]
                  BY <3>1 DEF RegistryInv, SlotsOwned
            <3>3. \A u \in Threads : my_slot[u] # s
                  BY <1>1, <3>1 DEF RegistryInv, SlotsOwned
            <3> QED BY <3>1, <3>2, <3>3
      <2>4. /\ my_slot'[t] = s /\ \A u \in Threads \ {t} : my_slot'[u] = my_slot[u]
            /\ active'[s] /\ \A x \in SlotNums \ {s} : active'[x] = active[x]
            BY <1>1, <2>2, <2>3
      <2>5. /\ missed' \in [Threads -> SUBSET Threads]
            /\ \A u \in Threads : pc[u] = "scan" => missed'[u] = missed[u] \cup {t}
            BY <1>1, <2>2 DEF Seen, Scanning
      <2>6. TypeOK'
            <3>1. \A u, v \in Threads : my_slot'[u] = my_slot'[v] /\ my_slot'[u] # 0 => u = v
                  <4>1. \A u, v \in Threads : my_slot[u] = my_slot[v] /\ my_slot[u] # 0 => u = v
                        BY DEF RegistryInv, TypeOK
                  <4> QED BY <2>3, <2>4, <4>1
            <3>2. my_slot' \in [Threads -> 0 .. RegSlots] /\ active' \in [SlotNums -> BOOLEAN]
                  BY <1>1, <2>2, <2>3
            <3>3. \A u \in Threads : pc'[u] \in {"try", "block", "spin", "verdict", "scan", "die"}
                                     <=> want'[u] # NoWait
                  BY <1>2, <1>3 DEF RegistryInv, TypeOK
            <3> QED BY <1>2, <1>3, <3>1, <3>2, <3>3 DEF RegistryInv, TypeOK, Labels
      <2>7. SlotsOwned'
            <3>1. \A u \in Threads : my_slot'[u] # Nobody => active'[my_slot'[u]]
                  BY <1>1, <2>3, <2>4 DEF RegistryInv, SlotsOwned
            <3>2. \A x \in SlotNums : active'[x] => \E u \in Threads : my_slot'[u] = x
                  <4>1. ASSUME NEW x \in SlotNums \ {s}, active'[x]
                        PROVE  \E u \in Threads \ {t} : my_slot[u] = x
                        BY <1>2, <2>4, <4>1 DEF RegistryInv, SlotsOwned
                  <4> QED BY <2>3, <2>4, <4>1
            <3>3. \A x \in SlotNums : parked'[x] => active'[x]
                  BY <1>2, <2>3, <2>4 DEF RegistryInv, SlotsOwned
            <3> QED BY <3>1, <3>2, <3>3 DEF SlotsOwned
      <2>8. ParkedWaits'
            BY <1>2, <1>3, <2>3, <2>4 DEF RegistryInv, ParkedWaits
      <2>9. ScanType'
            BY <1>2, <2>5 DEF RegistryInv, ScanType
      <2>10. ScanSees' /\ LastSees'
            <3>1. LastSees'
                  BY <1>3 DEF LastSees
            <3>2. ASSUME NEW u \in Threads, pc'[u] = "scan"
                  PROVE  /\ pc[u] = "scan" /\ t \in met[u]
                         /\ missed'[u] = missed[u] \cup {t}
                  BY <1>2, <1>3, <2>5, <3>2 DEF RegistryInv, ScanSees
            <3> QED BY <1>2, <2>3, <2>4, <3>1, <3>2 DEF RegistryInv, ScanSees, IsParked
      <2> QED BY <2>6, <2>7, <2>8, <2>9, <2>10 DEF RegistryInv
<1> QED BY <1>4, <1>5

\* What a thread that parks, unparks or leaves adds to the histories of the scans.
LEMMA SeenBy ==
    ASSUME RegistryInv, NEW t \in Threads, NEW h \in [Threads -> SUBSET Threads]
    PROVE  /\ Seen(h, t) \in [Threads -> SUBSET Threads]
           /\ \A u \in Threads : pc[u] = "scan" => Seen(h, t)[u] = h[u] \cup {t}
BY DEF Seen, Scanning

\* A thread leaves the registry: whoever scans has it for nobody's business now.
LEMMA ExitKeepsInv ==
    ASSUME RegistryInv, NEW t \in Threads, Exit(t)
    PROVE  RegistryInv'
<1> USE RegistryAssumption DEF RegistryAssumption, Nobody, SlotNums
<1> DEFINE s == my_slot[t]
<1>1. /\ pc \in [Threads -> Labels] /\ my_slot \in [Threads -> 0 .. RegSlots]
      /\ active \in [SlotNums -> BOOLEAN] /\ parked \in [SlotNums -> BOOLEAN]
      /\ met \in [Threads -> SUBSET Threads] /\ missed \in [Threads -> SUBSET Threads]
      BY DEF RegistryInv, TypeOK, ScanType, Labels
<1>2. /\ pc[t] = "user" /\ s \in SlotNums
      /\ pc' = [pc EXCEPT ![t] = "off"] /\ my_slot' = [my_slot EXCEPT ![t] = 0]
      /\ active' = [active EXCEPT ![s] = FALSE] /\ parked' = [parked EXCEPT ![s] = FALSE]
      /\ met' = Seen(met, t)
      /\ UNCHANGED <<scan, missed, chan_epoch, stall, stall_epoch, want, inside>>
      BY <1>1 DEF Exit, Goto, heur
<1> HIDE DEF s
<1>3. /\ pc' \in [Threads -> Labels] /\ pc'[t] = "off"
      /\ \A u \in Threads \ {t} : pc'[u] = pc[u]
      BY <1>1, <1>2 DEF Labels
<1>4. /\ my_slot' \in [Threads -> 0 .. RegSlots] /\ my_slot'[t] = 0
      /\ \A u \in Threads \ {t} : my_slot'[u] = my_slot[u] /\ my_slot[u] # s
      BY <1>1, <1>2 DEF RegistryInv, TypeOK, s
<1>5. /\ active' \in [SlotNums -> BOOLEAN] /\ parked' \in [SlotNums -> BOOLEAN]
      /\ ~active'[s] /\ ~parked'[s]
      /\ \A x \in SlotNums \ {s} : active'[x] = active[x] /\ parked'[x] = parked[x]
      BY <1>1, <1>2
<1>6. \A u \in Threads \ {t} : IsParked(u)' <=> IsParked(u)
      BY <1>1, <1>4, <1>5 DEF IsParked
<1>7. /\ met' \in [Threads -> SUBSET Threads]
      /\ \A u \in Threads : pc[u] = "scan" => met'[u] = met[u] \cup {t}
      BY <1>1, <1>2, SeenBy
<1>8. TypeOK'
      <2>1. \A u, v \in Threads : my_slot'[u] = my_slot'[v] /\ my_slot'[u] # 0 => u = v
            BY <1>4 DEF RegistryInv, TypeOK
      <2>2. \A u \in Threads : pc'[u] \in {"try", "block", "spin", "verdict", "scan", "die"}
                               <=> want'[u] # NoWait
            BY <1>2, <1>3 DEF RegistryInv, TypeOK
      <2> QED BY <1>2, <1>3, <1>4, <1>5, <2>1, <2>2 DEF RegistryInv, TypeOK, Labels
<1>9. SlotsOwned'
      <2>1. ASSUME NEW u \in Threads, my_slot'[u] # Nobody
            PROVE  active'[my_slot'[u]]
            <3>1. u # t /\ my_slot'[u] = my_slot[u] /\ my_slot[u] # s
                  BY <1>4, <2>1
            <3>2. my_slot[u] \in SlotNums /\ active[my_slot[u]]
                  BY <1>1, <2>1, <3>1 DEF RegistryInv, SlotsOwned
            <3> QED BY <1>5, <3>1, <3>2
      <2>2. \A x \in SlotNums : active'[x] => \E u \in Threads : my_slot'[u] = x
            <3>1. ASSUME NEW x \in SlotNums \ {s}, active'[x]
                  PROVE  \E u \in Threads \ {t} : my_slot[u] = x
                  BY <1>5, <3>1 DEF RegistryInv, SlotsOwned, s
            <3> QED BY <1>4, <1>5, <3>1
      <2>3. \A x \in SlotNums : parked'[x] => active'[x]
            BY <1>5 DEF RegistryInv, SlotsOwned
      <2> QED BY <2>1, <2>2, <2>3 DEF SlotsOwned
<1>10. ParkedWaits'
      <2>1. \A u \in Threads \ {t} : my_slot[u] # Nobody => parked'[my_slot[u]] = parked[my_slot[u]]
            BY <1>1, <1>4, <1>5
      <2> QED BY <1>2, <1>3, <1>4, <2>1 DEF RegistryInv, ParkedWaits
<1>11. ScanType'
      BY <1>2, <1>7 DEF RegistryInv, ScanType
<1>12. ScanSees'
      <2>1. \A u \in Threads : pc'[u] = "scan" => pc[u] = "scan" /\ met'[u] = met[u] \cup {t}
            BY <1>3, <1>7
      <2> QED BY <1>2, <1>4, <1>6, <2>1 DEF RegistryInv, ScanSees
<1>13. LastSees'
      BY <1>3 DEF LastSees
<1> QED BY <1>8, <1>9, <1>10, <1>11, <1>12, <1>13 DEF RegistryInv

\* A step of t that stores b to its flag on the way to l, between two waits.
Waiting == {"try", "block", "spin", "verdict", "scan", "die"}
Flags(t, b, l) ==
    /\ UNCHANGED <<active, my_slot, chan_epoch, want, inside>>
    /\ parked' = [parked EXCEPT ![my_slot[t]] = b]
    /\ pc' = [pc EXCEPT ![t] = l]
    /\ pc[t] \in Waiting /\ l \in {"try", "spin", "scan"}
    /\ b = (l # "try")
    /\ l = "scan" => my_slot[t] # Nobody
    /\ \/ UNCHANGED <<stall, stall_epoch>> /\ pc[t] # "scan" /\ (l = "scan" \/ pc[t] # "verdict")
       \/ stall' = [stall EXCEPT ![t] = 0] /\ stall_epoch' = [stall_epoch EXCEPT ![t] = -1]

LEMMA FlagsKeep ==
    ASSUME RegistryInv, NEW t \in Threads, NEW b \in BOOLEAN, NEW l \in Labels, Flags(t, b, l),
           UNCHANGED <<stall, stall_epoch>> /\ stall[t] = 3 => l = "scan"
    PROVE  /\ TypeOK' /\ SlotsOwned' /\ ParkedWaits'
           /\ stall_epoch' \in [Threads -> Int]
           /\ \A u \in Threads \ {t} : pc'[u] = pc[u] /\ (IsParked(u)' <=> IsParked(u))
           /\ pc'[t] = l /\ (IsParked(t)' <=> b /\ my_slot[t] # Nobody)
<1> USE RegistryAssumption DEF RegistryAssumption, Nobody, SlotNums
<1>1. /\ pc \in [Threads -> Labels] /\ my_slot \in [Threads -> 0 .. RegSlots]
      /\ active \in [SlotNums -> BOOLEAN] /\ parked \in [SlotNums -> BOOLEAN]
      /\ stall \in [Threads -> 0 .. 3] /\ stall_epoch \in [Threads -> Int]
      /\ \A u, v \in Threads : my_slot[u] = my_slot[v] /\ my_slot[u] # 0 => u = v
      BY DEF RegistryInv, TypeOK, ScanType, Labels
<1>2. /\ UNCHANGED <<active, my_slot, chan_epoch, want, inside>>
      /\ parked' = [parked EXCEPT ![my_slot[t]] = b] /\ pc' = [pc EXCEPT ![t] = l]
      /\ pc[t] \in Waiting /\ l \in {"try", "spin", "scan"} /\ b = (l # "try")
      /\ l = "scan" => my_slot[t] # 0
      BY DEF Flags
<1>3. /\ pc' \in [Threads -> Labels] /\ pc'[t] = l
      /\ \A u \in Threads \ {t} : pc'[u] = pc[u]
      BY <1>1, <1>2
<1>4. /\ parked' \in [SlotNums -> BOOLEAN]
      /\ my_slot[t] # 0 => parked'[my_slot[t]] = b
      /\ \A s \in SlotNums : s # my_slot[t] => parked'[s] = parked[s]
      <2>1. parked' = [s \in SlotNums |-> IF s = my_slot[t] THEN b ELSE parked[s]]
            BY <1>1, <1>2
      <2>2. my_slot[t] # 0 => my_slot[t] \in SlotNums
            BY <1>1
      <2> QED BY <1>1, <2>1, <2>2, Zenon
<1>5. \A u \in Threads \ {t} : my_slot[u] # 0 => parked'[my_slot[u]] = parked[my_slot[u]]
      BY <1>1, <1>4
<1>6. /\ stall' \in [Threads -> 0 .. 3] /\ stall_epoch' \in [Threads -> Int]
      /\ \A u \in Threads \ {t} : stall'[u] = stall[u]
      /\ stall'[t] = 3 => l = "scan"
      <2>1. CASE UNCHANGED <<stall, stall_epoch>>
            BY <1>1, <2>1
      <2>2. CASE stall' = [stall EXCEPT ![t] = 0] /\ stall_epoch' = [stall_epoch EXCEPT ![t] = -1]
            <3>1. stall' \in [Threads -> 0 .. 3] /\ stall'[t] = 0
                  BY <1>1, <2>2
            <3>2. stall_epoch' \in [Threads -> Int]
                  BY <1>1, <2>2
            <3> QED BY <1>1, <2>2, <3>1, <3>2
      <2> QED BY <2>1, <2>2 DEF Flags
<1>7. TypeOK'
      <2>1. \A u \in Threads : pc'[u] \in Waiting <=> want'[u] # NoWait
            BY <1>2, <1>3 DEF RegistryInv, TypeOK, Waiting
      <2> QED BY <1>2, <1>3, <1>4, <1>6, <2>1 DEF RegistryInv, TypeOK, Labels, Waiting
<1>8. SlotsOwned'
      <2>1. \A s \in SlotNums : parked'[s] => active'[s]
            BY <1>1, <1>2, <1>4 DEF RegistryInv, SlotsOwned
      <2> QED BY <1>2, <2>1 DEF RegistryInv, SlotsOwned
<1>9. ParkedWaits'
      <2>1. \A u \in Threads : my_slot'[u] # Nobody => (parked'[my_slot'[u]] <=> pc'[u] \in {"spin", "scan"})
            <3>1. my_slot[t] # 0 => (parked'[my_slot[t]] <=> pc'[t] \in {"spin", "scan"})
                  BY <1>2, <1>3, <1>4
            <3>2. \A u \in Threads \ {t} : my_slot[u] # 0 => (parked'[my_slot[u]] <=> pc'[u] \in {"spin", "scan"})
                  BY <1>3, <1>5 DEF RegistryInv, ParkedWaits
            <3> QED BY <1>2, <3>1, <3>2
      <2>2. /\ \A u \in Threads : pc'[u] \in {"verdict", "scan"} => my_slot'[u] # Nobody
            /\ \A u \in Threads : pc'[u] = "off" => my_slot'[u] = Nobody
            /\ \A u \in Threads : stall'[u] = 3 => pc'[u] \in {"verdict", "scan", "die"}
            BY <1>2, <1>3, <1>6 DEF RegistryInv, ParkedWaits
      <2> QED BY <2>1, <2>2 DEF ParkedWaits
<1>10. /\ \A u \in Threads \ {t} : IsParked(u)' <=> IsParked(u)
       /\ IsParked(t)' <=> b /\ my_slot[t] # Nobody
       BY <1>2, <1>4, <1>5 DEF IsParked
<1> QED BY <1>3, <1>6, <1>7, <1>8, <1>9, <1>10

\* chan_block without coroutines parks: every scan meets the thread.
LEMMA BareParkKeepsInv ==
    ASSUME RegistryInv, NEW t \in Threads, BarePark(t)
    PROVE  RegistryInv'
<1>1. Flags(t, TRUE, "spin") /\ pc[t] = "block"
      BY DEF BarePark, Park, Goto, Flags, Waiting, heur
<1>2. stall[t] # 3
      BY <1>1 DEF RegistryInv, ParkedWaits
<1>3. /\ UNCHANGED <<scan, missed, my_slot, chan_epoch, want, inside>> /\ met' = Seen(met, t)
      BY DEF BarePark, Park
<1>4. /\ TypeOK' /\ SlotsOwned' /\ ParkedWaits' /\ stall_epoch' \in [Threads -> Int]
      /\ \A u \in Threads \ {t} : pc'[u] = pc[u] /\ (IsParked(u)' <=> IsParked(u))
      /\ pc'[t] = "spin" /\ (IsParked(t)' <=> my_slot[t] # Nobody)
      BY <1>1, <1>2, FlagsKeep DEF Labels
<1>5. met \in [Threads -> SUBSET Threads]
      BY DEF RegistryInv, ScanType
<1>6. /\ met' \in [Threads -> SUBSET Threads]
      /\ \A u \in Threads : pc[u] = "scan" => met'[u] = met[u] \cup {t}
      BY <1>3, <1>5, SeenBy
<1>7. ScanType'
      BY <1>3, <1>4, <1>6 DEF RegistryInv, ScanType
<1>8. ScanSees'
      BY <1>3, <1>4, <1>6 DEF RegistryInv, ScanSees
<1>9. LastSees'
      BY <1>4 DEF LastSees
<1> QED BY <1>4, <1>7, <1>8, <1>9 DEF RegistryInv

\* ... and unparks: every scan misses it from now on.
LEMMA UnparkKeepsInv ==
    ASSUME RegistryInv, NEW t \in Threads, BareUnpark(t) \/ Resume(t)
    PROVE  RegistryInv'
<1>1. Flags(t, FALSE, "try") /\ pc[t] \in {"spin", "scan"}
      BY DEF BareUnpark, Resume, Unpark, Goto, Flags, Waiting, heur
<1>2. ~(UNCHANGED <<stall, stall_epoch>> /\ stall[t] = 3)
      <2>1. CASE BareUnpark(t)
            BY <2>1 DEF BareUnpark, RegistryInv, ParkedWaits
      <2>2. CASE Resume(t)
            BY <2>2 DEF Resume, RegistryInv, TypeOK
      <2> QED BY <2>1, <2>2
<1>3. /\ UNCHANGED <<scan, met, my_slot, chan_epoch, want, inside>> /\ missed' = Seen(missed, t)
      BY DEF BareUnpark, Resume, Unpark
<1>4. /\ TypeOK' /\ SlotsOwned' /\ ParkedWaits' /\ stall_epoch' \in [Threads -> Int]
      /\ \A u \in Threads \ {t} : pc'[u] = pc[u] /\ (IsParked(u)' <=> IsParked(u))
      /\ pc'[t] = "try" /\ ~IsParked(t)'
      BY <1>1, <1>2, FlagsKeep DEF Labels
<1>5. missed \in [Threads -> SUBSET Threads]
      BY DEF RegistryInv, ScanType
<1>6. /\ missed' \in [Threads -> SUBSET Threads]
      /\ \A u \in Threads : pc[u] = "scan" => missed'[u] = missed[u] \cup {t}
      BY <1>3, <1>5, SeenBy
<1>7. ScanType'
      BY <1>3, <1>4, <1>6 DEF RegistryInv, ScanType
<1>8. ScanSees'
      BY <1>3, <1>4, <1>6 DEF RegistryInv, ScanSees
<1>9. LastSees'
      BY <1>4 DEF LastSees
<1> QED BY <1>4, <1>7, <1>8, <1>9 DEF RegistryInv

\* chan_stall_global parks its caller before it looks.
LEMMA StallParkKeepsInv ==
    ASSUME RegistryInv, NEW t \in Threads, StallPark(t)
    PROVE  RegistryInv'
<1> USE RegistryAssumption DEF RegistryAssumption, Nobody
<1>1. Flags(t, TRUE, "scan")
      BY DEF StallPark, BeginScan, Goto, Flags, Waiting, heur, RegistryInv, ParkedWaits, Nobody
<1>2. /\ UNCHANGED <<my_slot, chan_epoch, want, inside>>
      /\ met' = [Seen(met, t) EXCEPT ![t] = {t} \cup {u \in Threads : IsParked(u) \/ my_slot[u] = 0}]
      /\ missed' = [missed EXCEPT ![t] = {u \in Threads \ {t} : my_slot[u] # 0 /\ ~IsParked(u)}]
      /\ scan' = [scan EXCEPT ![t] = NoScan]
      BY DEF StallPark, BeginScan
<1>3. /\ TypeOK' /\ SlotsOwned' /\ ParkedWaits' /\ stall_epoch' \in [Threads -> Int]
      /\ \A u \in Threads \ {t} : pc'[u] = pc[u] /\ (IsParked(u)' <=> IsParked(u))
      /\ pc'[t] = "scan" /\ (IsParked(t)' <=> my_slot[t] # Nobody)
      BY <1>1, FlagsKeep DEF Labels
<1>4. /\ met \in [Threads -> SUBSET Threads] /\ missed \in [Threads -> SUBSET Threads]
      /\ scan \in [Threads -> [j : 1 .. RegSlots + 1, nactive : Nat, alive : Nat]]
      /\ my_slot \in [Threads -> 0 .. RegSlots]
      BY DEF RegistryInv, ScanType, TypeOK
<1>5. /\ met' \in [Threads -> SUBSET Threads]
      /\ \A u \in Threads \ {t} : pc[u] = "scan" => met'[u] = met[u] \cup {t}
      /\ met'[t] = {t} \cup {u \in Threads : IsParked(u) \/ my_slot[u] = 0}
      BY <1>2, <1>4, SeenBy
<1>6. /\ missed' \in [Threads -> SUBSET Threads]
      /\ \A u \in Threads \ {t} : missed'[u] = missed[u]
      /\ missed'[t] = {u \in Threads \ {t} : my_slot[u] # 0 /\ ~IsParked(u)}
      BY <1>2, <1>4
<1>7. /\ scan' \in [Threads -> [j : 1 .. RegSlots + 1, nactive : Nat, alive : Nat]]
      /\ \A u \in Threads \ {t} : scan'[u] = scan[u]
      /\ scan'[t].j = 1 /\ scan'[t].alive = 0
      BY <1>2, <1>4 DEF NoScan
<1>8. ScanType'
      BY <1>2, <1>3, <1>5, <1>6, <1>7 DEF RegistryInv, ScanType
<1>9. ScanSees'
      <2>1. ASSUME NEW u \in Threads \ {t}, pc'[u] = "scan"
            PROVE  /\ \A v \in Threads : my_slot'[v] = Nobody \/ IsParked(v)' => v \in met'[u]
                   /\ \A v \in Threads : my_slot'[v] # Nobody /\ ~IsParked(v)' => v \in missed'[u]
                   /\ scan'[u].alive # 0 => missed'[u] # {}
                   /\ scan'[u].alive = 0 =>
                        \A v \in Threads : my_slot'[v] # Nobody /\ my_slot'[v] < scan'[u].j => v \in met'[u]
            BY <1>2, <1>3, <1>5, <1>6, <1>7, <2>1 DEF RegistryInv, ScanSees
      <2>2. /\ \A v \in Threads : my_slot'[v] = Nobody \/ IsParked(v)' => v \in met'[t]
            /\ \A v \in Threads : my_slot'[v] # Nobody /\ ~IsParked(v)' => v \in missed'[t]
            BY <1>2, <1>3, <1>5, <1>6
      <2>3. \A v \in Threads : ~(my_slot'[v] # Nobody /\ my_slot'[v] < scan'[t].j)
            BY <1>2, <1>4, <1>7
      <2> QED BY <1>7, <2>1, <2>2, <2>3 DEF ScanSees
<1>10. LastSees'
      <2>1. ASSUME \A u \in Threads : pc'[u] = "scan"
            PROVE  missed'[t] = {}
            BY <1>3, <1>6, <2>1 DEF RegistryInv, ParkedWaits, IsParked
      <2> QED BY <2>1 DEF LastSees
<1> QED BY <1>3, <1>8, <1>9, <1>10 DEF RegistryInv

\* One look at one slot: if its owner is awake it has been missed, and if
\* nobody is found awake there its owner, if any, has been met.
LEMMA LookKeepsInv ==
    ASSUME RegistryInv, NEW t \in Threads, Look(t)
    PROVE  RegistryInv'
<1> USE RegistryAssumption DEF RegistryAssumption, Nobody, SlotNums
<1> DEFINE k == scan[t].j
<1>1. /\ pc[t] = "scan" /\ k \in SlotNums /\ scan[t].alive \in Nat /\ scan[t].nactive \in Nat
      /\ scan \in [Threads -> [j : 1 .. RegSlots + 1, nactive : Nat, alive : Nat]]
      /\ my_slot \in [Threads -> 0 .. RegSlots]
      /\ active \in [SlotNums -> BOOLEAN] /\ parked \in [SlotNums -> BOOLEAN]
      BY SMTT(30) DEF Look, RegistryInv, ScanType, TypeOK
<1>2. /\ UNCHANGED <<active, parked, my_slot, chan_epoch, stall, stall_epoch, inside, pc, want, met, missed>>
      /\ scan' = [scan EXCEPT ![t] =
           [j |-> k + 1, nactive |-> scan[t].nactive + (IF active[k] THEN 1 ELSE 0),
            alive |-> scan[t].alive + (IF active[k] /\ ~parked[k] THEN 1 ELSE 0)]]
      BY DEF Look, reg, heur, hist
<1>3. /\ scan' \in [Threads -> [j : 1 .. RegSlots + 1, nactive : Nat, alive : Nat]]
      /\ \A u \in Threads \ {t} : scan'[u] = scan[u]
      /\ scan'[t].j = k + 1
      /\ scan'[t].alive = scan[t].alive + (IF active[k] /\ ~parked[k] THEN 1 ELSE 0)
      BY <1>1, <1>2
<1>4. scan'[t].alive # 0 => missed[t] # {}
      <2>1. CASE active[k] /\ ~parked[k]
            <3>1. PICK u \in Threads : my_slot[u] = k
                  BY <1>1, <2>1 DEF RegistryInv, SlotsOwned
            <3>2. u \in missed[t]
                  BY <1>1, <2>1, <3>1 DEF RegistryInv, ScanSees, IsParked
            <3> QED BY <3>2
      <2>2. CASE ~(active[k] /\ ~parked[k])
            <3>1. scan'[t].alive = scan[t].alive
                  BY <1>1, <1>3, <2>2
            <3>2. scan[t].alive # 0 => missed[t] # {}
                  BY <1>1 DEF RegistryInv, ScanSees
            <3> QED BY <3>1, <3>2
      <2> QED BY <2>1, <2>2
<1>5. ASSUME scan'[t].alive = 0, NEW u \in Threads, my_slot[u] # 0, my_slot[u] < k + 1
      PROVE  u \in met[t]
      <2>1. scan[t].alive = 0 /\ ~(active[k] /\ ~parked[k])
            BY SMTT(30), <1>1, <1>3, <1>5
      <2>2. CASE my_slot[u] = k
            BY <1>1, <2>1, <2>2 DEF RegistryInv, SlotsOwned, ScanSees, IsParked
      <2>3. CASE my_slot[u] < k
            BY <1>1, <1>5, <2>1, <2>3 DEF RegistryInv, ScanSees
      <2> QED BY <1>1, <1>5, <2>2, <2>3
<1>6. ScanSees'
      <2>1. \A u \in Threads : IsParked(u)' <=> IsParked(u)
            BY <1>2 DEF IsParked
      <2>2. \A u \in Threads \ {t} : pc[u] = "scan" =>
                /\ \A v \in Threads : my_slot[v] = Nobody \/ IsParked(v) => v \in met[u]
                /\ \A v \in Threads : my_slot[v] # Nobody /\ ~IsParked(v) => v \in missed[u]
                /\ scan'[u].alive # 0 => missed[u] # {}
                /\ scan'[u].alive = 0 =>
                     \A v \in Threads : my_slot[v] # Nobody /\ my_slot[v] < scan'[u].j => v \in met[u]
            BY <1>3 DEF RegistryInv, ScanSees
      <2>3. /\ \A v \in Threads : my_slot[v] = Nobody \/ IsParked(v) => v \in met[t]
            /\ \A v \in Threads : my_slot[v] # Nobody /\ ~IsParked(v) => v \in missed[t]
            BY <1>1 DEF RegistryInv, ScanSees
      <2>4. scan'[t].alive = 0 =>
              \A v \in Threads : my_slot[v] # Nobody /\ my_slot[v] < scan'[t].j => v \in met[t]
            BY <1>3, <1>5
      <2> QED BY <1>2, <1>4, <2>1, <2>2, <2>3, <2>4 DEF ScanSees
<1>7. TypeOK' /\ SlotsOwned' /\ ParkedWaits' /\ LastSees'
      BY <1>2 DEF RegistryInv, TypeOK, SlotsOwned, ParkedWaits, LastSees
<1>8. ScanType'
      BY <1>2, <1>3 DEF RegistryInv, ScanType
<1> QED BY <1>6, <1>7, <1>8 DEF RegistryInv

\* A verdict, or nothing at all, changes nothing of this.
LEMMA StutterKeepsInv ==
    ASSUME RegistryInv,
           UNCHANGED <<reg, chan_epoch, heur, scan, inside, pc, want, hist>>
    PROVE  RegistryInv'
BY DEF RegistryInv, TypeOK, SlotsOwned, ParkedWaits, ScanType, ScanSees, LastSees, IsParked,
       reg, heur, hist

\* The invariant of the registry holds for any threads, channels and slots.
THEOREM RegistryInvariant == Spec => []RegistryInv
<1>1. Init => RegistryInv
      BY InitInv
<1>2. RegistryInv /\ [Next]_vars => RegistryInv'
      <2> SUFFICES ASSUME RegistryInv, [Next]_vars PROVE RegistryInv'
          OBVIOUS
      <2>1. CASE UNCHANGED vars
            BY <2>1, StutterKeepsInv DEF vars
      <2>2. ASSUME NEW t \in Threads,
                   Step(t) \/ End(t) \/ Exit(t) \/ \E case \in Work : Start(t, case)
            PROVE  RegistryInv'
            <3>1. CASE Enter(t)
                  BY <3>1, EnterKeepsInv
            <3>2. CASE \/ \E w \in Workers : Take(t, w)
                       \/ End(t) \/ \E case \in Work : Start(t, case)
                       \/ Try(t) \/ Bump(t) \/ Block(t)
                  BY <3>2, ProgramKeepsInv
            <3>3. CASE BarePark(t)
                  BY <3>3, BareParkKeepsInv
            <3>4. CASE BareUnpark(t) \/ Resume(t)
                  BY <3>4, UnparkKeepsInv
            <3>5. CASE StallPark(t)
                  BY <3>5, StallParkKeepsInv
            <3>6. CASE Look(t)
                  BY <3>6, LookKeepsInv
            <3>7. CASE Die(t)
                  BY <3>7, StutterKeepsInv DEF Die
            <3>8. CASE Exit(t)
                  BY <3>8, ExitKeepsInv
            <3> QED BY <2>2, <3>1, <3>2, <3>3, <3>4, <3>5, <3>6, <3>7, <3>8 DEF Step
      <2> QED BY <2>1, <2>2 DEF Next
<1> QED BY <1>1, <1>2, PTL DEF Spec

\* A slow sibling is not a deadlock (tests/deadlock_slowsibling.qela): a scan
\* of chan_stall_global that ends in chan_die has met every registered thread
\* parked, each at some moment of it, or out of the registry.
THEOREM RegistrySpares == Spec => []SlowSiblingSpared
<1>1. RegistryInv => SlowSiblingSpared
      <2> USE RegistryAssumption DEF RegistryAssumption
      <2> SUFFICES ASSUME RegistryInv, NEW t \in Threads, ScanOver(t), ~Spared(t),
                          NEW u \in Threads, my_slot[u] # Nobody
                   PROVE  u \in met[t]
          BY DEF SlowSiblingSpared, RegistryInv
      <2>1. pc[t] = "scan" /\ scan[t].alive = 0 /\ scan[t].j > RegSlots
            BY DEF ScanOver, Spared
      <2>2. my_slot[u] \in 0 .. RegSlots /\ scan[t].j \in 1 .. RegSlots + 1
            BY DEF RegistryInv, TypeOK, ScanType
      <2>3. my_slot[u] < scan[t].j
            BY <2>1, <2>2
      <2> QED BY <2>1, <2>3 DEF RegistryInv, ScanSees
<1> QED BY <1>1, RegistryInvariant, PTL

\* A thread goes back to waiting only for the sake of one that was awake at
\* some moment of its scan.
THEOREM RegistryHonest == Spec => []ScanHonest
<1>1. RegistryInv => ScanHonest
      BY DEF RegistryInv, ScanSees, ScanHonest, ScanOver
<1> QED BY <1>1, RegistryInvariant, PTL

\* Both conclusions of chan_stall_global are founded: a verdict on every
\* thread's being met parked, a return to waiting on one met awake.
THEOREM RegistryFounded == Spec => []ScanFounded
<1>1. SlowSiblingSpared /\ ScanHonest => ScanFounded
      BY DEF ScanFounded
<1> QED BY <1>1, RegistrySpares, RegistryHonest, PTL

\* When all threads scan at once, one of them finds nobody awake: parking
\* before looking is what makes the last to park see all the others parked.
THEOREM RegistrySees == Spec => []SomeoneSees
<1>1. RegistryInv => SomeoneSees
      <2> SUFFICES ASSUME RegistryInv, \A t \in Threads : ScanOver(t)
                   PROVE  \E t \in Threads : scan[t].alive = 0
          BY DEF SomeoneSees
      <2>1. PICK t \in Threads : missed[t] = {}
            BY DEF RegistryInv, LastSees, ScanOver
      <2> QED BY <2>1 DEF RegistryInv, ScanSees, ScanOver
<1> QED BY <1>1, RegistryInvariant, PTL
===============================================================================
