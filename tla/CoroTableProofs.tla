--------------------------- MODULE CoroTableProofs ----------------------------
(***************************************************************************)
(* Lemmas about the scheduler table of CoroTable, whatever the slots hold: *)
(* what its searches return and what filling a slot changes.  Coro's and   *)
(* Pool's proofs rest on them.                                             *)
(***************************************************************************)
EXTENDS CoroTable, TLAPS, FiniteSetTheorems, WellFoundedInduction

\* The least of some naturals is one of them and no other is below it.
LEMMA LeastOf ==
    ASSUME NEW S, S \subseteq Nat, S # {}
    PROVE  Least(S) \in S /\ \A j \in S : Least(S) <= j
<1>1. \E x \in S : \A y \in S : ~ (<<y, x>> \in OpToRel(<, Nat))
      BY NatLessThanWellFounded, WFMin
<1>2. PICK x \in S : \A y \in S : ~ (<<y, x>> \in OpToRel(<, Nat))
      BY <1>1
<1>3. \A y \in S : x <= y
      <2> SUFFICES ASSUME NEW y \in S, ~ (x <= y) PROVE FALSE
          OBVIOUS
      <2>1. y < x
            OBVIOUS
      <2>2. <<y, x>> \in OpToRel(<, Nat)
            BY <2>1 DEF OpToRel
      <2> QED BY <1>2, <2>2
<1> QED BY <1>3 DEF Least

\* coro_spawn's search: 0, the next fresh slot, or one that is not live; in
\* any case never a live one, and within the table.
LEMMA FreeSlotIsFree ==
    ASSUME Slots \in Nat \ {0}, NEW T, NEW tab \in Seq(T), Len(tab) < Slots
    PROVE  /\ FreeSlot(tab) \in 0 .. Slots - 1
           /\ FreeSlot(tab) <= Len(tab) + 1
           /\ FreeSlot(tab) \notin Live(tab)
<1> DEFINE reusable == DOMAIN tab \ Live(tab)
<1>1. reusable \subseteq 1 .. Len(tab)
      OBVIOUS
<1>2. CASE reusable # {}
      <2>1. Least(reusable) \in reusable
            BY <1>1, <1>2, LeastOf, reusable \subseteq Nat
      <2> QED BY <1>1, <1>2, <2>1 DEF FreeSlot
<1>3. CASE reusable = {}
      BY <1>3 DEF FreeSlot, Live
<1> QED BY <1>2, <1>3

\* The next context is main or a live one that comes after.
LEMMA NextIsLive ==
    ASSUME NEW T, NEW tab \in Seq(T), NEW from \in Nat
    PROVE  /\ CoroNext(tab, from) \in {0} \cup Live(tab)
           /\ CoroNext(tab, from) # 0 => CoroNext(tab, from) > from
<1> DEFINE later == {i \in Live(tab) : i > from}
<1>1. later \subseteq Nat
      BY DEF Live
<1>2. CASE later # {}
      BY <1>1, <1>2, LeastOf DEF CoroNext
<1> QED BY <1>2 DEF CoroNext

\* Nobody who is live and comes later is passed over.
LEMMA NextIsFirst ==
    ASSUME NEW T, NEW tab \in Seq(T), NEW from \in Nat, NEW x \in Live(tab), x > from
    PROVE  CoroNext(tab, from) > from /\ CoroNext(tab, from) <= x
<1> DEFINE later == {i \in Live(tab) : i > from}
<1>1. later \subseteq Nat /\ x \in later
      BY DEF Live
<1>2. Least(later) \in later /\ Least(later) <= x
      BY <1>1, LeastOf
<1>3. CoroNext(tab, from) = Least(later)
      BY <1>1 DEF CoroNext
<1> QED BY <1>2, <1>3

\* Filling a slot: its length, its domain and its entries.
LEMMA FillSlot ==
    ASSUME NEW T, NEW tab \in Seq(T), NEW id \in 1 .. Len(tab) + 1, NEW slot \in T
    PROVE  /\ Fill(tab, id, slot) \in Seq(T)
           /\ Len(Fill(tab, id, slot)) = IF id > Len(tab) THEN Len(tab) + 1 ELSE Len(tab)
           /\ \A j \in 1 .. Len(Fill(tab, id, slot)) :
                Fill(tab, id, slot)[j] = IF j = id THEN slot ELSE tab[j]
<1>1. CASE id > Len(tab)
      <2>1. id = Len(tab) + 1 /\ Fill(tab, id, slot) = Append(tab, slot)
            BY <1>1 DEF Fill
      <2> QED BY <2>1
<1>2. CASE ~ (id > Len(tab))
      <2>1. id \in 1 .. Len(tab) /\ Fill(tab, id, slot) = [tab EXCEPT ![id] = slot]
            BY <1>2 DEF Fill
      <2> QED BY <2>1
<1> QED BY <1>1, <1>2

\* A slot that nobody lived in, filled with one that may run: it is live then
\* and the others are what they were.
LEMMA FillsLive ==
    ASSUME NEW T, NEW tab \in Seq(T), NEW id \in 1 .. Len(tab) + 1, NEW slot \in T,
           id \notin Live(tab), ~slot.done, ~slot.moved
    PROVE  LET new == Fill(tab, id, slot) IN
           /\ new \in Seq(T) /\ Len(new) = IF id > Len(tab) THEN Len(tab) + 1 ELSE Len(tab)
           /\ Live(new) = Live(tab) \cup {id} /\ new[id] = slot
           /\ \A i \in Live(tab) : i # id /\ new[i] = tab[i]
<1> DEFINE new == Fill(tab, id, slot)
<1>1. /\ new \in Seq(T)
      /\ Len(new) = IF id > Len(tab) THEN Len(tab) + 1 ELSE Len(tab)
      /\ \A j \in 1 .. Len(new) : new[j] = IF j = id THEN slot ELSE tab[j]
      <2>1. CASE id > Len(tab)
            <3>1. id = Len(tab) + 1 /\ new = Append(tab, slot)
                  BY <2>1 DEF Fill
            <3> QED BY <2>1, <3>1
      <2>2. CASE ~ (id > Len(tab))
            <3>1. id \in 1 .. Len(tab) /\ new = [tab EXCEPT ![id] = slot]
                  BY <2>2 DEF Fill
            <3> QED BY <2>2, <3>1
      <2> QED BY <2>1, <2>2
<1> HIDE DEF new
<1>2. DOMAIN new = 1 .. Len(new) /\ DOMAIN tab = 1 .. Len(tab) /\ Len(tab) \in Nat
      BY <1>1
<1>3. new[id] = slot /\ id \in DOMAIN new
      BY <1>1, <1>2
<1>4. \A i \in Live(tab) : i # id /\ i \in DOMAIN new /\ new[i] = tab[i]
      BY <1>1, <1>2 DEF Live
<1>5. \A i \in DOMAIN new : i # id => i \in DOMAIN tab /\ new[i] = tab[i]
      BY <1>1, <1>2
<1>6. Live(new) = Live(tab) \cup {id}
      BY <1>3, <1>4, <1>5 DEF Live, Runnable
<1> QED BY <1>1, <1>3, <1>4, <1>6 DEF new
===============================================================================
