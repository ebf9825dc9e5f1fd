------------------------------- MODULE HeapProofs -------------------------------
(***************************************************************************)
(* Theorems about Heap.  Induction on the walk around the list is written  *)
(* out as "the least counterexample", since a set of naturals has a least  *)
(* element.                                                                *)
(***************************************************************************)
EXTENDS Heap, TLAPS, FiniteSetTheorems, WellFoundedInduction

\* The least of some naturals is one of them and no other is below it.
LEMMA LeastIs ==
    ASSUME NEW S, S \subseteq Nat, S # {}
    PROVE  Least(S) \in S /\ \A j \in S : Least(S) <= j
<1>1. PICK x \in S : \A y \in S : ~ (<<y, x>> \in OpToRel(<, Nat))
      BY NatLessThanWellFounded, WFMin
<1>2. ASSUME NEW y \in S PROVE x <= y
      <2> SUFFICES ASSUME ~ (x <= y) PROVE FALSE
          OBVIOUS
      <2>1. y < x
            OBVIOUS
      <2>2. <<y, x>> \in OpToRel(<, Nat)
            BY <2>1 DEF OpToRel
      <2> QED BY <1>1, <2>2
<1> QED BY <1>2 DEF Least

\* A set of naturals that has 0 and, with each number below n, the next one
\* has all up to n.
LEMMA UpTo ==
    ASSUME NEW n \in Nat, NEW S, 0 \in S, \A i \in 0 .. n - 1 : i \in S => i + 1 \in S
    PROVE  \A i \in 0 .. n : i \in S
<1> DEFINE bad == (0 .. n) \ S
<1> SUFFICES ASSUME bad # {} PROVE FALSE
    OBVIOUS
<1>1. Least(bad) \in bad /\ \A j \in bad : Least(bad) <= j
      BY LeastIs, bad \subseteq Nat
<1>2. PICK m : m = Least(bad)
      OBVIOUS
<1>3. m \in 0 .. n /\ m \notin S /\ m # 0 /\ m - 1 \in 0 .. n - 1 /\ m - 1 \notin bad
      BY <1>1, <1>2
<1> QED BY <1>3
\* g is the first n steps of f from s.
Orbit(g, n, S, f, s) ==
    g \in [0 .. n -> S] /\ g[0] = s /\ \A i \in 0 .. n - 1 : g[i + 1] = f[g[i]]

\* Any function on a set can be followed for as many steps as one likes.
LEMMA OrbitExists ==
    ASSUME NEW m \in Nat, NEW S, NEW f \in [S -> S], NEW s \in S
    PROVE  \E g : Orbit(g, m, S, f, s)
<1> DEFINE good == {n \in 0 .. m : \E g : Orbit(g, n, S, f, s)}
<1>1. 0 \in good
      <2>1. [i \in 0 .. 0 |-> s] \in [0 .. 0 -> S] /\ [i \in 0 .. 0 |-> s][0] = s
            OBVIOUS
      <2>2. 0 .. 0 - 1 = {} /\ 0 \in 0 .. m
            OBVIOUS
      <2>3. Orbit([i \in 0 .. 0 |-> s], 0, S, f, s)
            BY <2>1, <2>2 DEF Orbit
      <2> QED BY <2>2, <2>3
<1>2. ASSUME NEW n \in 0 .. m - 1, n \in good PROVE n + 1 \in good
      <2>1. PICK g : Orbit(g, n, S, f, s)
            BY <1>2
      <2>2. PICK last \in S : last = f[g[n]]
            BY <2>1 DEF Orbit
      <2> DEFINE e == [i \in 0 .. n + 1 |-> IF i = n + 1 THEN last ELSE g[i]]
      <2>3. e \in [0 .. n + 1 -> S] /\ e[0] = s
            BY <2>1 DEF Orbit
      <2>4. ASSUME NEW i \in 0 .. n PROVE e[i + 1] = f[e[i]]
            <3>1. i < n => g[i + 1] = f[g[i]]
                  BY <2>1 DEF Orbit
            <3> QED BY <2>2, <3>1
      <2>5. Orbit(e, n + 1, S, f, s)
            <3>1. n + 1 - 1 = n
                  OBVIOUS
            <3> HIDE DEF e
            <3> QED BY <2>3, <2>4, <3>1 DEF Orbit
      <2>6. n + 1 \in 0 .. m
            OBVIOUS
      <2> HIDE DEF e
      <2> QED BY <2>5, <2>6
<1>3. \A n \in 0 .. m : n \in good
      <2> HIDE DEF good
      <2> QED BY <1>1, <1>2, UpTo
<1> QED BY <1>3
-------------------------------------------------------------------------------
(* The walk *)

\* What the list is made of: an address to start from and a next for each.
Linkable(h) == h.freep \in 0 .. Top /\ h.nextf \in [0 .. Top -> 0 .. Top]

\* The walk starts at heap_freep and follows nextf.
LEMMA WalkSteps ==
    ASSUME NEW h, Linkable(h)
    PROVE  /\ Walk(h) \in [0 .. Top + 2 -> 0 .. Top]
           /\ Walk(h)[0] = h.freep
           /\ \A i \in 0 .. Top + 1 : Walk(h)[i + 1] = h.nextf[Walk(h)[i]]
<1>1. PICK m, S : m = Top + 2 /\ S = 0 .. Top
      OBVIOUS
<1>2. m \in Nat /\ m - 1 = Top + 1 /\ 0 \in 0 .. m
      BY <1>1, HeapAssumption DEF HeapAssumption
<1>3. PICK f, s, w : f = h.nextf /\ s = h.freep /\ w = Walk(h)
      OBVIOUS
<1>4. f \in [S -> S] /\ s \in S
      BY <1>1, <1>3 DEF Linkable
<1>5. PICK g : Orbit(g, m, S, f, s)
      BY <1>2, <1>4, OrbitExists
<1>6. g = [i \in 0 .. m |-> IF i = 0 THEN s ELSE f[g[i - 1]]]
      <2>1. ASSUME NEW i \in 0 .. m, i # 0 PROVE g[i] = f[g[i - 1]]
            <3>1. i - 1 \in 0 .. m - 1 /\ i - 1 + 1 = i
                  BY <1>2, <2>1
            <3> QED BY <1>5, <3>1 DEF Orbit
      <2> QED BY <1>5, <2>1 DEF Orbit
<1>7. w = [i \in 0 .. m |-> IF i = 0 THEN s ELSE f[w[i - 1]]]
      <2>1. \E x : x = [i \in 0 .. m |-> IF i = 0 THEN s ELSE f[x[i - 1]]]
            BY <1>6
      <2>2. w = CHOOSE x : x = [i \in 0 .. m |-> IF i = 0 THEN s ELSE f[x[i - 1]]]
            BY <1>1, <1>3 DEF Walk
      <2> QED BY <2>1, <2>2
<1>8. w[0] = s
      BY <1>2, <1>7
<1>9. ASSUME NEW i \in 0 .. m - 1 PROVE w[i + 1] = f[w[i]]
      <2>1. i + 1 \in 0 .. m /\ i + 1 # 0 /\ i + 1 - 1 = i
            BY <1>2
      <2>2. \A j \in 0 .. m : w[j] = IF j = 0 THEN s ELSE f[w[j - 1]]
            BY <1>7
      <2> QED BY <2>1, <2>2
<1>10. \A i \in 0 .. m : w[i] \in S
      <2> DEFINE good == {i \in 0 .. m : w[i] \in S}
      <2>1. 0 \in good
            BY <1>2, <1>4, <1>8
      <2>2. ASSUME NEW i \in 0 .. m - 1, i \in good PROVE i + 1 \in good
            <3>1. i + 1 \in 0 .. m
                  BY <1>2
            <3> QED BY <1>4, <1>9, <2>2, <3>1
      <2>3. \A i \in 0 .. m : i \in good
            <3> HIDE DEF good
            <3> QED BY <1>2, <2>1, <2>2, UpTo
      <2> QED BY <2>3
<1>11. w \in [0 .. m -> S]
      BY <1>7, <1>10
<1> QED BY <1>1, <1>2, <1>3, <1>8, <1>9, <1>11

\* In address order, q comes right after p; after the highest comes heap_base.
Follows(F, p, q) == \/ q \in F /\ p < q /\ \A x \in F : x <= p \/ q <= x
                    \/ q = Base /\ \A x \in F : x <= p

\* The blocks F make one ring through heap_base, in address order.
Ring(F, nx, fp) == /\ F \subseteq 0 .. Top /\ Base \in F /\ fp \in F
                   /\ \A p \in F : Follows(F, p, nx[p])

\* How far x is ahead of the start, around the address space.
Ahead(fp, x) == IF fp <= x THEN x - fp ELSE x + (Top + 1) - fp

\* One step along the ring passes over nobody, and only the last one of the
\* round comes back to the start.
LEMMA RingStep ==
    ASSUME NEW F, NEW nx, NEW fp, Ring(F, nx, fp), NEW p \in F
    PROVE  /\ nx[p] \in F
           /\ IF nx[p] = fp THEN \A x \in F : Ahead(fp, x) <= Ahead(fp, p)
              ELSE /\ Ahead(fp, p) < Ahead(fp, nx[p])
                   /\ \A x \in F : Ahead(fp, x) <= Ahead(fp, p) \/ Ahead(fp, nx[p]) <= Ahead(fp, x)
<1>1. PICK q : q = nx[p]
      OBVIOUS
<1>2. /\ q \in F /\ fp \in F /\ Top \in Nat
      /\ (p < q /\ \A x \in F : x <= p \/ q <= x) \/ (q = 0 /\ \A x \in F : x <= p)
      BY <1>1, HeapAssumption DEF Ring, Follows, Base, HeapAssumption
<1>3. \A x \in F : x \in Nat /\ x <= Top
      BY <1>2 DEF Ring
<1>4. CASE q = fp
      BY <1>1, <1>2, <1>3, <1>4 DEF Ahead
<1>5. CASE q # fp
      <2>1. Ahead(fp, p) < Ahead(fp, q)
            BY <1>2, <1>3, <1>5 DEF Ahead
      <2>2. ASSUME NEW x \in F PROVE Ahead(fp, x) <= Ahead(fp, p) \/ Ahead(fp, q) <= Ahead(fp, x)
            BY <1>2, <1>3, <1>5 DEF Ahead
      <2> QED BY <1>1, <1>2, <1>5, <2>1, <2>2
<1> QED BY <1>4, <1>5

\* The walk of a ring meets its blocks and no others, each of them before it
\* is back at the start, and is back after at most Top + 1 steps.
LEMMA WalkGoesRound ==
    ASSUME NEW h, Linkable(h), NEW F, Ring(F, h.nextf, h.freep)
    PROVE  /\ Tour(h) \subseteq 1 .. Top + 1
           /\ \A i \in 0 .. Top + 2 : Walk(h)[i] \in F
           /\ \A x \in F : \E i \in Tour(h) : Walk(h)[i] = x
<1>1. PICK w, nx, fp : w = Walk(h) /\ nx = h.nextf /\ fp = h.freep
      OBVIOUS
<1>2. PICK m, k : m = Top + 1 /\ m \in Nat /\ Top \in Nat /\ k = m + 1 /\ k = Top + 2 /\ k \in Nat
      BY HeapAssumption DEF HeapAssumption
<1>3. Ring(F, nx, fp) /\ w[0] = fp /\ \A i \in 0 .. m : w[i + 1] = nx[w[i]]
      BY <1>1, <1>2, WalkSteps
<1>0. fp \in Nat /\ fp <= Top /\ \A x \in F : x \in Nat /\ x <= Top
      <2>1. fp \in 0 .. Top /\ F \subseteq 0 .. Top
            BY <1>3 DEF Ring
      <2> QED BY <1>2, <2>1
<1>4. \A x \in F : Ahead(fp, x) \in Nat /\ Ahead(fp, x) <= Top
      BY <1>0, <1>2 DEF Ahead
<1>5. \A x, y \in F : Ahead(fp, x) = Ahead(fp, y) => x = y
      BY <1>0, <1>2 DEF Ahead
<1>6. \A i \in 0 .. k : w[i] \in F
      <2> DEFINE good == {i \in 0 .. k : w[i] \in F}
      <2>1. 0 \in good
            BY <1>2, <1>3 DEF Ring
      <2>2. ASSUME NEW i \in 0 .. m, i \in good PROVE i + 1 \in good
            <3>1. i + 1 \in 0 .. k
                  BY <1>2
            <3> QED BY <1>3, <2>2, <3>1, RingStep
      <2>3. k \in Nat /\ k - 1 = m
            BY <1>2
      <2> HIDE DEF good
      <2>4. \A i \in 0 .. k : i \in good
            BY <2>1, <2>2, <2>3, UpTo
      <2> QED BY <2>4 DEF good
<1>7. \E i \in 1 .. m : w[i] = fp
      <2> SUFFICES ASSUME \A i \in 1 .. m : w[i] # fp PROVE FALSE
          OBVIOUS
      <2> DEFINE good == {i \in 0 .. m : i <= Ahead(fp, w[i])}
      <2>1. 0 \in good
            BY <1>2, <1>3, <1>4 DEF Ring
      <2>2. ASSUME NEW i \in 0 .. m - 1, i \in good PROVE i + 1 \in good
            <3>1. i + 1 \in 1 .. m /\ i \in 0 .. m /\ i + 1 \in 0 .. m /\ w[i] \in F /\ w[i + 1] \in F
                  BY <1>2, <1>6
            <3>2. w[i + 1] # fp /\ w[i + 1] = nx[w[i]]
                  BY <1>3, <3>1
            <3>3. Ahead(fp, w[i]) < Ahead(fp, w[i + 1])
                  BY <1>3, <3>1, <3>2, RingStep
            <3>4. Ahead(fp, w[i]) \in Nat /\ Ahead(fp, w[i + 1]) \in Nat
                  BY <1>4, <3>1
            <3> QED BY <2>2, <3>1, <3>3, <3>4
      <2> HIDE DEF good
      <2>3. m \in good
            BY <1>2, <2>1, <2>2, UpTo
      <2>4. m <= Ahead(fp, w[m]) /\ w[m] \in F
            BY <1>2, <1>6, <2>3 DEF good
      <2> QED BY <1>2, <1>4, <2>4
<1>8. PICK r : r = Least({i \in 1 .. Top + 2 : w[i] = fp})
      OBVIOUS
<1>9. Tour(h) = 1 .. r
      BY <1>1, <1>8 DEF Tour
<1>10. r \in 1 .. m /\ w[r] = fp /\ \A i \in 1 .. r - 1 : w[i] # fp
      <2> DEFINE back == {i \in 1 .. Top + 2 : w[i] = fp}
      <2>1. back \subseteq Nat /\ back # {}
            BY <1>2, <1>7
      <2>2. Least(back) \in back /\ \A j \in back : Least(back) <= j
            BY <2>1, LeastIs
      <2>3. r \in back /\ \A j \in back : r <= j
            BY <1>8, <2>2
      <2>4. PICK i \in 1 .. m : w[i] = fp
            BY <1>7
      <2>5. i \in back /\ r <= i
            BY <1>2, <2>3, <2>4
      <2>6. ASSUME NEW j \in 1 .. r - 1, w[j] = fp PROVE FALSE
            <3>1. j \in back /\ ~ (r <= j)
                  BY <1>2, <2>3, <2>5, <2>6
            <3> QED BY <2>3, <3>1
      <2> QED BY <1>2, <2>3, <2>5, <2>6
<1>11. \A i \in 0 .. r - 1 : \A x \in F : Ahead(fp, w[i]) < Ahead(fp, x) \/ \E j \in 0 .. i : w[j] = x
      <2> DEFINE Met(i, x) == \E j \in 0 .. i : w[j] = x
                 good == {i \in 0 .. r - 1 : \A x \in F : Ahead(fp, w[i]) < Ahead(fp, x) \/ Met(i, x)}
      <2>1. 0 \in good
            <3>1. ASSUME NEW x \in F, ~ (Ahead(fp, w[0]) < Ahead(fp, x)) PROVE Met(0, x)
                  <4>1. fp \in F /\ fp \in Nat /\ Ahead(fp, fp) = 0
                        BY <1>3 DEF Ring, Ahead
                  <4>2. Ahead(fp, x) = Ahead(fp, fp)
                        BY <1>3, <1>4, <3>1, <4>1
                  <4>3. w[0] = x /\ 0 \in 0 .. 0
                        BY <1>3, <1>5, <4>1, <4>2
                  <4> QED BY <4>3
            <3> HIDE DEF Met
            <3> QED BY <1>10, <3>1
      <2>2. ASSUME NEW i \in 0 .. r - 1 - 1, i \in good PROVE i + 1 \in good
            <3>1. /\ i + 1 \in 1 .. r - 1 /\ i + 1 \in 0 .. r - 1 /\ i \in 0 .. m
                  /\ w[i] \in F /\ w[i + 1] \in F
                  BY <1>2, <1>6, <1>10
            <3>2. w[i + 1] # fp /\ w[i + 1] = nx[w[i]]
                  BY <1>3, <1>10, <3>1
            <3>3. ASSUME NEW x \in F, ~ (Ahead(fp, w[i + 1]) < Ahead(fp, x)) PROVE Met(i + 1, x)
                  <4>1. CASE Met(i, x)
                        BY <3>1, <4>1
                  <4>2. CASE Ahead(fp, w[i]) < Ahead(fp, x)
                        <5>1. Ahead(fp, x) <= Ahead(fp, w[i]) \/ Ahead(fp, w[i + 1]) <= Ahead(fp, x)
                              BY <1>3, <3>1, <3>2, RingStep
                        <5>2. Ahead(fp, w[i + 1]) = Ahead(fp, x)
                              BY <1>4, <3>1, <3>3, <4>2, <5>1
                        <5>3. w[i + 1] = x /\ i + 1 \in 0 .. i + 1
                              BY <1>5, <3>1, <5>2
                        <5> QED BY <5>3
                  <4>3. Met(i, x) \/ Ahead(fp, w[i]) < Ahead(fp, x)
                        <5> HIDE DEF Met
                        <5> QED BY <2>2
                  <4> QED BY <4>1, <4>2, <4>3
            <3> HIDE DEF Met
            <3> QED BY <3>1, <3>3
      <2>3. r - 1 \in Nat
            BY <1>2, <1>10
      <2> HIDE DEF good
      <2>4. \A i \in 0 .. r - 1 : i \in good
            BY <2>1, <2>2, <2>3, UpTo
      <2> QED BY <2>4 DEF good
<1>12. ASSUME NEW x \in F PROVE \E i \in 1 .. r : w[i] = x
      <2>1. r - 1 \in 0 .. r - 1 /\ r - 1 \in 0 .. m /\ w[r - 1] \in F /\ r - 1 + 1 = r
            BY <1>2, <1>6, <1>10
      <2>2. nx[w[r - 1]] = fp
            BY <1>3, <1>10, <2>1
      <2>3. Ahead(fp, x) <= Ahead(fp, w[r - 1])
            BY <1>3, <2>1, <2>2, RingStep
      <2>4. PICK j \in 0 .. r - 1 : w[j] = x
            BY <1>4, <1>11, <2>1, <2>3
      <2>5. CASE j = 0
            BY <1>3, <1>10, <2>4, <2>5, r \in 1 .. r
      <2>6. CASE j # 0
            BY <1>10, <2>4, <2>6, j \in 1 .. r
      <2> QED BY <2>5, <2>6
<1> QED BY <1>1, <1>2, <1>6, <1>9, <1>10, <1>12
-------------------------------------------------------------------------------
(* Taking a block out of the ring *)

\* What a ring says of its addresses.
LEMMA Addresses ==
    ASSUME NEW F, NEW nx, NEW fp, Ring(F, nx, fp)
    PROVE  /\ Top \in Nat /\ 0 \in F
           /\ \A x \in F : x \in Nat /\ x <= Top /\ x \in 0 .. Top
<1>1. Top \in Nat
      BY HeapAssumption DEF HeapAssumption
<1>2. F \subseteq 0 .. Top /\ 0 \in F
      BY DEF Ring, Base
<1> QED BY <1>1, <1>2

\* Who follows whom is settled by the addresses alone.
LEMMA OneBefore ==
    ASSUME NEW F, NEW nx, NEW fp, Ring(F, nx, fp), NEW p \in F, NEW x \in F, nx[x] = nx[p], nx[p] # Base
    PROVE  x = p
<1>1. PICK q : q = nx[p]
      OBVIOUS
<1>2. q \in F /\ p < q /\ x < q /\ (p <= x \/ q <= p) /\ (x <= p \/ q <= x)
      <2>1. Follows(F, p, q) /\ Follows(F, x, q) /\ q # Base
            BY <1>1 DEF Ring
      <2> QED BY <2>1 DEF Follows
<1>3. p \in Nat /\ x \in Nat /\ q \in Nat
      BY <1>2, Addresses
<1> QED BY <1>2, <1>3

\* Without the block after p the ring is a ring.
LEMMA Unlink ==
    ASSUME NEW F, NEW nx \in [0 .. Top -> 0 .. Top], NEW fp, Ring(F, nx, fp), NEW p \in F,
           nx[p] # Base, NEW to \in F, to # nx[p]
    PROVE  /\ Ring(F \ {nx[p]}, [nx EXCEPT ![p] = nx[nx[p]]], to)
           /\ nx[p] \in F /\ p < nx[p] /\ nx[nx[p]] \in F /\ nx[nx[p]] # nx[p]
<1>1. PICK q : q = nx[p]
      OBVIOUS
<1>2. PICK r : r = nx[q]
      OBVIOUS
<1>3. /\ Top \in Nat /\ 0 \in F /\ q \in F /\ p < q /\ q # 0
      /\ \A x \in F : x \in Nat /\ x <= Top /\ x \in 0 .. Top
      <2>1. Follows(F, p, q) /\ q # 0
            BY <1>1 DEF Ring, Base
      <2>2. q \in F /\ p < q
            BY <2>1 DEF Follows, Base
      <2> QED BY <2>1, <2>2, Addresses
<1>4. \A x \in F : x <= p \/ q <= x
      BY <1>1, <1>3 DEF Ring, Follows, Base
<1>5. (r \in F /\ q < r /\ \A x \in F : x <= q \/ r <= x) \/ (r = 0 /\ \A x \in F : x <= q)
      BY <1>2, <1>3 DEF Ring, Follows, Base
<1>6. Follows(F \ {q}, p, r)
      <2>1. CASE r \in F /\ q < r /\ \A x \in F : x <= q \/ r <= x
            <3>1. r \in F \ {q} /\ p < r
                  <4>1. p \in Nat /\ q \in Nat /\ r \in Nat
                        BY <1>3, <2>1
                  <4> QED BY <1>3, <2>1, <4>1
            <3>2. ASSUME NEW x \in F \ {q} PROVE x <= p \/ r <= x
                  <4>1. x \in Nat /\ q \in Nat /\ x # q /\ (x <= p \/ q <= x) /\ (x <= q \/ r <= x)
                        BY <1>3, <1>4, <2>1
                  <4> QED BY <4>1
            <3> QED BY <3>1, <3>2 DEF Follows
      <2>2. CASE r = 0 /\ \A x \in F : x <= q
            <3>1. ASSUME NEW x \in F \ {q} PROVE x <= p
                  <4>1. x \in Nat /\ q \in Nat /\ x # q /\ (x <= p \/ q <= x) /\ x <= q
                        BY <1>3, <1>4, <2>2
                  <4> QED BY <4>1
            <3> QED BY <2>2, <3>1 DEF Follows, Base
      <2> QED BY <1>5, <2>1, <2>2
<1>7. ASSUME NEW x \in F \ {q}, x # p PROVE Follows(F \ {q}, x, nx[x])
      <2>1. Follows(F, x, nx[x])
            BY DEF Ring
      <2>2. nx[x] # q
            BY <1>1, <1>7, <1>3, OneBefore DEF Base
      <2> QED BY <2>1, <2>2 DEF Follows
<1>8. p \in DOMAIN nx
      BY <1>3
<1>9. ASSUME NEW x \in F \ {q} PROVE Follows(F \ {q}, x, [nx EXCEPT ![p] = r][x])
      BY <1>3, <1>6, <1>7, <1>8
<1>10. Ring(F \ {q}, [nx EXCEPT ![p] = r], to)
       <2>1. F \ {q} \subseteq 0 .. Top /\ 0 \in F \ {q} /\ to \in F \ {q}
             BY <1>1, <1>3
       <2> QED BY <1>9, <2>1 DEF Ring, Base
<1>11. r \in F /\ r # q
       <2>1. q \in Nat
             BY <1>3
       <2>2. CASE r \in F /\ q < r
             <3>1. r \in Nat
                   BY <1>3, <2>2
             <3> QED BY <2>1, <2>2, <3>1
       <2>3. CASE r = 0
             BY <1>3, <2>3
       <2> QED BY <1>5, <2>2, <2>3
<1> QED BY <1>1, <1>2, <1>3, <1>10, <1>11

\* A block put in between p and the one after it.
LEMMA Insert ==
    ASSUME NEW F, NEW nx \in [0 .. Top -> 0 .. Top], NEW fp, Ring(F, nx, fp), NEW p \in F,
           NEW b \in Units, b \notin F, p < b, b < nx[p] \/ nx[p] = Base
    PROVE  Ring(F \cup {b}, [nx EXCEPT ![b] = nx[p], ![p] = b], p)
<1>1. PICK q : q = nx[p]
      OBVIOUS
<1>2. PICK f : f = [nx EXCEPT ![b] = q, ![p] = b]
      OBVIOUS
<1>3. /\ 0 \in F /\ b \in Nat /\ b <= Top /\ b \in 0 .. Top /\ b # 0
      /\ \A x \in F : x \in Nat /\ x <= Top /\ x \in 0 .. Top
      <2>1. Top \in Nat /\ b \in 1 .. Top
            BY Addresses DEF Units
      <2> QED BY <2>1, Addresses
<1>4. (q \in F /\ p < q /\ b < q /\ \A x \in F : x <= p \/ q <= x) \/ (q = 0 /\ \A x \in F : x <= p)
      <2>1. (q \in F /\ p < q /\ \A x \in F : x <= p \/ q <= x) \/ (q = 0 /\ \A x \in F : x <= p)
            BY <1>1 DEF Ring, Follows, Base
      <2>2. q # 0 => b < q
            BY <1>1 DEF Base
      <2> QED BY <1>3, <2>1, <2>2
<1>5. f[p] = b /\ f[b] = q /\ \A x \in F : x # p => f[x] = nx[x]
      BY <1>2, <1>3
<1>6. Follows(F \cup {b}, p, b)
      BY <1>3, <1>4 DEF Follows
<1>7. Follows(F \cup {b}, b, q)
      <2>1. CASE q \in F /\ p < q /\ b < q /\ \A x \in F : x <= p \/ q <= x
            <3>1. \A x \in F \cup {b} : x <= b \/ q <= x
                  BY <1>3, <2>1
            <3> QED BY <2>1, <3>1 DEF Follows
      <2>2. CASE q = 0 /\ \A x \in F : x <= p
            <3>1. \A x \in F \cup {b} : x <= b
                  BY <1>3, <2>2
            <3> QED BY <2>2, <3>1 DEF Follows, Base
      <2> QED BY <1>4, <2>1, <2>2
<1>8. ASSUME NEW x \in F, x # p PROVE Follows(F \cup {b}, x, nx[x])
      <2>1. PICK y : y = nx[x]
            OBVIOUS
      <2>2. (y \in F /\ x < y /\ \A z \in F : z <= x \/ y <= z) \/ (y = 0 /\ \A z \in F : z <= x)
            BY <2>1 DEF Ring, Follows, Base
      <2>3. x \in Nat /\ p \in Nat
            BY <1>3
      <2>6. x <= p \/ b < x
            <3>1. CASE q \in F /\ p < q /\ b < q /\ \A z \in F : z <= p \/ q <= z
                  <4>1. (x <= p \/ q <= x) /\ q \in Nat
                        BY <1>3, <3>1
                  <4> QED BY <1>3, <2>3, <3>1, <4>1
            <3>2. CASE \A z \in F : z <= p
                  BY <3>2
            <3> QED BY <1>4, <3>1, <3>2
      <2>4. CASE y \in F /\ x < y /\ \A z \in F : z <= x \/ y <= z
            <3>1. b <= x \/ y <= b
                  <4>1. (p <= x \/ y <= p) /\ y \in Nat
                        BY <1>3, <2>4
                  <4>2. x <= p \/ b < x
                        BY <2>6
                  <4> QED BY <1>3, <1>8, <2>3, <4>1, <4>2
            <3> QED BY <2>1, <2>4, <3>1 DEF Follows
      <2>5. CASE y = 0 /\ \A z \in F : z <= x
            <3>1. b <= x
                  <4>1. p <= x
                        BY <2>5
                  <4> QED BY <1>3, <1>8, <2>3, <2>6, <4>1
            <3> QED BY <2>1, <2>5, <3>1 DEF Follows, Base
      <2> QED BY <2>2, <2>4, <2>5
<1>9. \A x \in F \cup {b} : Follows(F \cup {b}, x, f[x])
      BY <1>5, <1>6, <1>7, <1>8
<1>10. Ring(F \cup {b}, f, p)
       <2>1. F \cup {b} \subseteq 0 .. Top /\ 0 \in F \cup {b} /\ p \in F \cup {b}
             BY <1>3
       <2> QED BY <1>9, <2>1 DEF Ring, Base
<1> QED BY <1>1, <1>2, <1>10
-------------------------------------------------------------------------------
(* Blocks side by side *)

Sizes == [0 .. Top -> 0 .. Top]

\* The blocks that start at S fill the units M, none twice.
Tiled(sz, S, M) ==
    /\ S \subseteq Units /\ M \subseteq Units
    /\ \A a \in S : 1 <= sz[a] /\ \A u \in a .. a + sz[a] - 1 : u \in M
    /\ \A a, b \in S : a < b => a + sz[a] <= b
    /\ \A u \in M : \E a \in S : a <= u /\ u < a + sz[a]

\* The block x ends where y starts.
Touch(sz, x, y) == x # Base /\ x + sz[x] = y

\* The sizes after n units were cut off as b at the end of p, and after x grew
\* over y.
Split(sz2, sz, p, n, b) == /\ n \in Nat /\ 1 <= n /\ n < sz[p] /\ b = p + (sz[p] - n)
                           /\ sz2 = [sz EXCEPT ![p] = sz[p] - n, ![b] = n]
Halves(sz2, sz, S, M, p, n, b) ==
    /\ b \in Units /\ b \notin S /\ sz2 \in Sizes
    /\ Tiled(sz2, S \cup {b}, M)
    /\ sz2[p] = sz[p] - n /\ sz2[b] = n /\ p < b
    /\ \A x \in 0 .. Top : x # p /\ x # b => sz2[x] = sz[x]
Merged(sz2, sz, x, y) == sz2 = [sz EXCEPT ![x] = sz[x] + sz[y]]

\* The links after the block that followed x was taken out.
Skips(nx2, nx, x) == nx2 = [nx EXCEPT ![x] = nx[nx[x]]]

\* What a tiling says of its numbers.
LEMMA TileTypes ==
    ASSUME NEW sz \in Sizes, NEW S, NEW M, Tiled(sz, S, M)
    PROVE  /\ Top \in Nat
           /\ \A a \in S : /\ a \in Nat /\ 1 <= a /\ a <= Top /\ a \in 0 .. Top
                           /\ sz[a] \in Nat /\ 1 <= sz[a] /\ a + sz[a] - 1 <= Top
           /\ \A u \in M : u \in Nat /\ 1 <= u /\ u <= Top
<1>1. Top \in Nat
      BY HeapAssumption DEF HeapAssumption
<1>2. \A u \in M : u \in Nat /\ 1 <= u /\ u <= Top
      BY <1>1 DEF Tiled, Units
<1>3. ASSUME NEW a \in S
      PROVE  /\ a \in Nat /\ 1 <= a /\ a <= Top /\ a \in 0 .. Top
             /\ sz[a] \in Nat /\ 1 <= sz[a] /\ a + sz[a] - 1 <= Top
      <2>1. a \in 1 .. Top
            BY DEF Tiled, Units
      <2>2. sz[a] \in 0 .. Top /\ 1 <= sz[a]
            BY <1>1, <2>1 DEF Tiled, Sizes
      <2>3. a + sz[a] - 1 \in a .. a + sz[a] - 1
            BY <1>1, <2>1, <2>2
      <2>4. a + sz[a] - 1 \in M
            BY <2>3 DEF Tiled
      <2> QED BY <1>1, <1>2, <2>1, <2>2, <2>4
<1> QED BY <1>1, <1>2, <1>3

\* The tail of a block becomes a block of its own.
LEMMA SplitTile ==
    ASSUME NEW sz \in Sizes, NEW S, NEW M, Tiled(sz, S, M), NEW p \in S,
           NEW n, NEW b, NEW sz2, Split(sz2, sz, p, n, b)
    PROVE  Halves(sz2, sz, S, M, p, n, b)
<1>0. n \in Nat /\ 1 <= n /\ n < sz[p]
      BY DEF Split
<1>1. PICK k, rest : k = sz[p] /\ rest = sz[p] - n
      OBVIOUS
<1>2. /\ Top \in Nat /\ p \in Nat /\ 1 <= p /\ p <= Top /\ p \in 0 .. Top
      /\ k \in Nat /\ n \in Nat /\ 1 <= n /\ n < k /\ p + k - 1 <= Top
      BY <1>0, <1>1, TileTypes
<1>3. rest \in Nat /\ rest + n = k /\ 1 <= rest /\ b = p + rest
      BY <1>1, <1>2 DEF Split
<1>4. b \in Nat /\ b # p /\ p < b /\ b + n = p + k /\ b \in 1 .. Top /\ b \in 0 .. Top
      BY <1>2, <1>3
<1>5. sz2 = [sz EXCEPT ![p] = rest, ![b] = n]
      BY <1>1 DEF Split
<1>6. sz2 \in Sizes /\ sz2[p] = rest /\ sz2[b] = n /\ \A x \in 0 .. Top : x # p /\ x # b => sz2[x] = sz[x]
      <2>1. rest \in 0 .. Top /\ n \in 0 .. Top
            BY <1>2, <1>3
      <2>2. DOMAIN sz = 0 .. Top
            BY DEF Sizes
      <2>3. sz2 \in [0 .. Top -> 0 .. Top]
            BY <1>5, <2>1 DEF Sizes
      <2>4. sz2[p] = rest /\ sz2[b] = n
            BY <1>2, <1>4, <1>5, <2>2
      <2>5. \A x \in 0 .. Top : x # p /\ x # b => sz2[x] = sz[x]
            BY <1>5, <2>2
      <2> QED BY <2>3, <2>4, <2>5 DEF Sizes
<1>7. b \notin S
      <2> SUFFICES ASSUME b \in S PROVE FALSE
          OBVIOUS
      <2>1. p + k <= b
            BY <1>1, <1>4 DEF Tiled
      <2> QED BY <1>2, <1>3, <1>4, <2>1
<1>8. \A a \in S : a \in Nat /\ sz[a] \in Nat /\ a \in 0 .. Top /\ (a # p => sz2[a] = sz[a])
      BY <1>6, <1>7, TileTypes
<1>9. Tiled(sz2, S \cup {b}, M)
      <2>1. S \cup {b} \subseteq Units /\ M \subseteq Units
            BY <1>4 DEF Tiled, Units
      <2>2. \A u \in p .. p + k - 1 : u \in M
            BY <1>1 DEF Tiled
      <2>3. ASSUME NEW a \in S \cup {b} PROVE 1 <= sz2[a] /\ \A u \in a .. a + sz2[a] - 1 : u \in M
            <3>1. CASE a = p
                  <4>1. \A u \in p .. p + rest - 1 : u \in p .. p + k - 1
                        BY <1>2, <1>3
                  <4>2. \A u \in p .. p + rest - 1 : u \in M
                        BY <2>2, <4>1
                  <4> QED BY <1>3, <1>6, <3>1, <4>2
            <3>2. CASE a = b
                  <4>1. \A u \in b .. b + n - 1 : u \in p .. p + k - 1
                        BY <1>2, <1>3, <1>4
                  <4>2. \A u \in b .. b + n - 1 : u \in M
                        BY <2>2, <4>1
                  <4> QED BY <1>0, <1>6, <3>2, <4>2
            <3>3. CASE a # p /\ a # b
                  <4>1. a \in S /\ sz2[a] = sz[a]
                        BY <1>8, <3>3
                  <4> QED BY <4>1 DEF Tiled
            <3> QED BY <3>1, <3>2, <3>3
      <2>4. ASSUME NEW x \in S, x # p
            PROVE  (x < p => x + sz[x] <= p) /\ (p < x => p + k <= x) /\ x \in Nat /\ sz[x] \in Nat /\ sz2[x] = sz[x]
            BY <1>1, <1>8, <2>4 DEF Tiled
      <2>5. ASSUME NEW x \in S \cup {b}, NEW y \in S \cup {b}, x < y PROVE x + sz2[x] <= y
            <3>1. CASE x = p /\ y = b
                  BY <1>3, <1>6, <3>1
            <3>2. CASE x = b /\ y = p
                  BY <1>2, <1>4, <2>5, <3>2
            <3>3. CASE x = b /\ y = b
                  BY <1>4, <2>5, <3>3
            <3>4. CASE x = p /\ y \in S
                  <4>1. y # p /\ p < y
                        BY <1>2, <2>5, <3>4
                  <4>2. p + k <= y /\ y \in Nat
                        BY <2>4, <3>4, <4>1
                  <4> QED BY <1>2, <1>3, <1>6, <3>4, <4>2
            <3>5. CASE x = b /\ y \in S /\ y # p
                  <4>1. y \in Nat /\ (p < y => p + k <= y)
                        BY <2>4, <3>5
                  <4> QED BY <1>2, <1>4, <1>6, <2>5, <3>5, <4>1
            <3>6. CASE x \in S /\ x # p /\ y = b
                  <4>1. /\ x \in Nat /\ sz[x] \in Nat /\ sz2[x] = sz[x]
                        /\ (x < p => x + sz[x] <= p) /\ (p < x => p + k <= x)
                        BY <2>4, <3>6
                  <4>2. x < p
                        BY <1>2, <1>4, <2>5, <3>6, <4>1
                  <4> QED BY <1>2, <1>4, <3>6, <4>1, <4>2
            <3>7. CASE x \in S /\ x # p /\ y \in S
                  <4>1. x + sz[x] <= y
                        BY <2>5, <3>7 DEF Tiled
                  <4> QED BY <2>4, <3>7, <4>1
            <3> QED BY <3>1, <3>2, <3>3, <3>4, <3>5, <3>6, <3>7
      <2>6. ASSUME NEW u \in M PROVE \E a \in S \cup {b} : a <= u /\ u < a + sz2[a]
            <3>1. PICK a \in S : a <= u /\ u < a + sz[a]
                  BY DEF Tiled
            <3>2. CASE a # p
                  BY <1>8, <3>1, <3>2
            <3>3. CASE a = p /\ u < b
                  BY <1>3, <1>6, <3>1, <3>3
            <3>4. CASE a = p /\ ~ (u < b)
                  <4>1. u \in Nat
                        BY TileTypes
                  <4>2. b <= u /\ u < b + n
                        BY <1>1, <1>2, <1>3, <1>4, <3>1, <3>4, <4>1
                  <4> QED BY <1>6, <4>2
            <3> QED BY <3>2, <3>3, <3>4
      <2> QED BY <2>1, <2>3, <2>5, <2>6 DEF Tiled
<1> QED BY <1>1, <1>4, <1>6, <1>7, <1>9 DEF Units, Halves

\* Two blocks that touch become one.
LEMMA MergeTile ==
    ASSUME NEW sz \in Sizes, NEW S, NEW M, Tiled(sz, S, M), NEW x \in S, NEW y \in S, Touch(sz, x, y),
           NEW sz2, Merged(sz2, sz, x, y)
    PROVE  /\ sz2 \in Sizes /\ x # y /\ x < y
           /\ Tiled(sz2, S \ {y}, M)
           /\ sz2[x] = sz[x] + sz[y] /\ \A a \in 0 .. Top : a # x => sz2[a] = sz[a]
<1>1. PICK k, l : k = sz[x] /\ l = sz[y]
      OBVIOUS
<1>2. /\ Top \in Nat /\ x \in Nat /\ x \in 0 .. Top /\ 1 <= x /\ k \in Nat /\ 1 <= k
      /\ y \in Nat /\ l \in Nat /\ 1 <= l /\ y + l - 1 <= Top /\ x + k = y
      BY <1>1, TileTypes DEF Touch
<1>3. x < y /\ x # y /\ x + (k + l) = y + l
      BY <1>2
<1>4. sz2 = [sz EXCEPT ![x] = k + l]
      BY <1>1 DEF Merged
<1>5. sz2 \in Sizes /\ sz2[x] = k + l /\ \A a \in 0 .. Top : a # x => sz2[a] = sz[a]
      <2>1. k + l \in 0 .. Top
            BY <1>2
      <2> QED BY <1>2, <1>4, <2>1 DEF Sizes
<1>6. \A a \in S : a \in Nat /\ sz[a] \in Nat /\ a \in 0 .. Top /\ (a # x => sz2[a] = sz[a])
      BY <1>5, TileTypes
<1>7. S \ {y} \subseteq Units /\ M \subseteq Units
      BY DEF Tiled
<1>8. ASSUME NEW a \in S \ {y} PROVE 1 <= sz2[a] /\ \A u \in a .. a + sz2[a] - 1 : u \in M
      <2>1. CASE a = x
            <3>1. (\A u \in x .. x + k - 1 : u \in M) /\ \A u \in y .. y + l - 1 : u \in M
                  BY <1>1 DEF Tiled
            <3>2. \A u \in x .. x + (k + l) - 1 : u \in x .. x + k - 1 \/ u \in y .. y + l - 1
                  BY <1>2
            <3> QED BY <1>2, <1>5, <2>1, <3>1, <3>2
      <2>2. CASE a # x
            <3>1. sz2[a] = sz[a]
                  BY <1>6, <2>2
            <3> QED BY <3>1 DEF Tiled
      <2> QED BY <2>1, <2>2
<1>9. ASSUME NEW a \in S \ {y}, NEW b \in S \ {y}, a < b PROVE a + sz2[a] <= b
      <2>1. a + sz[a] <= b /\ (y < b => y + l <= b) /\ a \in Nat /\ b \in Nat /\ b # y
            BY <1>1, <1>6, <1>9 DEF Tiled
      <2>2. CASE a = x
            BY <1>1, <1>2, <1>3, <1>5, <2>1, <2>2
      <2>3. CASE a # x
            BY <1>6, <2>1, <2>3
      <2> QED BY <2>2, <2>3
<1>10. ASSUME NEW u \in M PROVE \E a \in S \ {y} : a <= u /\ u < a + sz2[a]
       <2>1. PICK a \in S : a <= u /\ u < a + sz[a]
             BY DEF Tiled
       <2>2. u \in Nat
             BY TileTypes
       <2>3. CASE a = x \/ a = y
             <3>1. x <= u /\ u < x + (k + l) /\ x \in S \ {y}
                   BY <1>1, <1>2, <1>3, <2>1, <2>2, <2>3
             <3> QED BY <1>5, <3>1
       <2>4. CASE a # x /\ a # y
             BY <1>6, <2>1, <2>4
       <2> QED BY <2>3, <2>4
<1>11. Tiled(sz2, S \ {y}, M)
       BY <1>7, <1>8, <1>9, <1>10 DEF Tiled
<1> QED BY <1>1, <1>3, <1>5, <1>11
-------------------------------------------------------------------------------
(* What allocating and freeing leave of the heap as a value *)

\* Free blocks F in a ring and blocks in use L, together all of the units M.
Laid(sz, nx, fp, F, L, M) ==
    /\ sz \in Sizes /\ nx \in [0 .. Top -> 0 .. Top]
    /\ Ring(F, nx, fp) /\ F \cap L = {} /\ sz[Base] = 0
    /\ Tiled(sz, (F \ {Base}) \cup L, M)

HeapType == [size : Sizes, nextf : [0 .. Top -> 0 .. Top], freep : 0 .. Top]

Sound(h, F, L, M) ==
    /\ h \in HeapType /\ Laid(h.size, h.nextf, h.freep, F, L, M)
    /\ \A x, y \in F : ~ Touch(h.size, x, y)

\* b was given back, and some free block is as large as b was.
Gave(d, h, L, M, b) ==
    \E G : /\ Sound(d, G, L \ {b}, M)
           /\ \E x \in G : d.size[x] >= h.size[b]
           /\ \A a \in L \ {b} : d.size[a] = h.size[a]

\* What is known when x has grown over the free block y: x touches what y did.
Grown(sz2, nx2, sz, fp, F, L, M, x, y) ==
    /\ y \in F /\ x < y /\ Laid(sz2, nx2, fp, F \ {y}, L, M)
    /\ sz2[x] = sz[x] + sz[y] /\ \A a \in 0 .. Top : a # x => sz2[a] = sz[a]
    /\ \A a, b \in F \ {y} : Touch(sz2, a, b) => Touch(sz, IF a = x THEN y ELSE a, b)

\* A block that grows over the free one after it.
LEMMA Absorb ==
    ASSUME NEW sz, NEW nx, NEW fp, NEW F, NEW L, NEW M, Laid(sz, nx, fp, F, L, M),
           NEW x \in F, Touch(sz, x, nx[x]), fp # nx[x],
           NEW sz2, Merged(sz2, sz, x, nx[x]), NEW nx2, Skips(nx2, nx, x)
    PROVE  Grown(sz2, nx2, sz, fp, F, L, M, x, nx[x])
<1>1. PICK y : y = nx[x]
      OBVIOUS
<1>2. /\ sz \in Sizes /\ nx \in [0 .. Top -> 0 .. Top] /\ Ring(F, nx, fp) /\ fp \in F
      /\ Tiled(sz, (F \ {Base}) \cup L, M) /\ sz[Base] = 0 /\ F \cap L = {}
      BY DEF Laid, Ring
<1>3. y # Base
      <2>1. x \in Nat /\ x # 0 /\ x \in (F \ {Base}) \cup L
            BY <1>2, Addresses DEF Touch, Base
      <2>2. sz[x] \in Nat /\ x + sz[x] = y
            BY <1>1, <1>2, <2>1, TileTypes DEF Touch
      <2> QED BY <2>1, <2>2 DEF Base
<1>4. /\ Ring(F \ {y}, nx2, fp) /\ y \in F /\ x < y
      BY <1>1, <1>2, <1>3, Unlink DEF Skips
<1>5. x \in (F \ {Base}) \cup L /\ y \in (F \ {Base}) \cup L /\ x + sz[x] = y
      BY <1>1, <1>3, <1>4 DEF Touch
<1>6. /\ sz2 \in Sizes /\ Tiled(sz2, ((F \ {Base}) \cup L) \ {y}, M) /\ x # y
      /\ sz2[x] = sz[x] + sz[y] /\ \A a \in 0 .. Top : a # x => sz2[a] = sz[a]
      <2>1. PICK S : S = (F \ {Base}) \cup L
            OBVIOUS
      <2>2. Merged(sz2, sz, x, y) /\ Touch(sz, x, y)
            BY <1>1 DEF Merged
      <2>3. sz \in Sizes /\ Tiled(sz, S, M) /\ x \in S /\ y \in S
            BY <1>2, <1>5, <2>1
      <2>4. /\ sz2 \in Sizes /\ Tiled(sz2, S \ {y}, M) /\ x # y
            /\ sz2[x] = sz[x] + sz[y] /\ \A a \in 0 .. Top : a # x => sz2[a] = sz[a]
            BY SMTT(40), <2>2, <2>3, MergeTile
      <2> QED BY <2>1, <2>4
<1>7. ((F \ {Base}) \cup L) \ {y} = ((F \ {y}) \ {Base}) \cup L
      BY <1>2, <1>4
<1>8. nx2 \in [0 .. Top -> 0 .. Top]
      <2>1. nx[y] \in 0 .. Top
            BY <1>2, <1>4, Addresses
      <2> QED BY <1>1, <1>2, <2>1 DEF Skips
<1>9. sz2[Base] = 0
      <2>1. Base \in 0 .. Top /\ Base # x
            BY <1>2, Addresses DEF Base, Touch
      <2> QED BY <1>2, <1>6, <2>1
<1>10. Laid(sz2, nx2, fp, F \ {y}, L, M)
       BY <1>2, <1>4, <1>6, <1>7, <1>8, <1>9 DEF Laid
<1>11. ASSUME NEW a \in F \ {y}, NEW b \in F \ {y}, Touch(sz2, a, b)
       PROVE  Touch(sz, IF a = x THEN y ELSE a, b)
       <2>1. CASE a = x
             <3>1. x \in Nat /\ sz[x] \in Nat /\ sz[y] \in Nat
                   BY <1>2, <1>5, TileTypes
             <3>2. x + (sz[x] + sz[y]) = b
                   BY <1>6, <1>11, <2>1 DEF Touch
             <3>3. y + sz[y] = b
                   BY <1>5, <3>1, <3>2
             <3> QED BY <1>3, <2>1, <3>3 DEF Touch
       <2>2. CASE a # x
             <3>1. sz2[a] = sz[a]
                   BY <1>2, <1>6, <2>2, Addresses
             <3> QED BY <1>11, <2>2, <3>1 DEF Touch
       <2> QED BY <2>1, <2>2
<1> QED BY <1>1, <1>4, <1>6, <1>10, <1>11 DEF Grown

\* heap_alloc from the block after prev: a block of n units that nobody had.
LEMMA CutSound ==
    ASSUME NEW h, NEW F, NEW L, NEW M, Sound(h, F, L, M), NEW prev \in F,
           NEW n \in Nat, 1 <= n, n <= h.size[h.nextf[prev]],
           NEW c, c = Cut(h, prev, n)
    PROVE  /\ \E G : Sound(c.heap, G, L \cup {c.block}, M)
           /\ c.block \in Units /\ c.block \notin L /\ c.heap.size[c.block] = n
           /\ \A a \in L : c.heap.size[a] = h.size[a]
<1>1. PICK sz, nx, fp, p : sz = h.size /\ nx = h.nextf /\ fp = h.freep /\ p = nx[prev]
      OBVIOUS
<1>2. /\ sz \in Sizes /\ nx \in [0 .. Top -> 0 .. Top] /\ Ring(F, nx, fp) /\ sz[Base] = 0
      /\ Tiled(sz, (F \ {Base}) \cup L, M) /\ F \cap L = {} /\ \A x, y \in F : ~ Touch(sz, x, y)
      /\ h = [size |-> sz, nextf |-> nx, freep |-> fp]
      BY <1>1 DEF Sound, Laid, HeapType
<1>3. p \in F /\ prev \in 0 .. Top
      BY <1>1, <1>2, RingStep, Addresses
<1>4. p # Base
      BY <1>1, <1>2 DEF Base
<1>5. p \in (F \ {Base}) \cup L /\ p \in Nat /\ p \in 0 .. Top /\ sz[p] \in Nat
      BY <1>2, <1>3, <1>4, TileTypes
<1>6. \A a \in L : a \in 0 .. Top /\ a # p
      BY <1>2, <1>3, TileTypes
<1>7. CASE n = sz[p]
      <2>1. sz[p] - n = 0
            BY <1>5, <1>7
      <2>2. c = [block |-> p, heap |-> [size |-> sz, nextf |-> [nx EXCEPT ![prev] = nx[p]], freep |-> prev]]
            BY <1>1, <1>2, <2>1 DEF Cut
      <2>3. PICK nx2 : nx2 = [nx EXCEPT ![prev] = nx[p]]
            OBVIOUS
      <2>4. prev # p
            <3>1. Follows(F, prev, p)
                  BY <1>1, <1>2 DEF Ring
            <3> QED BY <1>4, <3>1, <1>5 DEF Follows
      <2>5. Ring(F \ {p}, nx2, prev) /\ nx[p] \in F
            <3>1. Ring(F \ {nx[prev]}, [nx EXCEPT ![prev] = nx[nx[prev]]], prev) /\ nx[nx[prev]] \in F
                  BY ZenonT(60), <1>1, <1>2, <1>4, <2>4, Unlink
            <3> QED BY <1>1, <2>3, <3>1
      <2>6. nx2 \in [0 .. Top -> 0 .. Top]
            <3>1. nx[p] \in 0 .. Top
                  BY <1>2, <2>5, Addresses
            <3> QED BY <1>2, <2>3, <3>1
      <2>7. ((F \ {p}) \ {Base}) \cup (L \cup {p}) = (F \ {Base}) \cup L
            BY <1>3, <1>4
      <2>8. Laid(sz, nx2, prev, F \ {p}, L \cup {p}, M)
            BY <1>2, <2>5, <2>6, <2>7 DEF Laid
      <2>9. PICK g : g = [size |-> sz, nextf |-> nx2, freep |-> prev]
            OBVIOUS
      <2>10. g \in HeapType /\ g.size = sz /\ g.nextf = nx2 /\ g.freep = prev
            BY <1>2, <1>3, <2>6, <2>9 DEF HeapType
      <2>11. Sound(g, F \ {p}, L \cup {p}, M)
            BY <1>2, <2>8, <2>10 DEF Sound
      <2>12. c.block = p /\ c.heap = g
            BY <2>2, <2>3, <2>9
      <2>13. p \in Units /\ p \notin L
            BY <1>2, <1>3, <1>5 DEF Tiled
      <2> QED BY <1>1, <1>7, <2>10, <2>11, <2>12, <2>13
<1>8. CASE n # sz[p]
      <2>1. n < sz[p] /\ sz[p] - n # 0
            BY <1>1, <1>5, <1>8
      <2>2. PICK b, sz2 : b = p + (sz[p] - n) /\ sz2 = [sz EXCEPT ![p] = sz[p] - n, ![b] = n]
            OBVIOUS
      <2>3. PICK g : g = [size |-> sz2, nextf |-> nx, freep |-> prev]
            OBVIOUS
      <2>4. c.block = b /\ c.heap = g
            BY <1>1, <1>2, <2>1, <2>2, <2>3 DEF Cut
      <2>5. /\ b \in Units /\ b \notin (F \ {Base}) \cup L /\ sz2 \in Sizes
            /\ Tiled(sz2, ((F \ {Base}) \cup L) \cup {b}, M)
            /\ sz2[p] = sz[p] - n /\ sz2[b] = n /\ p < b
            /\ \A x \in 0 .. Top : x # p /\ x # b => sz2[x] = sz[x]
            <3>1. PICK S : S = (F \ {Base}) \cup L
                  OBVIOUS
            <3>2. sz \in Sizes /\ Tiled(sz, S, M) /\ p \in S /\ Split(sz2, sz, p, n, b)
                  BY <1>2, <1>5, <2>1, <2>2, <3>1 DEF Split
            <3>3. Halves(sz2, sz, S, M, p, n, b)
                  BY <3>2, SplitTile
            <3> QED BY <3>1, <3>3 DEF Halves
      <2>6. b \notin F /\ b \notin L /\ b # Base /\ b \in Nat
            <3>1. b # 0 /\ b \in Nat
                  BY <2>5, HeapAssumption DEF Units, HeapAssumption
            <3> QED BY <2>5, <3>1 DEF Base
      <2>7. ((F \ {Base}) \cup L) \cup {b} = (F \ {Base}) \cup (L \cup {b})
            OBVIOUS
      <2>8. Ring(F, nx, prev)
            BY <1>2 DEF Ring
      <2>9. sz2[Base] = 0
            BY <1>2, <1>4, <2>5, <2>6, Addresses DEF Base
      <2>10. Laid(sz2, nx, prev, F, L \cup {b}, M)
            BY <1>2, <2>5, <2>6, <2>7, <2>8, <2>9 DEF Laid
      <2>11. ASSUME NEW x \in F, NEW y \in F, Touch(sz2, x, y) PROVE FALSE
            <3>1. CASE x = p
                  <4>1. p + (sz[p] - n) = y
                        BY <2>5, <2>11, <3>1 DEF Touch
                  <4> QED BY <2>2, <2>6, <4>1
            <3>2. CASE x # p
                  <4>1. sz2[x] = sz[x]
                        BY <1>2, <2>5, <2>6, <3>2, Addresses
                  <4> QED BY <1>2, <2>11, <4>1 DEF Touch
            <3> QED BY <3>1, <3>2
      <2>12. g \in HeapType /\ g.size = sz2 /\ g.nextf = nx /\ g.freep = prev
            BY <1>2, <1>3, <2>3, <2>5 DEF HeapType
      <2>13. Sound(g, F, L \cup {b}, M)
            BY <2>10, <2>11, <2>12 DEF Sound
      <2>14. \A a \in L : sz2[a] = sz[a]
            BY <1>6, <2>5, <2>6
      <2> QED BY <1>1, <2>4, <2>5, <2>6, <2>12, <2>13, <2>14
<1> QED BY <1>7, <1>8
-------------------------------------------------------------------------------
(* Giving a block back *)

\* b is a free block behind p; it may touch the next one, and p may touch it.
InPlace(sz, nx, F, L, M, p, b) ==
    /\ Laid(sz, nx, p, F, L, M) /\ b \in F /\ nx[p] = b /\ b # Base
    /\ \A x, y \in F : Touch(sz, x, y) => (x = b /\ y = nx[b]) \/ (x = p /\ y = b)

\* The block x joined with the one after it, if it touches that one.
Joined(sz2, nx2, sz, nx, x) ==
    IF Touch(sz, x, nx[x]) THEN Merged(sz2, sz, x, nx[x]) /\ Skips(nx2, nx, x)
    ELSE sz2 = sz /\ nx2 = nx

\* heap_free puts the block where it belongs.
LEMMA PutInPlace ==
    ASSUME NEW h, NEW F, NEW L, NEW M, Sound(h, F, L, M), NEW b \in L, NEW p \in F, Between(h, p, b)
    PROVE  /\ InPlace(h.size, [h.nextf EXCEPT ![b] = h.nextf[p], ![p] = b], F \cup {b}, L \ {b}, M, p, b)
           /\ p < b /\ b # h.nextf[p] /\ b \in 0 .. Top
<1>1. PICK sz, nx, fp, q : sz = h.size /\ nx = h.nextf /\ fp = h.freep /\ q = nx[p]
      OBVIOUS
<1>2. PICK nx1, E : nx1 = [nx EXCEPT ![b] = q, ![p] = b] /\ E = F \cup {b}
      OBVIOUS
<1>3. /\ sz \in Sizes /\ nx \in [0 .. Top -> 0 .. Top] /\ Ring(F, nx, fp) /\ sz[Base] = 0
      /\ Tiled(sz, (F \ {Base}) \cup L, M) /\ F \cap L = {} /\ \A x, y \in F : ~ Touch(sz, x, y)
      BY <1>1 DEF Sound, Laid
<1>4. /\ Top \in Nat /\ 0 \in F /\ \A x \in F : x \in Nat /\ x <= Top /\ x \in 0 .. Top
      BY <1>3, Addresses
<1>5. /\ b \in Nat /\ b # 0 /\ b \in Units /\ b \in 0 .. Top /\ b \notin F /\ sz[b] \in Nat /\ 1 <= sz[b]
      <2>1. b \in (F \ {Base}) \cup L
            OBVIOUS
      <2>2. b \in Nat /\ 1 <= b /\ b <= Top /\ b \in 0 .. Top /\ sz[b] \in Nat /\ 1 <= sz[b]
            BY <1>3, <2>1, TileTypes
      <2>3. b \notin F
            BY <1>3
      <2>4. b \in Units
            BY <1>4, <2>2 DEF Units
      <2> QED BY <2>2, <2>3, <2>4
<1>6. q \in F /\ Follows(F, p, q)
      BY <1>1, <1>3, RingStep DEF Ring
<1>7. p < b /\ (b < q \/ q = 0)
      <2>1. p \in Nat /\ q \in Nat
            BY <1>4, <1>6
      <2>2. (p < b /\ b < q) \/ (p >= q /\ (b > p \/ b < q))
            BY <1>1 DEF Between
      <2>3. p < q \/ q = 0
            BY <1>6 DEF Follows, Base
      <2> QED BY <1>5, <2>1, <2>2, <2>3
<1>8. b # q /\ p # b
      BY <1>4, <1>5, <1>6, <1>7
<1>9. Ring(E, nx1, p)
      BY <1>1, <1>2, <1>3, <1>5, <1>7, Insert DEF Base
<1>10. nx1[b] = q /\ nx1[p] = b /\ nx1 \in [0 .. Top -> 0 .. Top]
       BY <1>2, <1>3, <1>4, <1>5, <1>6, <1>8
<1>11. (E \ {Base}) \cup (L \ {b}) = (F \ {Base}) \cup L /\ E \cap (L \ {b}) = {}
       BY <1>2, <1>3, <1>5 DEF Base
<1>12. Laid(sz, nx1, p, E, L \ {b}, M)
       BY <1>3, <1>9, <1>10, <1>11 DEF Laid
<1>13. ASSUME NEW x \in E, NEW y \in E, Touch(sz, x, y)
       PROVE  (x = b /\ y = q) \/ (x = p /\ y = b)
       <2>1. x # 0 /\ x \in (F \ {Base}) \cup L /\ x + sz[x] = y
             BY <1>2, <1>13 DEF Touch, Base
       <2>2. x \in Nat /\ y \in Nat /\ sz[x] \in Nat /\ 1 <= sz[x] /\ x < y
             <3>1. x \in Nat /\ sz[x] \in Nat /\ 1 <= sz[x]
                   BY <1>3, <2>1, TileTypes
             <3> QED BY <2>1, <3>1
       <2>3. CASE x = b
             <3>1. y \in F /\ y # 0
                   BY <1>2, <2>2, <2>3
             <3>2. q # 0 /\ q <= y /\ b < q
                   <4>1. b \in E
                         BY <1>2
                   <4>2. Follows(E, b, q)
                         BY <1>9, <1>10, <4>1 DEF Ring
                   <4>3. ~ (y <= b) /\ q # 0
                         <5>1. ~ (y <= b)
                               BY <2>2, <2>3
                         <5>2. ~ (b < 0)
                               BY <1>5
                         <5> QED BY <1>13, <4>2, <5>1, <5>2 DEF Follows, Base
                   <4> QED BY <1>7, <1>13, <4>2, <4>3 DEF Follows, Base
             <3>3. b + sz[b] <= q
                   <4>1. q \in (F \ {Base}) \cup L /\ b \in (F \ {Base}) \cup L
                         BY <1>6, <3>2 DEF Base
                   <4> QED BY <1>3, <3>2, <4>1 DEF Tiled
             <3>4. q \in Nat
                   BY <1>4, <1>6
             <3> QED BY <2>1, <2>2, <2>3, <3>2, <3>3, <3>4
       <2>4. CASE x # b
             <3>1. x \in F /\ y = b
                   BY <1>2, <1>3, <1>13, <2>4
             <3>2. x <= p
                   <4>1. Follows(E, p, b)
                         BY <1>2, <1>9, <1>10 DEF Ring
                   <4>2. ~ (b <= x)
                         BY <2>2, <3>1
                   <4> QED BY <1>5, <1>13, <4>1, <4>2 DEF Follows, Base
             <3>3. CASE x < p
                   <4>1. p \in (F \ {Base}) \cup L /\ p \in Nat
                         BY <1>4, <2>2, <3>3 DEF Base
                   <4>2. x + sz[x] <= p
                         BY <1>3, <2>1, <3>3, <4>1 DEF Tiled
                   <4> QED BY <1>5, <1>7, <2>1, <2>2, <3>1, <4>1, <4>2
             <3> QED BY <1>4, <2>2, <3>1, <3>2, <3>3
       <2> QED BY <2>3, <2>4
<1>14. InPlace(sz, nx1, E, L \ {b}, M, p, b)
       BY <1>2, <1>5, <1>10, <1>12, <1>13 DEF InPlace, Base
<1> QED BY <1>1, <1>2, <1>5, <1>7, <1>8, <1>14

\* First the block is joined with the next one.
LEMMA JoinUp ==
    ASSUME NEW sz, NEW nx, NEW F, NEW L, NEW M, NEW p, NEW b, InPlace(sz, nx, F, L, M, p, b), p < b,
           NEW sz2, NEW nx2, Joined(sz2, nx2, sz, nx, b)
    PROVE  \E G : /\ InPlace(sz2, nx2, G, L, M, p, b)
                  /\ \A x, y \in G : Touch(sz2, x, y) => (x = p /\ y = b)
                  /\ sz2[b] >= sz[b] /\ \A a \in 0 .. Top : a # b => sz2[a] = sz[a]
<1>1. PICK q : q = nx[b]
      OBVIOUS
<1>2. Laid(sz, nx, p, F, L, M) /\ b \in F /\ p \in F /\ nx[p] = b /\ b # Base
      BY DEF InPlace, Laid, Ring
<1>3. CASE ~ Touch(sz, b, q)
      <2>1. sz2 = sz /\ nx2 = nx
            BY <1>1, <1>3 DEF Joined
      <2>2. \A x, y \in F : Touch(sz, x, y) => (x = p /\ y = b)
            BY <1>1, <1>3 DEF InPlace
      <2>3. sz[b] >= sz[b]
            <3>1. sz[b] \in 0 .. Top
                  BY <1>2, Addresses DEF Laid, Sizes
            <3> QED BY <3>1, HeapAssumption DEF HeapAssumption
      <2> QED BY <2>1, <2>2, <2>3
<1>4. CASE Touch(sz, b, q)
      <2>1. Merged(sz2, sz, b, nx[b]) /\ Skips(nx2, nx, b) /\ Touch(sz, b, nx[b])
            BY <1>1, <1>4 DEF Joined
      <2>2. PICK k, l : k = sz[b] /\ l = sz[q]
            OBVIOUS
      <2>3. nx[b] # p
            <3>1. b \in Nat /\ p \in Nat /\ sz[b] \in Nat
                  <4>1. p \in 0 .. Top /\ b \in 0 .. Top /\ Top \in Nat
                        BY <1>2, Addresses DEF Laid
                  <4>2. sz[b] \in 0 .. Top
                        BY <1>2, <4>1 DEF Laid, Sizes
                  <4> QED BY <4>1, <4>2
            <3>2. b + sz[b] = nx[b]
                  BY <2>1 DEF Touch
            <3> QED BY <3>1, <3>2
      <2>4. Grown(sz2, nx2, sz, p, F, L, M, b, nx[b])
            BY <1>2, <2>1, <2>3, Absorb
      <2>5. PICK G : G = F \ {q}
            OBVIOUS
      <2>6. /\ q \in F /\ b < q /\ Laid(sz2, nx2, p, G, L, M)
            /\ sz2[b] = sz[b] + sz[q] /\ \A a \in 0 .. Top : a # b => sz2[a] = sz[a]
            /\ \A x, y \in G : Touch(sz2, x, y) => Touch(sz, IF x = b THEN q ELSE x, y)
            BY <1>1, <2>4, <2>5 DEF Grown
      <2>7. /\ Top \in Nat /\ p \in 0 .. Top /\ b \in 0 .. Top /\ q \in 0 .. Top
            /\ sz[b] \in 0 .. Top /\ sz[q] \in 0 .. Top
            <3>1. Top \in Nat /\ p \in 0 .. Top /\ b \in 0 .. Top /\ q \in 0 .. Top
                  BY <1>2, <2>6, Addresses DEF Laid
            <3> QED BY <1>2, <3>1 DEF Laid, Sizes
      <2>8. ASSUME NEW x \in G, NEW y \in G, Touch(sz2, x, y) PROVE x = p /\ y = b
            <3>1. PICK z : z = IF x = b THEN q ELSE x
                  OBVIOUS
            <3>2. Touch(sz, z, y) /\ z \in F /\ y \in F /\ y # q
                  BY <2>5, <2>6, <2>8, <3>1
            <3>3. (z = b /\ y = q) \/ (z = p /\ y = b)
                  BY <1>1, <3>2 DEF InPlace
            <3> QED BY <1>1, <2>3, <3>1, <3>2, <3>3
      <2>9. b \in G
            BY <1>2, <2>5, <2>6, <2>7
      <2>10. nx2[p] = b
            <3>1. p # b
                  BY <2>7
            <3> QED BY <1>2, <2>1, <2>7, <3>1 DEF Skips, Laid
      <2>11. InPlace(sz2, nx2, G, L, M, p, b)
            BY <1>2, <2>6, <2>8, <2>9, <2>10 DEF InPlace
      <2>12. sz2[b] >= sz[b]
            BY <2>6, <2>7
      <2> QED BY <2>6, <2>8, <2>11, <2>12
<1> QED BY <1>3, <1>4

\* Then the one before it is joined with the block.
LEMMA JoinDown ==
    ASSUME NEW sz, NEW nx, NEW F, NEW L, NEW M, NEW p, NEW b, InPlace(sz, nx, F, L, M, p, b), p < b,
           \A x, y \in F : Touch(sz, x, y) => (x = p /\ y = b),
           NEW sz2, NEW nx2, Joined(sz2, nx2, sz, nx, p)
    PROVE  \E G : /\ Laid(sz2, nx2, p, G, L, M)
                  /\ \A x, y \in G : ~ Touch(sz2, x, y)
                  /\ \E x \in G : sz2[x] >= sz[b]
                  /\ \A a \in 0 .. Top : a # p => sz2[a] = sz[a]
<1>1. Laid(sz, nx, p, F, L, M) /\ b \in F /\ p \in F /\ nx[p] = b /\ b # Base
      BY DEF InPlace, Laid, Ring
<1>2. /\ Top \in Nat /\ p \in 0 .. Top /\ b \in 0 .. Top /\ p # b
      /\ sz[b] \in 0 .. Top /\ sz[p] \in 0 .. Top
      <2>1. Top \in Nat /\ p \in 0 .. Top /\ b \in 0 .. Top
            BY <1>1, Addresses DEF Laid
      <2> QED BY <1>1, <2>1 DEF Laid, Sizes
<1>3. CASE ~ Touch(sz, p, b)
      <2>1. sz2 = sz /\ nx2 = nx
            BY <1>1, <1>3 DEF Joined
      <2>2. sz[b] >= sz[b]
            BY <1>2
      <2>3. \A x, y \in F : ~ Touch(sz, x, y)
            BY <1>3
      <2> QED BY <1>1, <2>1, <2>2, <2>3
<1>4. CASE Touch(sz, p, b)
      <2>1. Merged(sz2, sz, p, nx[p]) /\ Skips(nx2, nx, p) /\ Touch(sz, p, nx[p]) /\ nx[p] # p
            BY <1>1, <1>2, <1>4 DEF Joined
      <2>2. Grown(sz2, nx2, sz, p, F, L, M, p, nx[p])
            BY <1>1, <2>1, Absorb
      <2>3. PICK G : G = F \ {b}
            OBVIOUS
      <2>4. /\ Laid(sz2, nx2, p, G, L, M)
            /\ sz2[p] = sz[p] + sz[b] /\ \A a \in 0 .. Top : a # p => sz2[a] = sz[a]
            /\ \A x, y \in G : Touch(sz2, x, y) => Touch(sz, IF x = p THEN b ELSE x, y)
            BY <1>1, <2>2, <2>3 DEF Grown
      <2>5. \A x, y \in G : ~ Touch(sz2, x, y)
            <3> SUFFICES ASSUME NEW x \in G, NEW y \in G, Touch(sz2, x, y) PROVE FALSE
                OBVIOUS
            <3>1. PICK z : z = IF x = p THEN b ELSE x
                  OBVIOUS
            <3>2. Touch(sz, z, y) /\ z \in F /\ y \in F /\ y # b
                  BY <1>1, <2>3, <2>4, <3>1
            <3> QED BY <3>2
      <2>6. p \in G /\ sz2[p] >= sz[b]
            BY <1>1, <1>2, <2>3, <2>4
      <2> QED BY <2>4, <2>5, <2>6
<1> QED BY <1>3, <1>4

\* heap_free behind p: b is free now, and some free block is as large as b was.
LEMMA PutSound ==
    ASSUME NEW h, NEW F, NEW L, NEW M, Sound(h, F, L, M), NEW b \in L, NEW p \in F, Between(h, p, b)
    PROVE  Gave(PutBehind(h, p, b), h, L, M, b)
<1>1. PICK sz, nx, fp, q : sz = h.size /\ nx = h.nextf /\ fp = h.freep /\ q = nx[p]
      OBVIOUS
<1>2. PICK nx1, E : nx1 = [nx EXCEPT ![b] = q, ![p] = b] /\ E = F \cup {b}
      OBVIOUS
<1>3. InPlace(sz, nx1, E, L \ {b}, M, p, b) /\ p < b /\ b # q /\ b \in 0 .. Top
      BY <1>1, <1>2, PutInPlace
<1>4. /\ sz \in Sizes /\ nx \in [0 .. Top -> 0 .. Top] /\ p \in 0 .. Top /\ q \in 0 .. Top /\ sz[Base] = 0
      /\ Top \in Nat
      <2>1. Ring(F, nx, fp) /\ sz \in Sizes /\ nx \in [0 .. Top -> 0 .. Top] /\ sz[Base] = 0
            BY <1>1 DEF Sound, Laid
      <2> QED BY <1>1, <2>1, Addresses, RingStep
<1>5. PICK up, down : up = (b + sz[b] = q) /\ down = (p + sz[p] = b)
      OBVIOUS
<1>6. b # Base /\ nx1[b] = q /\ nx1[p] = b /\ p # b
      <2>1. p # b
            BY <1>3, <1>4
      <2> QED BY <1>1, <1>2, <1>3, <1>4, <2>1 DEF InPlace
<1>7. /\ Touch(sz, b, nx1[b]) <=> up
      /\ Touch(sz, p, b) <=> down
      <2>1. p = Base => ~ (p + sz[p] = b)
            BY <1>4, <1>6 DEF Base
      <2> QED BY <1>5, <1>6, <2>1 DEF Touch
<1>8. PICK s, n : /\ s = (IF up THEN sz[b] + sz[q] ELSE sz[b])
                  /\ n = (IF up THEN nx[q] ELSE q)
      OBVIOUS
<1>9. PutBehind(h, p, b) = [size  |-> [sz EXCEPT ![b] = s, ![p] = IF down THEN @ + s ELSE @],
                            nextf |-> [nx EXCEPT ![b] = n, ![p] = IF down THEN n ELSE b],
                            freep |-> p]
      BY <1>1, <1>5, <1>8 DEF PutBehind
\* The block joined with the next one.
<1>10. PICK sz1, nx2 : /\ sz1 = [sz EXCEPT ![b] = s]
                       /\ nx2 = [nx EXCEPT ![b] = n, ![p] = b]
       OBVIOUS
<1>11. Joined(sz1, nx2, sz, nx1, b)
       <2>1. CASE up
             <3>1. sz1 = [sz EXCEPT ![b] = sz[b] + sz[nx1[b]]]
                   BY <1>6, <1>8, <1>10, <2>1
             <3>2. nx1[q] = nx[q]
                   <4>1. q # p
                         <5>1. b + sz[b] = q
                               BY <1>5, <2>1
                         <5>2. sz[b] \in Nat /\ b \in Nat /\ p \in Nat
                               BY <1>3, <1>4 DEF Sizes
                         <5> QED BY <1>3, <5>1, <5>2
                   <4> QED BY <1>2, <1>3, <1>4, <4>1
             <3>3. nx2 = [nx1 EXCEPT ![b] = nx1[nx1[b]]]
                   <4>1. n = nx1[nx1[b]]
                         BY <1>6, <1>8, <2>1, <3>2
                   <4> QED BY <1>2, <1>4, <1>6, <1>10, <4>1
             <3> QED BY <1>7, <2>1, <3>1, <3>3 DEF Joined, Merged, Skips
       <2>2. CASE ~ up
             <3>1. sz1 = sz
                   BY <1>3, <1>4, <1>8, <1>10, <2>2 DEF Sizes
             <3>2. nx2 = nx1
                   BY <1>2, <1>8, <1>10, <2>2
             <3> QED BY <1>7, <2>2, <3>1, <3>2 DEF Joined
       <2> QED BY <2>1, <2>2
<1>12. PICK G1 : /\ InPlace(sz1, nx2, G1, L \ {b}, M, p, b)
                 /\ \A x, y \in G1 : Touch(sz1, x, y) => (x = p /\ y = b)
                 /\ sz1[b] >= sz[b] /\ \A a \in 0 .. Top : a # b => sz1[a] = sz[a]
       BY <1>3, <1>11, JoinUp
\* The one before it joined with both.
<1>13. PICK sz2, nx3 : /\ sz2 = [sz EXCEPT ![b] = s, ![p] = IF down THEN @ + s ELSE @]
                       /\ nx3 = [nx EXCEPT ![b] = n, ![p] = IF down THEN n ELSE b]
       OBVIOUS
<1>14. /\ sz1[b] = s /\ sz1[p] = sz[p] /\ nx2[p] = b /\ nx2[b] = n
       BY <1>3, <1>4, <1>6, <1>10 DEF Sizes
<1>15. Touch(sz1, p, nx2[p]) <=> down
       BY <1>7, <1>14 DEF Touch
<1>16. Joined(sz2, nx3, sz1, nx2, p)
       <2>1. CASE down
             <3>1. sz2 = [sz1 EXCEPT ![p] = sz1[p] + sz1[nx2[p]]]
                   BY <1>4, <1>6, <1>10, <1>13, <1>14, <2>1 DEF Sizes
             <3>2. nx3 = [nx2 EXCEPT ![p] = nx2[nx2[p]]]
                   BY <1>4, <1>6, <1>10, <1>13, <1>14, <2>1
             <3> QED BY <1>15, <2>1, <3>1, <3>2 DEF Joined, Merged, Skips
       <2>2. CASE ~ down
             <3>1. sz2 = sz1
                   BY <1>4, <1>6, <1>10, <1>13, <1>14, <2>2 DEF Sizes
             <3>2. nx3 = nx2
                   BY <1>10, <1>13, <2>2
             <3> QED BY <1>15, <2>2, <3>1, <3>2 DEF Joined
       <2> QED BY <2>1, <2>2
<1>17. PICK G : /\ Laid(sz2, nx3, p, G, L \ {b}, M)
                /\ \A x, y \in G : ~ Touch(sz2, x, y)
                /\ \E x \in G : sz2[x] >= sz1[b]
                /\ \A a \in 0 .. Top : a # p => sz2[a] = sz1[a]
       BY <1>3, <1>12, <1>16, JoinDown
<1>18. PICK d : d = [size |-> sz2, nextf |-> nx3, freep |-> p]
       OBVIOUS
<1>19. Sound(d, G, L \ {b}, M)
       <2>1. d.size = sz2 /\ d.nextf = nx3 /\ d.freep = p /\ d \in HeapType
             BY <1>4, <1>17, <1>18 DEF HeapType, Laid
       <2> QED BY <1>17, <2>1 DEF Sound
<1>20. PutBehind(h, p, b) = d
       BY <1>9, <1>13, <1>18
<1>21. \E x \in G : sz2[x] >= sz[b]
       <2>1. PICK x \in G : sz2[x] >= sz1[b]
             BY <1>17
       <2>2. sz2[x] \in 0 .. Top /\ sz1[b] \in 0 .. Top /\ sz[b] \in 0 .. Top
             <3>1. sz2 \in Sizes /\ sz1 \in Sizes /\ G \subseteq 0 .. Top
                   BY <1>12, <1>17 DEF InPlace, Laid, Ring
             <3> QED BY <1>3, <1>4, <3>1 DEF Sizes
       <2>3. PICK i, j, k : i = sz2[x] /\ j = sz1[b] /\ k = sz[b]
             OBVIOUS
       <2>4. i >= j /\ j >= k
             BY <1>12, <2>1, <2>3
       <2>5. i \in Nat /\ j \in Nat /\ k \in Nat
             <3>1. \A y \in 0 .. Top : y \in Nat
                   BY HeapAssumption DEF HeapAssumption
             <3> QED BY <2>2, <2>3, <3>1
       <2>6. i >= k
             BY <2>4, <2>5
       <2> QED BY <2>3, <2>6
<1>22. ASSUME NEW a \in L \ {b} PROVE sz2[a] = sz[a]
       <2>1. a \in 0 .. Top /\ a # p
             <3>1. Laid(sz, nx, fp, F, L, M) /\ a \in (F \ {Base}) \cup L /\ a \notin F
                   BY <1>1 DEF Sound, Laid
             <3> QED BY <3>1, TileTypes DEF Laid
       <2> QED BY <1>12, <1>17, <2>1
<1>23. Gave(d, h, L, M, b)
       BY <1>1, <1>18, <1>19, <1>21, <1>22 DEF Gave
<1> QED BY <1>20, <1>23
-------------------------------------------------------------------------------
(* The operations on the heap as a value *)

\* f is a block of n units that nobody had, and what is left.
Took(f, h, L, M, n) ==
    /\ \E G : Sound(f.heap, G, L \cup {f.block}, M)
    /\ f.block \in Units /\ f.block \notin L /\ f.heap.size[f.block] = n
    /\ \A a \in L : f.heap.size[a] = h.size[a]

LEMMA SoundLinks ==
    ASSUME NEW h, NEW F, NEW L, NEW M, Sound(h, F, L, M)
    PROVE  Linkable(h) /\ Ring(F, h.nextf, h.freep)
BY DEF Sound, Laid, HeapType, Linkable

\* heap_free finds a place for the block.
LEMMA FreedSound ==
    ASSUME NEW h, NEW F, NEW L, NEW M, Sound(h, F, L, M), NEW b \in L
    PROVE  Gave(Freed(h, b), h, L, M, b)
<1>1. PICK nx, fp, sz, w : nx = h.nextf /\ fp = h.freep /\ sz = h.size /\ w = Walk(h)
      OBVIOUS
<1>2. Ring(F, nx, fp) /\ Tiled(sz, (F \ {Base}) \cup L, M) /\ F \cap L = {} /\ sz \in Sizes
      BY <1>1 DEF Sound, Laid
<1>3. /\ Top \in Nat /\ 0 \in F /\ \A x \in F : x \in Nat /\ x <= Top
      BY <1>2, Addresses
<1>4. b \in Nat /\ 1 <= b /\ b \notin F
      <2>1. b \in (F \ {Base}) \cup L
            OBVIOUS
      <2> QED BY <1>2, <2>1, TileTypes
<1>5. PICK p \in F : p < b /\ \A x \in F : x < b => x <= p
      <2> DEFINE gaps == {g \in Nat : \E x \in F : x < b /\ g = b - x}
      <2>1. gaps \subseteq Nat /\ gaps # {}
            <3>1. b - 0 \in gaps
                  BY <1>3, <1>4
            <3> QED BY <3>1
      <2>2. PICK g : g \in gaps /\ \A j \in gaps : g <= j
            BY <2>1, LeastIs
      <2>3. PICK p \in F : p < b /\ g = b - p
            BY <2>2
      <2>4. ASSUME NEW x \in F, x < b PROVE x <= p
            <3>1. b - x \in gaps
                  BY <1>3, <1>4, <2>4
            <3>2. g <= b - x
                  BY <2>2, <3>1
            <3> QED BY <1>3, <1>4, <2>3, <3>2
      <2> QED BY <2>3, <2>4
<1>6. Between(h, p, b)
      <2>1. PICK q : q = nx[p]
            OBVIOUS
      <2>2. q \in F /\ Follows(F, p, q)
            BY <1>2, <2>1, RingStep DEF Ring
      <2>3. q \in Nat /\ p \in Nat /\ q # b
            BY <1>3, <1>4, <2>2
      <2>4. CASE p < q
            <3>1. ~ (q < b)
                  BY <1>5, <2>2, <2>3, <2>4
            <3> QED BY <1>1, <1>4, <1>5, <2>1, <2>3, <3>1 DEF Between
      <2>5. CASE ~ (p < q)
            BY <1>1, <1>4, <1>5, <2>1, <2>3, <2>5 DEF Between
      <2> QED BY <2>4, <2>5
<1> DEFINE places == {i \in 0 .. Top + 1 : Between(h, Walk(h)[i], b)}
<1>7. Linkable(h) /\ Ring(F, h.nextf, h.freep)
      BY SoundLinks
<1>8. /\ Tour(h) \subseteq 1 .. Top + 1
      /\ \A i \in 0 .. Top + 2 : Walk(h)[i] \in F
      /\ \A x \in F : \E i \in Tour(h) : Walk(h)[i] = x
      BY <1>7, WalkGoesRound
<1>9. places \subseteq Nat /\ places # {}
      <2>1. PICK i \in Tour(h) : Walk(h)[i] = p
            BY <1>8
      <2>2. i \in 0 .. Top + 1
            BY <1>3, <1>8
      <2> QED BY <1>3, <1>6, <2>1, <2>2
<1>10. PICK i : i = Least(places) /\ i \in places
       BY <1>9, LeastIs
<1>11. PICK x : x = Walk(h)[i] /\ x \in F /\ Between(h, x, b)
       <2>1. i \in 0 .. Top + 2
             BY <1>3, <1>10
       <2> QED BY <1>8, <1>10, <2>1
<1>12. Freed(h, b) = PutBehind(h, x, b)
       BY <1>10, <1>11 DEF Freed
<1>13. Gave(PutBehind(h, x, b), h, L, M, b)
       BY <1>11, PutSound
<1> QED BY <1>12, <1>13

\* When the tour finds nothing, no free block is large enough.
LEMMA FitsOrNot ==
    ASSUME NEW h, NEW F, NEW L, NEW M, Sound(h, F, L, M), NEW n
    PROVE  Fits(h, n) = {} <=> \A x \in F : ~ (h.size[x] >= n)
<1>1. Linkable(h) /\ Ring(F, h.nextf, h.freep)
      BY SoundLinks
<1>2. /\ Tour(h) \subseteq 1 .. Top + 1
      /\ \A i \in 0 .. Top + 2 : Walk(h)[i] \in F
      /\ \A x \in F : \E i \in Tour(h) : Walk(h)[i] = x
      BY <1>1, WalkGoesRound
<1>3. \A i \in Tour(h) : Walk(h)[i] \in F
      <2>1. \A i \in 1 .. Top + 1 : i \in 0 .. Top + 2
            BY HeapAssumption DEF HeapAssumption
      <2> QED BY <1>2, <2>1
<1> QED BY <1>2, <1>3 DEF Fits

\* heap_alloc takes the first block that is large enough.
LEMMA FoundSound ==
    ASSUME NEW h, NEW F, NEW L, NEW M, Sound(h, F, L, M), NEW n \in Nat, 1 <= n, Fits(h, n) # {}
    PROVE  Took(Found(h, n), h, L, M, n)
<1>1. Linkable(h) /\ Ring(F, h.nextf, h.freep)
      BY SoundLinks
<1>2. /\ Tour(h) \subseteq 1 .. Top + 1
      /\ \A i \in 0 .. Top + 2 : Walk(h)[i] \in F
      BY <1>1, WalkGoesRound
<1>3. Top \in Nat
      BY HeapAssumption DEF HeapAssumption
<1>4. Fits(h, n) \subseteq 1 .. Top + 1
      BY <1>2 DEF Fits
<1>5. PICK i : i = Least(Fits(h, n)) /\ i \in Fits(h, n)
      <2>1. Fits(h, n) \subseteq Nat
            BY <1>3, <1>4
      <2> QED BY <2>1, LeastIs
<1>6. i \in 1 .. Top + 1 /\ h.size[Walk(h)[i]] >= n
      BY <1>4, <1>5 DEF Fits
<1>7. i - 1 \in 0 .. Top + 1 /\ i - 1 \in 0 .. Top + 2 /\ i - 1 + 1 = i /\ i \in 0 .. Top + 2
      BY <1>3, <1>6
<1>8. Walk(h)[i] = h.nextf[Walk(h)[i - 1]]
      BY <1>1, <1>7, WalkSteps
<1>9. PICK prev : prev = Walk(h)[i - 1] /\ prev \in F
      BY <1>2, <1>7
<1>10. n <= h.size[h.nextf[prev]]
       <2>1. PICK k : k = h.size[h.nextf[prev]]
             OBVIOUS
       <2>2. k >= n
             BY <1>6, <1>8, <1>9, <2>1
       <2>3. k \in Nat
             <3>1. h.nextf[prev] \in 0 .. Top
                   BY <1>2, <1>7, <1>8, <1>9, <1>1, Addresses
             <3>2. k \in 0 .. Top
                   BY <2>1, <3>1 DEF Sound, Laid, Sizes
             <3> QED BY <1>3, <3>2
       <2> QED BY <2>1, <2>2, <2>3
<1>11. Found(h, n) = Cut(h, prev, n)
       BY <1>5, <1>9 DEF Found
<1> QED BY <1>9, <1>10, <1>11, CutSound DEF Took

\* m units from a on were mapped, and are a block in use until they are freed.
MapsIn(h2, h, a, m, M) ==
    /\ m \in Nat /\ 1 <= m /\ a \in Units /\ a + m - 1 <= Top /\ (a .. a + m - 1) \cap M = {}
    /\ h2 = [h EXCEPT !.size[a] = m]

\* They are one more block in use, and nothing else has changed.
MappedIn(h2, h, F, L, M, a, m) ==
    /\ Sound(h2, F, L \cup {a}, M \cup (a .. a + m - 1)) /\ h2.size[a] = m
    /\ a \notin L /\ \A c \in L : h2.size[c] = h.size[c]

\* heap_morecore makes its chunk look like a block to be freed.
LEMMA MapsInSound ==
    ASSUME NEW h, NEW F, NEW L, NEW M, Sound(h, F, L, M), NEW a, NEW m, NEW h2, MapsIn(h2, h, a, m, M)
    PROVE  MappedIn(h2, h, F, L, M, a, m)
<1>1. PICK sz, nx, fp, S, C : /\ sz = h.size /\ nx = h.nextf /\ fp = h.freep
                              /\ S = (F \ {Base}) \cup L /\ C = a .. a + m - 1
      OBVIOUS
<1>2. /\ sz \in Sizes /\ nx \in [0 .. Top -> 0 .. Top] /\ fp \in 0 .. Top
      /\ Ring(F, nx, fp) /\ sz[Base] = 0
      /\ Tiled(sz, S, M) /\ F \cap L = {} /\ \A x, y \in F : ~ Touch(sz, x, y)
      /\ h = [size |-> sz, nextf |-> nx, freep |-> fp]
      BY <1>1 DEF Sound, Laid, HeapType
<1>3. /\ m \in Nat /\ 1 <= m /\ Top \in Nat /\ a \in Nat /\ 1 <= a /\ a \in 0 .. Top /\ m \in 0 .. Top
      /\ a \in Units /\ a # Base /\ C \cap M = {} /\ C \subseteq Units /\ a \in C
      BY <1>1, HeapAssumption DEF MapsIn, Units, Base, HeapAssumption
<1>4. PICK sz2 : sz2 = [sz EXCEPT ![a] = m]
      OBVIOUS
<1>5. h2 = [size |-> sz2, nextf |-> nx, freep |-> fp]
      BY <1>2, <1>4 DEF MapsIn
<1>6. sz2 \in Sizes /\ sz2[a] = m /\ \A x \in 0 .. Top : x # a => sz2[x] = sz[x]
      <2>1. DOMAIN sz = 0 .. Top
            BY <1>2 DEF Sizes
      <2>2. sz2 \in [0 .. Top -> 0 .. Top]
            BY <1>2, <1>3, <1>4 DEF Sizes
      <2> QED BY <1>3, <1>4, <2>1, <2>2 DEF Sizes
<1>7. /\ \A x \in S : /\ x \in Nat /\ 1 <= x /\ x \in 0 .. Top
                      /\ sz[x] \in Nat /\ 1 <= sz[x] /\ x + sz[x] - 1 <= Top
      /\ \A u \in M : u \in Nat /\ 1 <= u /\ u <= Top
      BY <1>2, TileTypes
\* No block starts in the chunk or reaches into it.
<1>8. ASSUME NEW x \in S PROVE x # a /\ sz2[x] = sz[x] /\ (x < a => x + sz[x] <= a) /\ (a < x => a + m <= x)
      <2>1. \A u \in x .. x + sz[x] - 1 : u \in M
            BY <1>2 DEF Tiled
      <2>2. \A u \in x .. x + sz[x] - 1 : ~ (a <= u /\ u <= a + m - 1)
            BY <1>1, <1>3, <1>7, <2>1
      <2>3. /\ x \in Nat /\ sz[x] \in Nat /\ 1 <= sz[x] /\ x \in 0 .. Top
            BY <1>7
      <2>4. ~ (a <= x /\ x <= a + m - 1)
            BY <2>2, <2>3
      <2>5. x # a /\ (a < x => a + m <= x)
            BY <1>3, <2>3, <2>4
      <2>6. x < a => x + sz[x] <= a
            <3> SUFFICES ASSUME x < a, ~ (x + sz[x] <= a) PROVE FALSE
                OBVIOUS
            <3>1. a \in x .. x + sz[x] - 1
                  BY <1>3, <2>3
            <3> QED BY <1>3, <2>2, <3>1
      <2> QED BY <1>6, <2>3, <2>5, <2>6
<1>9. Tiled(sz2, S \cup {a}, M \cup C)
      <2>1. S \cup {a} \subseteq Units /\ M \cup C \subseteq Units
            BY <1>2, <1>3 DEF Tiled
      <2>2. ASSUME NEW x \in S \cup {a}
            PROVE  1 <= sz2[x] /\ \A u \in x .. x + sz2[x] - 1 : u \in M \cup C
            <3>1. CASE x = a
                  BY <1>1, <1>3, <1>6, <3>1
            <3>2. CASE x # a
                  <4>1. x \in S /\ sz2[x] = sz[x]
                        BY <1>8, <3>2
                  <4>2. 1 <= sz[x] /\ \A u \in x .. x + sz[x] - 1 : u \in M
                        BY <1>2, <4>1 DEF Tiled
                  <4> QED BY <4>1, <4>2
            <3> QED BY <3>1, <3>2
      <2>3. ASSUME NEW x \in S \cup {a}, NEW y \in S \cup {a}, x < y PROVE x + sz2[x] <= y
            <3>1. CASE x = a
                  <4>1. y \in S
                        BY <1>3, <2>3, <3>1
                  <4> QED BY <1>6, <1>8, <2>3, <3>1, <4>1
            <3>2. CASE x \in S /\ y = a
                  BY <1>8, <2>3, <3>2
            <3>3. CASE x \in S /\ y \in S
                  <4>1. x + sz[x] <= y
                        BY <1>2, <2>3, <3>3 DEF Tiled
                  <4> QED BY <1>8, <3>3, <4>1
            <3> QED BY <3>1, <3>2, <3>3
      <2>4. ASSUME NEW u \in M \cup C PROVE \E x \in S \cup {a} : x <= u /\ u < x + sz2[x]
            <3>1. CASE u \in M
                  <4>1. PICK x \in S : x <= u /\ u < x + sz[x]
                        BY <1>2, <3>1 DEF Tiled
                  <4> QED BY <1>8, <4>1
            <3>2. CASE u \in C
                  <4>1. a <= u /\ u < a + m
                        BY <1>1, <1>3, <3>2
                  <4> QED BY <1>6, <4>1
            <3> QED BY <3>1, <3>2
      <2> QED BY <2>1, <2>2, <2>3, <2>4 DEF Tiled
<1>10. a \notin L /\ a \notin F /\ sz2[Base] = 0
       <2>1. a \notin S
             BY <1>8
       <2>2. Base \in 0 .. Top
             BY <1>2, Addresses DEF Base
       <2> QED BY <1>1, <1>2, <1>3, <1>6, <2>1, <2>2
<1>11. (F \ {Base}) \cup (L \cup {a}) = S \cup {a} /\ F \cap (L \cup {a}) = {}
       BY <1>1, <1>2, <1>10
<1>12. Laid(sz2, nx, fp, F, L \cup {a}, M \cup C)
       BY <1>2, <1>6, <1>9, <1>10, <1>11 DEF Laid
<1>13. ASSUME NEW x \in F, NEW y \in F, Touch(sz2, x, y) PROVE FALSE
       <2>1. x \in S
             BY <1>1, <1>13 DEF Touch
       <2>2. Touch(sz, x, y)
             BY <1>8, <1>13, <2>1 DEF Touch
       <2> QED BY <1>2, <2>2
<1>14. h2.size = sz2 /\ h2.nextf = nx /\ h2.freep = fp /\ h2 \in HeapType
       BY <1>2, <1>5, <1>6 DEF HeapType
<1>15. Sound(h2, F, L \cup {a}, M \cup C)
       BY <1>12, <1>13, <1>14 DEF Sound
<1>16. \A c \in L : sz2[c] = sz[c]
       BY <1>1, <1>8
<1> QED BY <1>1, <1>6, <1>10, <1>14, <1>15, <1>16 DEF MappedIn

\* The chunk asked of mmap, somewhere in unmapped memory.
Chunk(units, nunits) ==
    \E a \in Units : LET m == IF nunits < MinChunk THEN MinChunk ELSE nunits IN
        units = a .. a + m - 1 /\ a + m - 1 <= Top /\ units \cap mapped = {}

\* What heap_alloc comes back with: nothing, a block found, or one from a chunk
\* that was only asked for because nothing was found.
Had(o, h, F, L, nunits) ==
    \/ /\ o.found.block = Null /\ o.found.heap = h /\ o.units = {}
       /\ \A x \in F : ~ (h.size[x] >= nunits)
    \/ /\ o.found.block # Null /\ Took(o.found, h, L, mapped \cup o.units, nunits)
       /\ o.units = {} \/ (Chunk(o.units, nunits) /\ \A x \in F : ~ (h.size[x] >= nunits))

LEMMA OutcomesHad ==
    ASSUME NEW h, NEW F, NEW L, Sound(h, F, L, mapped), NEW n \in Nat, 1 <= n, NEW o \in Outcomes(h, n)
    PROVE  Had(o, h, F, L, n)
<1>1. Null \notin Units
      BY HeapAssumption DEF HeapAssumption, Null, Units
<1>2. CASE Fits(h, n) # {}
      <2>1. o = [found |-> Found(h, n), units |-> {}]
            BY <1>2 DEF Outcomes
      <2>2. Took(Found(h, n), h, L, mapped, n)
            BY <1>2, FoundSound
      <2>3. Found(h, n).block # Null
            BY <1>1, <2>2 DEF Took
      <2>4. o.found = Found(h, n) /\ o.units = {} /\ mapped \cup {} = mapped
            BY <2>1
      <2> QED BY <2>2, <2>3, <2>4 DEF Had
<1>3. CASE Fits(h, n) = {}
      <2>1. \A x \in F : ~ (h.size[x] >= n)
            BY <1>3, FitsOrNot
      <2>2. \/ o = [found |-> [block |-> Null, heap |-> h], units |-> {}]
            \/ \E f \in Fresh(h, n) : o = [found |-> Found(f.heap, n), units |-> f.units]
            BY <1>3 DEF Outcomes
      <2>3. CASE o = [found |-> [block |-> Null, heap |-> h], units |-> {}]
            BY <2>1, <2>3 DEF Had
      <2>4. ASSUME NEW f \in Fresh(h, n), o = [found |-> Found(f.heap, n), units |-> f.units]
            PROVE  Had(o, h, F, L, n)
            <3>1. PICK m : m = IF n < MinChunk THEN MinChunk ELSE n
                  OBVIOUS
            <3>2. PICK a \in Units : /\ a + m - 1 <= Top /\ (a .. a + m - 1) \cap mapped = {}
                                     /\ f = [units |-> a .. a + m - 1,
                                             heap |-> Freed([h EXCEPT !.size[a] = m], a)]
                  BY <3>1 DEF Fresh
            <3>3. m \in Nat /\ 1 <= m /\ n <= m
                  BY <3>1, HeapAssumption DEF HeapAssumption
            <3>4. PICK h2 : h2 = [h EXCEPT !.size[a] = m]
                  OBVIOUS
            <3>5. MapsIn(h2, h, a, m, mapped)
                  BY <3>2, <3>3, <3>4 DEF MapsIn
            <3>6. PICK M2 : M2 = mapped \cup (a .. a + m - 1)
                  OBVIOUS
            <3>7. /\ Sound(h2, F, L \cup {a}, M2) /\ h2.size[a] = m
                  /\ a \notin L /\ \A c \in L : h2.size[c] = h.size[c]
                  <4>1. MappedIn(h2, h, F, L, mapped, a, m)
                        BY <3>5, MapsInSound
                  <4> QED BY <3>6, <4>1 DEF MappedIn
            <3>8. PICK d : d = Freed(h2, a)
                  OBVIOUS
            <3>9. Gave(d, h2, L \cup {a}, M2, a)
                  BY <3>7, <3>8, FreedSound
            <3>10. (L \cup {a}) \ {a} = L
                  BY <3>7
            <3>11. PICK G : Sound(d, G, L, M2) /\ \E x \in G : d.size[x] >= m
                  BY <3>7, <3>9, <3>10 DEF Gave
            <3>12. \A c \in L : d.size[c] = h.size[c]
                  BY <3>7, <3>9, <3>10 DEF Gave
            <3>13. Fits(d, n) # {}
                  <4>1. PICK x \in G : d.size[x] >= m
                        BY <3>11
                  <4>2. d.size[x] \in Nat
                        <5>1. d.size \in Sizes /\ G \subseteq 0 .. Top
                              BY <3>11 DEF Sound, Laid, Ring
                        <5> QED BY <5>1, HeapAssumption DEF Sizes, HeapAssumption
                  <4>3. d.size[x] >= n
                        BY <3>3, <4>1, <4>2
                  <4> QED BY <3>11, <4>3, FitsOrNot
            <3>14. Took(Found(d, n), d, L, M2, n)
                  BY <3>11, <3>13, FoundSound
            <3>15. Took(Found(d, n), h, L, M2, n)
                  BY <3>12, <3>14 DEF Took
            <3>16. o.found = Found(d, n) /\ o.units = a .. a + m - 1 /\ mapped \cup o.units = M2
                  BY <2>4, <3>2, <3>4, <3>6, <3>8
            <3>17. o.found.block # Null
                  BY <1>1, <3>15, <3>16 DEF Took
            <3>18. Chunk(o.units, n)
                  BY <3>1, <3>2, <3>16 DEF Chunk
            <3> QED BY <2>1, <3>15, <3>16, <3>17, <3>18 DEF Had
      <2> QED BY <2>2, <2>3, <2>4
<1> QED BY <1>2, <1>3
-------------------------------------------------------------------------------
(* The inductive invariant *)

Starts == {b.at : b \in live}

\* Each block in use is known by its address and has the size it was given.
InUse == /\ live \subseteq [at : Units, bytes : Requests]
         /\ \A b, c \in live : b.at = c.at => b = c
         /\ \A b \in live : size[b.at] = NUnits(b.bytes)

HeapInv == /\ size \in Sizes /\ nextf \in [0 .. Top -> 0 .. Top]
           /\ heap_freep \in (0 .. Top) \cup {Null}
           /\ heap_freep = Null => live = {} /\ mapped = {}
           /\ InUse
           /\ \E F : Sound(Linked(Heap), F, Starts, mapped)

\* A block is at least a header.
LEMMA NUnitsPositive ==
    ASSUME NEW nbytes \in Requests
    PROVE  NUnits(nbytes) \in Nat /\ 1 <= NUnits(nbytes)
<1>1. nbytes + HeaderBytes - 1 \in Nat /\ HeaderBytes \in Nat /\ HeaderBytes > 0
      BY HeapAssumption DEF HeapAssumption
<1>2. \A x, y \in Nat : y > 0 => x \div y \in Nat
      OBVIOUS
<1> QED BY <1>1, <1>2 DEF NUnits

LEMMA InvInit == Init => HeapInv
<1> SUFFICES ASSUME Init PROVE HeapInv
    OBVIOUS
<1>1. Top \in Nat /\ 0 \in 0 .. Top /\ Null \notin 0 .. Top
      BY HeapAssumption DEF HeapAssumption, Null
<1>2. size \in Sizes /\ nextf \in [0 .. Top -> 0 .. Top]
      BY <1>1 DEF Init, Sizes, Base
<1>3. PICK h : h = Linked(Heap)
      OBVIOUS
<1>4. h.size = size /\ h.nextf = nextf /\ h.freep = Base /\ h \in HeapType
      BY <1>1, <1>2, <1>3 DEF Init, Linked, Heap, HeapType, Sizes, Base
<1>5. Ring({Base}, nextf, Base)
      BY <1>1 DEF Init, Ring, Follows, Base
<1>6. Tiled(size, ({Base} \ {Base}) \cup {}, {})
      BY DEF Tiled
<1>7. Sound(h, {Base}, {}, {})
      BY <1>1, <1>2, <1>4, <1>5, <1>6 DEF Sound, Laid, Touch, Init, Base
<1> QED BY <1>2, <1>3, <1>7 DEF HeapInv, InUse, Starts, Init

\* What the call leaves is the heap afterwards.
LEMMA SetHeap ==
    ASSUME NEW h, h \in HeapType, Set(h)
    PROVE  Heap' = h
BY DEF Set, Heap, HeapType

\* The invariant from what the call left behind.
LEMMA InvAfter ==
    ASSUME NEW h, NEW F, NEW L, NEW M, Sound(h, F, L, M), Set(h), mapped' = M, Starts' = L, InUse'
    PROVE  HeapInv'
<1>1. Heap' = h
      BY SetHeap DEF Sound
<1>2. Sound(Heap', F, Starts', mapped')
      BY <1>1
<1>3. Linked(Heap)' = Heap' /\ heap_freep' # Null
      <2>1. heap_freep' \in 0 .. Top
            BY DEF Sound, HeapType, Set
      <2> QED BY <2>1, HeapAssumption DEF HeapAssumption, Null, Linked, Heap
<1>4. size' \in Sizes /\ nextf' \in [0 .. Top -> 0 .. Top] /\ heap_freep' \in 0 .. Top
      BY DEF Sound, HeapType, Set
<1> QED BY <1>2, <1>3, <1>4 DEF HeapInv

LEMMA InvAlloc ==
    ASSUME HeapInv, NEW nbytes \in Requests, Alloc(nbytes)
    PROVE  HeapInv' /\ \A b \in live : b \in live' /\ size'[b.at] = size[b.at]
<1>1. PICK h, n : h = Linked(Heap) /\ n = NUnits(nbytes) /\ n \in Nat /\ 1 <= n
      BY NUnitsPositive
<1>2. PICK F : Sound(h, F, Starts, mapped)
      BY <1>1 DEF HeapInv
<1>3. PICK o \in Outcomes(h, n) :
            /\ Set(o.found.heap) /\ mapped' = mapped \cup o.units
            /\ live' = IF o.found.block = Null THEN live
                       ELSE live \cup {[at |-> o.found.block, bytes |-> nbytes]}
      BY <1>1 DEF Alloc
<1>4. Had(o, h, F, Starts, n)
      BY <1>1, <1>2, OutcomesHad
<1>5. \A b \in live : h.size[b.at] = size[b.at]
      <2>1. CASE heap_freep = Null
            BY <2>1 DEF HeapInv
      <2>2. CASE heap_freep # Null
            BY <1>1, <2>2 DEF Linked, Heap
      <2> QED BY <2>1, <2>2
<1>6. CASE o.found.block = Null
      <2>1. o.found.heap = h /\ mapped' = mapped /\ live' = live
            BY <1>3, <1>4, <1>6 DEF Had, Took
      <2>2. size' = h.size
            BY <1>3, <2>1 DEF Set
      <2>3. InUse'
            BY <1>5, <2>1, <2>2 DEF HeapInv, InUse
      <2>4. Starts' = Starts
            BY <2>1 DEF Starts
      <2>5. HeapInv'
            BY <1>2, <1>3, <2>1, <2>3, <2>4, InvAfter
      <2> QED BY <1>5, <2>1, <2>2, <2>5
<1>7. CASE o.found.block # Null
      <2>1. PICK g, blk, M2 : g = o.found.heap /\ blk = o.found.block /\ M2 = mapped \cup o.units
            OBVIOUS
      <2>2. /\ blk \in Units /\ blk \notin Starts /\ g.size[blk] = n
            /\ \A a \in Starts : g.size[a] = h.size[a]
            BY <1>4, <1>7, <2>1 DEF Had, Took
      <2>3. PICK G : Sound(g, G, Starts \cup {blk}, M2)
            BY <1>4, <1>7, <2>1 DEF Had, Took
      <2>4. PICK new : new = [at |-> blk, bytes |-> nbytes]
            OBVIOUS
      <2>5. live' = live \cup {new} /\ size' = g.size /\ mapped' = M2
            BY <1>3, <1>7, <2>1, <2>4 DEF Set
      <2>6. new.at = blk /\ new.bytes = nbytes /\ new \in [at : Units, bytes : Requests]
            BY <2>2, <2>4
      <2>7. Starts' = Starts \cup {blk}
            BY <2>5, <2>6 DEF Starts
      <2>8. \A b \in live : b.at \in Starts /\ size'[b.at] = size[b.at] /\ b.at # blk
            BY <1>5, <2>2, <2>5 DEF Starts
      <2>9. InUse'
            BY <1>1, <2>2, <2>5, <2>6, <2>8 DEF HeapInv, InUse
      <2>10. HeapInv'
            BY <1>3, <2>1, <2>3, <2>5, <2>7, <2>9, InvAfter
      <2> QED BY <2>5, <2>8, <2>10
<1> QED BY <1>6, <1>7

LEMMA InvFree ==
    ASSUME HeapInv, NEW b \in live, Free(b)
    PROVE  HeapInv' /\ live' \subseteq live /\ \A c \in live' : size'[c.at] = size[c.at]
<1>1. heap_freep # Null /\ Linked(Heap) = Heap
      BY DEF HeapInv, Linked, Heap
<1>2. PICK F : Sound(Heap, F, Starts, mapped)
      BY <1>1 DEF HeapInv
<1>3. PICK d, at : d = Freed(Heap, at) /\ at = b.at /\ at \in Starts
      BY DEF Starts
<1>4. Gave(d, Heap, Starts, mapped, at)
      BY <1>2, <1>3, FreedSound
<1>5. PICK G : Sound(d, G, Starts \ {at}, mapped)
      BY <1>4 DEF Gave
<1>6. \A a \in Starts \ {at} : d.size[a] = size[a]
      BY <1>4 DEF Gave, Heap
<1>7. Set(d) /\ live' = live \ {b} /\ mapped' = mapped /\ size' = d.size
      BY <1>3 DEF Free, Set
<1>8. \A c \in live' : c \in live /\ c.at \in Starts \ {at} /\ size'[c.at] = size[c.at]
      BY <1>3, <1>6, <1>7 DEF HeapInv, InUse, Starts
<1>9. Starts' = Starts \ {at}
      BY <1>3, <1>7, <1>8 DEF HeapInv, InUse, Starts
<1>10. InUse'
      BY <1>7, <1>8 DEF HeapInv, InUse
<1>11. HeapInv'
      BY <1>5, <1>7, <1>9, <1>10, InvAfter
<1> QED BY <1>8, <1>11

LEMMA InvRealloc ==
    ASSUME HeapInv, NEW b \in live, NEW nbytes \in Requests, Realloc(b, nbytes)
    PROVE  HeapInv' /\ \A c \in live' : c \in live => size'[c.at] = size[c.at]
<1>1. PICK n : n = NUnits(nbytes) /\ n \in Nat /\ 1 <= n
      BY NUnitsPositive
<1>2. heap_freep # Null /\ Linked(Heap) = Heap
      BY DEF HeapInv, Linked, Heap
<1>3. PICK F : Sound(Heap, F, Starts, mapped)
      BY <1>2 DEF HeapInv
<1>4. PICK o \in Outcomes(Heap, n) :
            /\ mapped' = mapped \cup o.units
            /\ \/ o.found.block = Null /\ Set(o.found.heap) /\ UNCHANGED live
               \/ /\ o.found.block # Null
                  /\ Set(Freed(o.found.heap, b.at))
                  /\ live' = (live \ {b}) \cup {[at |-> o.found.block, bytes |-> nbytes]}
      BY <1>1 DEF Realloc
<1>5. Had(o, Heap, F, Starts, n)
      BY <1>1, <1>3, <1>4, OutcomesHad
<1>6. CASE o.found.block = Null
      <2>1. o.found.heap = Heap /\ mapped' = mapped /\ live' = live /\ Set(Heap)
            BY <1>4, <1>5, <1>6 DEF Had, Took
      <2>2. size' = size
            BY <2>1 DEF Set, Heap
      <2>3. InUse' /\ Starts' = Starts
            BY <2>1, <2>2 DEF HeapInv, InUse, Starts
      <2>4. HeapInv'
            BY <1>3, <2>1, <2>3, InvAfter
      <2> QED BY <2>1, <2>2, <2>4
<1>7. CASE o.found.block # Null
      <2>1. PICK g, blk, M2, at : /\ g = o.found.heap /\ blk = o.found.block
                                  /\ M2 = mapped \cup o.units /\ at = b.at /\ at \in Starts
            BY DEF Starts
      <2>2. /\ blk \in Units /\ blk \notin Starts /\ g.size[blk] = n
            /\ \A a \in Starts : g.size[a] = size[a]
            BY <1>5, <1>7, <2>1 DEF Had, Took, Heap
      <2>3. PICK G : Sound(g, G, Starts \cup {blk}, M2)
            BY <1>5, <1>7, <2>1 DEF Had, Took
      <2>4. PICK d, L : d = Freed(g, at) /\ L = Starts \cup {blk} /\ at \in L /\ at # blk
            BY <2>1, <2>2
      <2>5. Gave(d, g, L, M2, at)
            BY <2>3, <2>4, FreedSound
      <2>6. PICK E : Sound(d, E, L \ {at}, M2)
            BY <2>5 DEF Gave
      <2>7. \A a \in L \ {at} : d.size[a] = g.size[a]
            BY <2>5 DEF Gave
      <2>8. PICK new : new = [at |-> blk, bytes |-> nbytes]
            OBVIOUS
      <2>9. Set(d) /\ live' = (live \ {b}) \cup {new} /\ size' = d.size /\ mapped' = M2
            BY <1>4, <1>7, <2>1, <2>4, <2>8 DEF Set
      <2>10. new.at = blk /\ new.bytes = nbytes /\ new \in [at : Units, bytes : Requests]
            BY <2>2, <2>8
      <2>11. ASSUME NEW c \in live, c # b
             PROVE  c.at \in L \ {at} /\ c.at # blk /\ size'[c.at] = size[c.at]
             BY <2>1, <2>2, <2>4, <2>7, <2>9, <2>11 DEF HeapInv, InUse, Starts
      <2>12. Starts' = L \ {at}
             BY <2>1, <2>4, <2>9, <2>10, <2>11 DEF Starts
      <2>13. size'[blk] = n
             BY <2>2, <2>4, <2>7, <2>9
      <2>14. InUse'
             BY <1>1, <2>9, <2>10, <2>11, <2>13 DEF HeapInv, InUse
      <2>15. HeapInv'
             BY <2>6, <2>9, <2>12, <2>14, InvAfter
      <2>16. \A c \in live' : c \in live => size'[c.at] = size[c.at]
             <3>1. new \notin live
                   BY <2>2, <2>10 DEF Starts
             <3> QED BY <2>9, <2>11, <3>1
      <2> QED BY <2>15, <2>16
<1> QED BY <1>6, <1>7

\* The invariant holds always.
THEOREM Invariance == Spec => []HeapInv
<1>1. HeapInv /\ [Next]_vars => HeapInv'
      <2> SUFFICES ASSUME HeapInv, [Next]_vars PROVE HeapInv'
          OBVIOUS
      <2>1. CASE \E nbytes \in Requests : Alloc(nbytes)
            BY <2>1, InvAlloc
      <2>2. CASE \E b \in live : Free(b)
            BY <2>2, InvFree
      <2>3. CASE \E b \in live, nbytes \in Requests : Realloc(b, nbytes)
            BY <2>3, InvRealloc
      <2>4. CASE UNCHANGED vars
            BY <2>4 DEF vars, HeapInv, InUse, Starts, Linked, Heap
      <2> QED BY <2>1, <2>2, <2>3, <2>4 DEF Next
<1> QED BY <1>1, InvInit, PTL DEF Spec

\* A block in use keeps its header and its size, whatever happens around it:
\* neither a split, nor a join, nor a search writes to it (Heap!LiveUntouched).
THEOREM BlocksUntouched == Spec => LiveUntouched
<1>1. HeapInv /\ HeapInv' /\ [Next]_vars =>
        [\A b \in live' : /\ size'[b.at] >= NUnits(b.bytes)
                          /\ b \in live => size'[b.at] = size[b.at]]_vars
      <2> SUFFICES ASSUME HeapInv, HeapInv', Next
                   PROVE  \A b \in live' : /\ size'[b.at] >= NUnits(b.bytes)
                                           /\ b \in live => size'[b.at] = size[b.at]
          OBVIOUS
      <2>1. ASSUME NEW b \in live' PROVE size'[b.at] >= NUnits(b.bytes)
            <3>1. size'[b.at] = NUnits(b.bytes) /\ b.bytes \in Requests
                  BY DEF HeapInv, InUse
            <3>2. NUnits(b.bytes) \in Nat
                  BY <3>1, NUnitsPositive
            <3> QED BY <3>1, <3>2
      <2>2. \A b \in live' : b \in live => size'[b.at] = size[b.at]
            <3>1. CASE \E nbytes \in Requests : Alloc(nbytes)
                  BY <3>1, InvAlloc
            <3>2. CASE \E b \in live : Free(b)
                  BY <3>2, InvFree
            <3>3. CASE \E b \in live, nbytes \in Requests : Realloc(b, nbytes)
                  BY <3>3, InvRealloc
            <3> QED BY <3>1, <3>2, <3>3 DEF Next
      <2> QED BY <2>1, <2>2
<1> QED BY <1>1, Invariance, PTL DEF Spec, LiveUntouched
-------------------------------------------------------------------------------
(* What the invariant says of the heap: Heap!FreeListSound *)

\* The free list is the ring the invariant speaks of.
LEMMA FreeIsRing ==
    ASSUME HeapInv, heap_freep # Null
    PROVE  Sound(Heap, Free_, Starts, mapped)
<1>1. Linked(Heap) = Heap
      BY DEF Linked, Heap
<1>2. PICK F : Sound(Heap, F, Starts, mapped)
      BY <1>1 DEF HeapInv
<1>3. Linkable(Heap) /\ Ring(F, Heap.nextf, Heap.freep)
      BY <1>2, SoundLinks
<1>4. /\ Tour(Heap) \subseteq 1 .. Top + 1
      /\ \A i \in 0 .. Top + 2 : Walk(Heap)[i] \in F
      /\ \A x \in F : \E i \in Tour(Heap) : Walk(Heap)[i] = x
      BY <1>3, WalkGoesRound
<1>5. \A i \in Tour(Heap) : Walk(Heap)[i] \in F
      <2>1. \A i \in 1 .. Top + 1 : i \in 0 .. Top + 2
            BY HeapAssumption DEF HeapAssumption
      <2> QED BY <1>4, <2>1
<1>6. Free_ = F
      BY <1>4, <1>5 DEF Free_
<1> QED BY <1>2, <1>6

LEMMA InvRingSorted == HeapInv => RingSorted
<1> SUFFICES ASSUME HeapInv, heap_freep # Null PROVE
        /\ Base \in Free_
        /\ \A p \in Free_ : nextf[p] = LET above == {q \in Free_ : q > p}
                                       IN  IF above = {} THEN Base ELSE Least(above)
    BY DEF RingSorted
<1>1. Ring(Free_, nextf, heap_freep)
      BY FreeIsRing DEF Sound, Laid, Heap
<1>2. \A x \in Free_ : x \in Nat
      BY <1>1, Addresses
<1>3. ASSUME NEW p \in Free_, NEW above, above = {q \in Free_ : q > p}
      PROVE  nextf[p] = IF above = {} THEN Base ELSE Least(above)
      <2>1. PICK q : q = nextf[p]
            OBVIOUS
      <2>2. Follows(Free_, p, q)
            BY <1>1, <2>1 DEF Ring
      <2>3. CASE above = {}
            <3>1. ~ (q \in Free_ /\ p < q)
                  BY <1>2, <1>3, <2>3
            <3> QED BY <2>1, <2>2, <2>3, <3>1 DEF Follows
      <2>4. CASE above # {}
            <3>1. PICK l : l = Least(above)
                  OBVIOUS
            <3>2. l \in above /\ \A j \in above : l <= j
                  BY <1>2, <1>3, <2>4, <3>1, LeastIs
            <3>3. l \in Free_ /\ l > p /\ l \in Nat /\ p \in Nat
                  BY <1>2, <1>3, <3>2
            <3>4. q \in Free_ /\ p < q /\ q <= l
                  <4>1. ~ (l <= p)
                        BY <3>3
                  <4> QED BY <2>2, <3>3, <4>1 DEF Follows
            <3>5. l <= q /\ q \in Nat
                  BY <1>2, <1>3, <3>2, <3>3, <3>4
            <3> QED BY <2>1, <2>4, <3>1, <3>3, <3>4, <3>5
      <2> QED BY <2>3, <2>4
<1> QED BY <1>1, <1>3 DEF Ring

\* The free list stays one ring through heap_base in address order, and free
\* neighbours are always joined: heap_free finds the one place a block belongs
\* to (Heap!FreeListSound).
THEOREM FreeListAlwaysSound == Spec => []FreeListSound
<1>1. HeapInv => Coalesced
      <2> SUFFICES ASSUME HeapInv, heap_freep # Null PROVE Coalesced
          BY DEF Coalesced, Free_
      <2>1. \A x, y \in Free_ : ~ Touch(size, x, y)
            BY FreeIsRing DEF Sound, Heap
      <2> QED BY <2>1 DEF Coalesced, Touch
<1>2. HeapInv => FreeListSound
      BY <1>1, InvRingSorted DEF FreeListSound
<1> QED BY <1>2, Invariance, PTL
-------------------------------------------------------------------------------
(* What the invariant says of the memory: Heap!Partition *)

\* The blocks, free or in use, fill the mapped memory.
LEMMA BlocksTile ==
    ASSUME HeapInv
    PROVE  Tiled(size, (Free_ \ {Base}) \cup Starts, mapped) /\ Free_ \cap Starts = {} /\ size \in Sizes
<1>1. CASE heap_freep = Null
      <2>1. Free_ = {} /\ Starts = {} /\ mapped = {}
            BY <1>1 DEF HeapInv, Free_, Starts
      <2>2. Tiled(size, {}, {})
            BY DEF Tiled
      <2> QED BY <2>1, <2>2 DEF HeapInv
<1>2. CASE heap_freep # Null
      BY <1>2, FreeIsRing DEF Sound, Laid, Heap
<1> QED BY <1>1, <1>2

\* Each block in use is counted once by its address.
LEMMA StartsCount ==
    ASSUME InUse
    PROVE  IsFiniteSet(Starts) /\ Cardinality(Starts) = Cardinality(live)
<1>1. Top \in Nat
      BY HeapAssumption DEF HeapAssumption
<1>2. IsFiniteSet(Units)
      BY <1>1, FS_Interval DEF Units
<1>3. Starts \in SUBSET Units
      BY DEF InUse, Starts
<1>4. IsFiniteSet(Starts)
      BY <1>2, <1>3, FS_Subset
<1>5. PICK f : f = [b \in live |-> b.at]
      OBVIOUS
<1>6. f \in [live -> Starts]
      BY <1>5 DEF Starts
<1>7. f \in Injection(live, Starts)
      <2>1. ASSUME NEW b \in live, NEW c \in live, f[b] = f[c] PROVE b = c
            BY <1>5, <2>1 DEF InUse
      <2> QED BY <1>6, <2>1 DEF Injection, IsInjective
<1>8. f \in Surjection(live, Starts)
      BY <1>5, <1>6 DEF Starts, Surjection
<1> QED BY <1>4, <1>7, <1>8, FS_Injection

LEMMA InvPartition == HeapInv => Partition
<1> SUFFICES ASSUME HeapInv PROVE Partition
    OBVIOUS
<1>1. PICK S, T : S = T \cup Starts /\ T = Free_ \ {Base}
      OBVIOUS
<1>2. Tiled(size, S, mapped) /\ T \cap Starts = {} /\ size \in Sizes
      BY <1>1, BlocksTile
<1>3. /\ Top \in Nat
      /\ \A a \in S : a \in Nat /\ size[a] \in Nat /\ 1 <= size[a]
      /\ \A u \in mapped : u \in Nat
      BY <1>2, TileTypes
<1>4. TypeOK
      BY <1>2 DEF HeapInv, InUse, TypeOK, Tiled, Sizes
<1>5. ASSUME NEW a \in S PROVE size[a] > 0 /\ Extent(a) \subseteq mapped
      BY <1>2, <1>3 DEF Tiled, Extent
<1>6. ASSUME NEW u \in mapped PROVE Cardinality({a \in S : u \in Extent(a)}) = 1
      <2>1. PICK a \in S : a <= u /\ u < a + size[a]
            BY <1>2 DEF Tiled
      <2>2. u \in Nat /\ a \in Nat /\ size[a] \in Nat
            BY <1>3
      <2>3. u \in Extent(a)
            BY <2>1, <2>2 DEF Extent
      <2>4. ASSUME NEW c \in S, u \in Extent(c) PROVE c = a
            <3>1. c \in Nat /\ size[c] \in Nat /\ c <= u /\ u < c + size[c]
                  BY <1>3, <2>2, <2>4 DEF Extent
            <3>2. (c < a => c + size[c] <= a) /\ (a < c => a + size[a] <= c)
                  BY <1>2 DEF Tiled
            <3> QED BY <2>1, <2>2, <3>1, <3>2
      <2>5. {c \in S : u \in Extent(c)} = {a}
            BY <2>3, <2>4
      <2> QED BY <2>5, FS_Singleton
<1>7. Cardinality(S) = Cardinality(T) + Cardinality(live)
      <2>1. IsFiniteSet(Starts) /\ Cardinality(Starts) = Cardinality(live)
            BY StartsCount DEF HeapInv
      <2>2. IsFiniteSet(T)
            <3>1. T \in SUBSET Nat /\ \A x \in T : x <= Top
                  BY <1>1, <1>2, TileTypes
            <3> QED BY <1>3, <3>1, FS_BoundedSetOfNaturals
      <2>3. /\ Cardinality(S) = Cardinality(T) + Cardinality(Starts) - Cardinality(T \cap Starts)
            BY <1>1, <2>1, <2>2, FS_Union
      <2>4. Cardinality(T \cap Starts) = 0
            BY <1>2, FS_EmptySet
      <2>5. Cardinality(T) \in Nat /\ Cardinality(Starts) \in Nat
            BY <2>1, <2>2, FS_CardinalityType
      <2> QED BY <2>1, <2>3, <2>4, <2>5
<1> QED BY <1>1, <1>4, <1>5, <1>6, <1>7 DEF Partition, Starts

\* After any sequence of calls every unit ever mapped belongs to exactly one
\* block: nothing is lost, nothing is handed out twice (Heap!Partition).
THEOREM MemoryPartitioned == Spec => []Partition
BY Invariance, InvPartition, PTL
-------------------------------------------------------------------------------
(* The allocator keeps the promise of HeapSpec *)

\* The unit u is in one of the blocks L.
In(sz, L, u) == \E c \in L : c <= u /\ u < c + sz[c]

\* When no free block is large enough there is no room: a stretch of free units
\* that went on past the end of a free block would make it touch the next one.
LEMMA NoRoom ==
    ASSUME NEW h, NEW F, NEW L, NEW M, Sound(h, F, L, M), NEW n \in Nat, 1 <= n,
           \A x \in F : ~ (h.size[x] >= n),
           NEW a \in Nat, \A u \in a .. a + n - 1 : u \in M /\ ~ In(h.size, L, u)
    PROVE  FALSE
<1>1. PICK sz, S : sz = h.size /\ S = (F \ {Base}) \cup L
      OBVIOUS
<1>2. sz \in Sizes /\ Tiled(sz, S, M) /\ \A x, y \in F : ~ Touch(sz, x, y)
      BY <1>1 DEF Sound, Laid
<1>3. \A x \in S : x \in Nat /\ 1 <= x /\ sz[x] \in Nat /\ 1 <= sz[x]
      BY <1>2, TileTypes
<1>4. ASSUME NEW u \in a .. a + n - 1 PROVE \E x \in F \ {Base} : x <= u /\ u < x + sz[x]
      <2>1. PICK x \in S : x <= u /\ u < x + sz[x]
            BY <1>2 DEF Tiled
      <2>2. x \notin L
            BY <1>1, <2>1 DEF In
      <2> QED BY <1>1, <2>1, <2>2
<1>5. a \in a .. a + n - 1
      OBVIOUS
<1>6. PICK x \in F \ {Base} : x <= a /\ a < x + sz[x]
      BY <1>4, <1>5
<1>7. x \in S /\ x \in Nat /\ sz[x] \in Nat /\ sz[x] < n
      <2>1. x \in S /\ x \in Nat /\ sz[x] \in Nat
            BY <1>1, <1>3
      <2>2. ~ (sz[x] >= n)
            BY <1>1
      <2> QED BY <2>1, <2>2
<1>8. PICK u : u = x + sz[x]
      OBVIOUS
<1>9. u \in a .. a + n - 1 /\ u \in Nat
      BY <1>6, <1>7, <1>8
<1>10. PICK y \in F \ {Base} : y <= u /\ u < y + sz[y]
       BY <1>4, <1>9
<1>11. y \in S /\ y \in Nat /\ sz[y] \in Nat /\ y # x
       BY <1>1, <1>3, <1>7, <1>8, <1>10
<1>12. (x < y => x + sz[x] <= y) /\ (y < x => y + sz[y] <= x)
       BY <1>2, <1>7, <1>11 DEF Tiled
<1>13. y = u
       BY <1>7, <1>8, <1>9, <1>10, <1>11, <1>12
<1> QED BY <1>2, <1>8, <1>13 DEF Touch

\* What nobody has, in terms of the headers.
LEMMA UnownedIs ==
    ASSUME HeapInv
    PROVE  Abs!Unowned = {u \in mapped : ~ In(size, Starts, u)}
<1>1. ASSUME NEW u \in mapped
      PROVE  u \in UNION {Abs!Extent(b) : b \in Handed} <=> In(size, Starts, u)
      <2>1. u \in Nat
            BY BlocksTile, TileTypes
      <2>2. ASSUME NEW b \in live
            PROVE  /\ b.at \in Nat /\ size[b.at] = NUnits(b.bytes) /\ NUnits(b.bytes) \in Nat
                   /\ b.at \in Starts
            BY NUnitsPositive DEF HeapInv, InUse, Units, Starts
      <2>3. ASSUME NEW b \in live
            PROVE  u \in b.at .. b.at + NUnits(b.bytes) - 1 <=> b.at <= u /\ u < b.at + size[b.at]
            BY <2>1, <2>2
      <2>4. u \in UNION {Abs!Extent(b) : b \in Handed}
            <=> \E b \in live : u \in b.at .. b.at + NUnits(b.bytes) - 1
            <3>1. \A e \in Handed : \E b \in live : e.at = b.at /\ e.units = NUnits(b.bytes)
                  BY DEF Handed
            <3>2. \A b \in live : \E e \in Handed : e.at = b.at /\ e.units = NUnits(b.bytes)
                  <4> TAKE b \in live
                  <4>1. [at |-> b.at, units |-> NUnits(b.bytes)] \in Handed
                        BY DEF Handed
                  <4> QED BY <4>1
            <3>3. \A e \in Handed : Abs!Extent(e) = e.at .. e.at + e.units - 1
                  BY DEF Abs!Extent
            <3> QED BY <3>1, <3>2, <3>3
      <2> QED BY <2>3, <2>4 DEF In, Starts
<1> QED BY <1>1 DEF Abs!Unowned

\* A block the allocator comes back with is one the promise allows.
LEMMA HadPlace ==
    ASSUME HeapInv, NEW h, NEW F, Sound(h, F, Starts, mapped), \A b \in live : h.size[b.at] = size[b.at],
           NEW n \in Nat, 1 <= n, NEW o, Had(o, h, F, Starts, n), o.found.block # Null,
           mapped' = mapped \cup o.units
    PROVE  Abs!Place(n, o.found.block)
<1>1. PICK g, blk, M2, fresh : /\ g = o.found.heap /\ blk = o.found.block
                               /\ fresh = o.units /\ M2 = mapped \cup o.units
      OBVIOUS
<1>2. /\ blk \in Units /\ blk \notin Starts /\ g.size[blk] = n
      /\ \A a \in Starts : g.size[a] = size[a] /\ h.size[a] = size[a]
      /\ fresh = {} \/ (Chunk(fresh, n) /\ \A x \in F : ~ (h.size[x] >= n))
      BY <1>1 DEF Had, Took, Starts
<1>3. PICK G : Sound(g, G, Starts \cup {blk}, M2)
      BY <1>1 DEF Had, Took
<1>4. \A u : In(h.size, Starts, u) <=> In(size, Starts, u)
      BY <1>2 DEF In
<1>5. PICK free : free = Abs!Unowned /\ free = {u \in mapped : ~ In(size, Starts, u)}
      BY UnownedIs
<1>6. fresh # {} => Abs!Room(n) = {}
      <2> SUFFICES ASSUME fresh # {}, Abs!Room(n) # {} PROVE FALSE
          OBVIOUS
      <2>1. PICK a \in free : a .. a + n - 1 \subseteq free
            BY <1>5 DEF Abs!Room
      <2>2. a \in Nat
            BY <1>5, BlocksTile, TileTypes
      <2>3. \A u \in a .. a + n - 1 : u \in mapped /\ ~ In(h.size, Starts, u)
            BY <1>4, <1>5, <2>1
      <2> QED BY <1>2, <2>2, <2>3, NoRoom
<1>7. blk .. blk + n - 1 \subseteq free \cup fresh
      <2>1. PICK S : S = (G \ {Base}) \cup (Starts \cup {blk}) /\ Tiled(g.size, S, M2) /\ g.size \in Sizes
            BY <1>3 DEF Sound, Laid
      <2>2. /\ \A x \in S : x \in Nat /\ g.size[x] \in Nat
            /\ \A u \in blk .. blk + n - 1 : u \in M2 /\ u \in Nat /\ blk <= u /\ u < blk + n
            <3>1. \A x \in S : x \in Nat /\ g.size[x] \in Nat
                  BY <2>1, TileTypes
            <3>2. blk \in S /\ blk \in Nat
                  BY <2>1, <3>1
            <3>3. \A u \in blk .. blk + n - 1 : u \in M2
                  BY <1>2, <2>1, <3>2 DEF Tiled
            <3> QED BY <3>1, <3>2, <3>3
      <2>3. ASSUME NEW u \in blk .. blk + n - 1, In(size, Starts, u) PROVE FALSE
            <3>1. PICK c \in Starts : c <= u /\ u < c + g.size[c]
                  BY <1>2, <2>3 DEF In
            <3>2. c \in S /\ blk \in S /\ c # blk
                  BY <1>2, <2>1
            <3>3. (c < blk => c + g.size[c] <= blk) /\ (blk < c => blk + n <= c)
                  BY <1>2, <2>1, <3>2 DEF Tiled
            <3> QED BY <2>2, <3>1, <3>2, <3>3
      <2> QED BY <1>1, <1>5, <2>2, <2>3
<1>8. fresh \in Abs!Chunks(n) \cup {{}}
      <2>1. ASSUME Chunk(fresh, n) PROVE fresh \in Abs!Chunks(n)
            <3>1. PICK a \in Units : LET m == IF n < MinChunk THEN MinChunk ELSE n IN
                        fresh = a .. a + m - 1 /\ a + m - 1 <= Top /\ fresh \cap mapped = {}
                  BY <2>1 DEF Chunk
            <3>2. PICK m : m = (IF n < MinChunk THEN MinChunk ELSE n)
                  OBVIOUS
            <3>3. m \in Nat /\ Top \in Nat /\ a \in 1 .. Top
                  BY <3>2, HeapAssumption DEF HeapAssumption, Units
            <3>4. fresh = a .. a + m - 1 /\ a + m - 1 <= Top /\ fresh \cap mapped = {}
                  BY <3>1, <3>2
            <3>5. fresh \subseteq (1 .. Top) \ mapped
                  BY <3>3, <3>4
            <3> QED BY <3>2, <3>3, <3>4, <3>5 DEF Abs!Chunks
      <2> QED BY <1>2, <2>1
<1> QED BY <1>1, <1>5, <1>6, <1>7, <1>8 DEF Abs!Place

\* The abstract record of a block.
Record(b) == [at |-> b.at, units |-> NUnits(b.bytes)]

LEMMA PromiseAlloc ==
    ASSUME HeapInv, NEW nbytes \in Requests, Alloc(nbytes)
    PROVE  Abs!Alloc(NUnits(nbytes)) \/ UNCHANGED <<mapped, Handed>>
<1>1. PICK h, n : h = Linked(Heap) /\ n = NUnits(nbytes) /\ n \in Nat /\ 1 <= n
      BY NUnitsPositive
<1>2. PICK F : Sound(h, F, Starts, mapped)
      BY <1>1 DEF HeapInv
<1>3. PICK o \in Outcomes(h, n) :
            /\ Set(o.found.heap) /\ mapped' = mapped \cup o.units
            /\ live' = IF o.found.block = Null THEN live
                       ELSE live \cup {[at |-> o.found.block, bytes |-> nbytes]}
      BY <1>1 DEF Alloc
<1>4. Had(o, h, F, Starts, n)
      BY <1>1, <1>2, OutcomesHad
<1>5. \A b \in live : h.size[b.at] = size[b.at]
      <2>1. CASE heap_freep = Null
            BY <2>1 DEF HeapInv
      <2>2. CASE heap_freep # Null
            BY <1>1, <2>2 DEF Linked, Heap
      <2> QED BY <2>1, <2>2
<1>6. CASE o.found.block = Null
      <2>1. mapped' = mapped /\ live' = live
            BY <1>3, <1>4, <1>6 DEF Had, Took
      <2> QED BY <2>1 DEF Handed
<1>7. CASE o.found.block # Null
      <2>1. PICK blk : blk = o.found.block
            OBVIOUS
      <2>2. Abs!Place(n, blk) /\ blk \in 1 .. Top
            <3>1. Abs!Place(n, blk)
                  BY <1>1, <1>2, <1>3, <1>4, <1>5, <1>7, <2>1, HadPlace
            <3> QED BY <1>4, <1>7, <2>1, <3>1 DEF Had, Took, Units
      <2>3. PICK new : new = [at |-> blk, bytes |-> nbytes]
            OBVIOUS
      <2>4. live' = live \cup {new} /\ new.at = blk /\ new.bytes = nbytes
            BY <1>3, <1>7, <2>1, <2>3
      <2>5. Handed' = Handed \cup {[at |-> blk, units |-> n]}
            BY <1>1, <2>4 DEF Handed
      <2> QED BY <1>1, <2>2, <2>5 DEF Abs!Alloc
<1> QED BY <1>6, <1>7

\* Blocks of different addresses have different records.
LEMMA HandedWithout ==
    ASSUME InUse, NEW b \in live
    PROVE  {Record(c) : c \in live \ {b}} = Handed \ {Record(b)}
<1>1. ASSUME NEW c \in live, c # b PROVE Record(c) # Record(b)
      <2>1. c.at # b.at
            BY <1>1 DEF InUse
      <2>2. Record(c).at = c.at /\ Record(b).at = b.at
            BY DEF Record
      <2> QED BY <2>1, <2>2
<1>2. Handed = {Record(c) : c \in live}
      BY DEF Handed, Record
<1> QED BY <1>1, <1>2

LEMMA PromiseFree ==
    ASSUME HeapInv, NEW b \in live, Free(b)
    PROVE  Abs!Free(Record(b)) /\ Record(b) \in Handed
<1>1. live' = live \ {b} /\ mapped' = mapped
      BY DEF Free
<1>2. Handed' = {Record(c) : c \in live \ {b}}
      BY <1>1 DEF Handed, Record
<1>3. Handed' = Handed \ {Record(b)}
      BY <1>2, HandedWithout DEF HeapInv
<1>4. Record(b) \in Handed
      BY DEF Handed, Record
<1> QED BY <1>1, <1>3, <1>4 DEF Abs!Free

LEMMA PromiseRealloc ==
    ASSUME HeapInv, NEW b \in live, NEW nbytes \in Requests, Realloc(b, nbytes)
    PROVE  Abs!Realloc(Record(b), NUnits(nbytes)) \/ UNCHANGED <<mapped, Handed>>
<1>1. PICK n : n = NUnits(nbytes) /\ n \in Nat /\ 1 <= n
      BY NUnitsPositive
<1>2. heap_freep # Null /\ Linked(Heap) = Heap
      BY DEF HeapInv, Linked, Heap
<1>3. PICK F : Sound(Heap, F, Starts, mapped)
      BY <1>2 DEF HeapInv
<1>4. PICK o \in Outcomes(Heap, n) :
            /\ mapped' = mapped \cup o.units
            /\ \/ o.found.block = Null /\ UNCHANGED live
               \/ /\ o.found.block # Null
                  /\ live' = (live \ {b}) \cup {[at |-> o.found.block, bytes |-> nbytes]}
      BY <1>1 DEF Realloc
<1>5. Had(o, Heap, F, Starts, n)
      BY <1>1, <1>3, <1>4, OutcomesHad
<1>6. CASE o.found.block = Null
      <2>1. mapped' = mapped /\ live' = live
            BY <1>4, <1>5, <1>6 DEF Had, Took
      <2> QED BY <2>1 DEF Handed
<1>7. CASE o.found.block # Null
      <2>1. PICK blk : blk = o.found.block
            OBVIOUS
      <2>2. Abs!Place(n, blk) /\ blk \in 1 .. Top
            <3>1. \A c \in live : Heap.size[c.at] = size[c.at]
                  BY DEF Heap
            <3>2. Abs!Place(n, blk)
                  BY <1>1, <1>3, <1>4, <1>5, <1>7, <2>1, <3>1, HadPlace
            <3> QED BY <1>5, <1>7, <2>1, <3>2 DEF Had, Took, Units
      <2>3. PICK new : new = [at |-> blk, bytes |-> nbytes]
            OBVIOUS
      <2>4. live' = (live \ {b}) \cup {new} /\ Record(new) = [at |-> blk, units |-> n]
            BY <1>1, <1>4, <1>7, <2>1, <2>3 DEF Record
      <2>5. Handed' = {Record(c) : c \in live \ {b}} \cup {Record(new)}
            BY <2>4 DEF Handed, Record
      <2>6. Handed' = (Handed \ {Record(b)}) \cup {[at |-> blk, units |-> n]}
            BY <2>4, <2>5, HandedWithout DEF HeapInv
      <2> QED BY <1>1, <2>2, <2>6 DEF Abs!Realloc
<1> QED BY <1>6, <1>7

\* The allocator is the one HeapSpec promises: what it hands out was nobody's,
\* and it maps memory only for a request there is no room for (Heap!Promise).
THEOREM HeapKeepsPromise == Spec => Promise
<1>1. Init => Abs!Init
      BY DEF Init, Abs!Init, Handed
<1>2. HeapInv /\ [Next]_vars => [Abs!Next]_<<mapped, Handed>>
      <2> SUFFICES ASSUME HeapInv, [Next]_vars PROVE Abs!Next \/ UNCHANGED <<mapped, Handed>>
          OBVIOUS
      <2>1. ASSUME NEW nbytes \in Requests, Alloc(nbytes)
            PROVE  Abs!Next \/ UNCHANGED <<mapped, Handed>>
            BY <2>1, PromiseAlloc DEF Abs!Next
      <2>2. ASSUME NEW b \in live, Free(b) PROVE Abs!Next
            BY <2>2, PromiseFree DEF Abs!Next
      <2>3. ASSUME NEW b \in live, NEW nbytes \in Requests, Realloc(b, nbytes)
            PROVE  Abs!Next \/ UNCHANGED <<mapped, Handed>>
            <3>1. Record(b) \in Handed
                  BY DEF Handed, Record
            <3> QED BY <2>3, <3>1, PromiseRealloc DEF Abs!Next
      <2>4. CASE UNCHANGED vars
            BY <2>4 DEF vars, Handed
      <2> QED BY <2>1, <2>2, <2>3, <2>4 DEF Next
<1> QED BY <1>1, <1>2, Invariance, PTL DEF Spec, Promise, Abs!Spec
===============================================================================
