-------------------------------- MODULE PoolSpec --------------------------------
(***************************************************************************)
(* What go() and the pool of std/thread.qela promise of the tasks they are *)
(* given, with workers, rings, thieves, tables and mailboxes abstracted    *)
(* away: each runs its body once, in order, from the first step to the     *)
(* last, or is dropped; and a channel wait lasts until what it waits for   *)
(* is there.                                                               *)
(***************************************************************************)
EXTENDS Naturals, Sequences

CONSTANTS Tasks, Body, GoList

VARIABLES given,    \* the tasks go() has accepted
          alive,    \* those that have begun and not ended
          ended,    \* those that came to their end
          refused,  \* those a full table dropped
          done_at   \* per task: how much of its body it has done

vars == <<given, alive, ended, refused, done_at>>

\* What main's list or a step already done hands to go().
Called(x) ==
    \/ \E i \in 1 .. Len(GoList) : GoList[i] = x
    \/ \E u \in Tasks : \E i \in 1 .. Len(Body[u]) : i <= done_at[u] /\ Body[u][i] = <<"go", x>>

Init ==
    /\ given = {} /\ alive = {} /\ ended = {} /\ refused = {}
    /\ done_at = [t \in Tasks |-> 0]

Give(x) ==
    /\ x \notin given /\ Called(x)
    /\ given' = given \cup {x}
    /\ UNCHANGED <<alive, ended, refused, done_at>>

Begin(x) ==
    /\ x \in given \ (alive \cup ended \cup refused)
    /\ alive' = alive \cup {x}
    /\ UNCHANGED <<given, ended, refused, done_at>>

\* Before it began, or with a context that nobody had room for.
Drop(x) ==
    /\ x \in given \ (ended \cup refused)
    /\ alive' = alive \ {x} /\ refused' = refused \cup {x}
    /\ UNCHANGED <<given, ended, done_at>>

Step(x) ==
    /\ x \in alive /\ done_at[x] < Len(Body[x])
    /\ LET op == Body[x][done_at[x] + 1] IN op[1] = "wait" => op[2] \in ended
    /\ done_at' = [done_at EXCEPT ![x] = @ + 1]
    /\ UNCHANGED <<given, alive, ended, refused>>

End(x) ==
    /\ x \in alive /\ ~ (done_at[x] < Len(Body[x]))
    /\ alive' = alive \ {x} /\ ended' = ended \cup {x}
    /\ UNCHANGED <<given, refused, done_at>>

Next == \E x \in Tasks : Give(x) \/ Begin(x) \/ Drop(x) \/ Step(x) \/ End(x)

Spec == Init /\ [][Next]_vars
===============================================================================
