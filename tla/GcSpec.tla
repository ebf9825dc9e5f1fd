--------------------------------- MODULE GcSpec ---------------------------------
(***************************************************************************)
(* What std/gc.qela promises the program, with free list, marks, locks,    *)
(* safepoints and saved registers abstracted away: an allocation is one    *)
(* step and hands out a block nobody has, and fails only when all blocks   *)
(* are handed out; a collection is one step and takes back no block the    *)
(* program can get at, unless some thread was not stopped in time; and     *)
(* neither touches a word of the program's.                                *)
(***************************************************************************)
CONSTANTS Threads, Blocks, Nil

VARIABLES
    used,               \* the blocks handed out and not taken back
    ptr, data,          \* what the blocks and the data segment hold
    root, parked_root,  \* per thread: its running and its parked context
    stored,             \* blocks with a word the program put there
    late                \* some thread was not stopped in time

vars == <<used, ptr, data, root, parked_root, stored, late>>

\* From a stack, running or parked, or from the data segment, through the
\* words the program put in blocks.
Roots == {root[t] : t \in Threads} \cup {parked_root[t] : t \in Threads} \cup {data}

Closed(S) ==
    /\ Roots \ {Nil} \subseteq S
    /\ \A b \in S \cap stored : ptr[b] \in S \cup {Nil}

Reachable == {b \in Blocks : \A S \in SUBSET Blocks : Closed(S) => b \in S}

Init ==
    /\ used = {} /\ stored = {} /\ late = FALSE
    /\ ptr = [b \in Blocks |-> Nil] /\ data = Nil
    /\ root = [t \in Threads |-> Nil] /\ parked_root = [t \in Threads |-> Nil]

\* The program reads, writes and forgets, and changes contexts.
Read(t) ==
    /\ \E w \in {data, Nil} \cup {ptr[b] : b \in {root[t]} \cap stored} :
          root' = [root EXCEPT ![t] = w]
    /\ UNCHANGED <<used, ptr, data, parked_root, stored, late>>

Publish(t) ==
    /\ data' = root[t]
    /\ UNCHANGED <<used, ptr, root, parked_root, stored, late>>

Write(t) ==
    /\ root[t] # Nil
    /\ ptr' = [ptr EXCEPT ![root[t]] = data]
    /\ stored' = stored \cup {root[t]}
    /\ UNCHANGED <<used, data, root, parked_root, late>>

Switch(t) ==
    /\ root' = [root EXCEPT ![t] = parked_root[t]]
    /\ parked_root' = [parked_root EXCEPT ![t] = root[t]]
    /\ UNCHANGED <<used, ptr, data, stored, late>>

Alloc(t) ==
    /\ \E b \in (Blocks \ used) \cup {Nil} :
          /\ b = Nil => used = Blocks
          /\ used' = used \cup ({b} \ {Nil})
          /\ root' = [root EXCEPT ![t] = b]
          /\ stored' = stored \ {b}
    /\ UNCHANGED <<ptr, data, parked_root, late>>

Collect ==
    /\ \E taken \in SUBSET used :
          /\ late \/ taken \cap Reachable = {}
          /\ used' = used \ taken
    /\ UNCHANGED <<ptr, data, root, parked_root, stored, late>>

Disturb ==
    /\ late' = TRUE
    /\ UNCHANGED <<used, ptr, data, root, parked_root, stored>>

Next == \/ \E t \in Threads : Read(t) \/ Publish(t) \/ Write(t) \/ Switch(t) \/ Alloc(t)
        \/ Collect \/ Disturb

Spec == Init /\ [][Next]_vars
===============================================================================
