-------------------------------- MODULE MCChan --------------------------------
(***************************************************************************)
(* Small instances of Chan for TLC.  Two threads send (one of them also    *)
(* closes) and two receive, through a small ring or through the rendezvous *)
(* slot.                                                                   *)
(***************************************************************************)
EXTENDS Chan, TLC

CONSTANTS s1, s2, r1, r2, z, a

RingThreads == {s1, s2, r1, r2}
SlotThreads == {s1, s2, r1}
MCValues    == {z, a}

\* A blocking sender that also closes and a non-blocking one; a blocking
\* receiver and a non-blocking one.
RingOps == s1 :> {"send", "close"} @@ s2 :> {"try_send"} @@
           r1 :> {"recv", "recv_range"} @@ r2 :> {"try_recv"}

\* Both senders block until their value is taken.
SlotOps == s1 :> {"send"} @@ s2 :> {"send", "try_send", "close"} @@
           r1 :> {"recv", "recv_range", "try_recv"}
===============================================================================
