------------------------------- MODULE ChanSpec -------------------------------
(***************************************************************************)
(* What std/chan.qela promises of one Chan(T), with the ring buffer, the   *)
(* spinlock and the callers' control abstracted away: a FIFO of bounded    *)
(* length that accepts values until it is closed and hands each accepted   *)
(* value to exactly one receiver, in order.                                *)
(*                                                                         *)
(* Room is 1 for a rendezvous channel: buf[0] is the handoff slot          *)
(* (chan.qela, header comment).                                            *)
(***************************************************************************)
EXTENDS Naturals, Sequences

CONSTANTS Values,   \* what may travel through the channel
          Room      \* how many values may be inside it at once

VARIABLES queue, closed

Init == queue = << >> /\ closed = FALSE

\* chan_send / chan_try_send once the value has a place.
Put(v) == /\ ~closed
          /\ Len(queue) < Room
          /\ queue' = Append(queue, v)
          /\ UNCHANGED closed

\* chan_recv / chan_recv_range / chan_try_recv when a value is there; a
\* closed channel still drains.
Get == /\ queue # << >>
       /\ queue' = Tail(queue)
       /\ UNCHANGED closed

\* chan_close; closing twice is harmless and nothing reopens a channel.
Close == closed' = TRUE /\ UNCHANGED queue

Next == (\E v \in Values : Put(v)) \/ Get \/ Close

Spec == Init /\ [][Next]_<<queue, closed>>
===============================================================================
