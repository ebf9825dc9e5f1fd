--------------------------------- MODULE MCHeap ---------------------------------
(***************************************************************************)
(* A small instance of Heap: blocks of two and three units, chunks of at   *)
(* least four.                                                             *)
(***************************************************************************)
EXTENDS Heap

MCRequests == {16, 17}
===============================================================================
