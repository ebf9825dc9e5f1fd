---------------------------------- MODULE MCGc ----------------------------------
(***************************************************************************)
(* Small instances of Gc: main, which collects and runs a coroutine, and a *)
(* registered thread, which may leave and register again at any time; or   *)
(* two registered threads that both collect.                               *)
(***************************************************************************)
EXTENDS Gc

NoThread    == {}
OtherThread == {1}
MainOnly    == {0}
TwoThreads  == {0, 1}
OneBlock    == {1}
TwoBlocks   == {1, 2}
===============================================================================
