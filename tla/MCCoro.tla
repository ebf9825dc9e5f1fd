-------------------------------- MODULE MCCoro --------------------------------
(***************************************************************************)
(* Small instances of Coro: a table of three usable slots and more spawns  *)
(* than it has room for.                                                   *)
(***************************************************************************)
EXTENDS Coro
===============================================================================
