---------------------------------- MODULE MCGen ----------------------------------
(***************************************************************************)
(* Small instances of Gen: fewer slots than generators and coroutines.     *)
(***************************************************************************)
EXTENDS Gen
===============================================================================
