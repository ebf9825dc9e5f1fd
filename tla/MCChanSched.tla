------------------------------ MODULE MCChanSched -----------------------------
(***************************************************************************)
(* Small instances of ChanSched: one buffered and one rendezvous channel,  *)
(* sends, receives and a select over both.                                 *)
(***************************************************************************)
EXTENDS ChanSched, TLC

CONSTANTS b, r

MCChans == {b, r}
MCRoom  == b :> 1 @@ r :> 0

NoWork   == {}
AllWork  == {{<<"send", b>>}, {<<"recv", b>>}, {<<"send", r>>}, {<<"recv", r>>},
             {<<"recv", b>>, <<"recv", r>>}}
===============================================================================
