---------------------------- MODULE MCChanRegistry ----------------------------
(***************************************************************************)
(* Small instances of ChanRegistry: up to two workers and main, one or two *)
(* one-slot channels.                                                      *)
(***************************************************************************)
EXTENDS ChanRegistry

CONSTANTS w1, w2, m, a, b

NoThreads  == {}
OneWorker  == {w1}
TwoWorkers == {w1, w2}
Main       == {m}
OneChan    == {a}
TwoChans   == {a, b}
OneRoom    == a :> 1
TwoRooms   == a :> 1 @@ b :> 1
RecvOnly   == {<<"recv", a>>}
SendRecv   == {<<"send", a>>, <<"recv", a>>}
PingPong   == {<<"send", a>>, <<"recv", a>>, <<"recv", b>>}

\* An action constraint: the registry without chan_thread_exit.
NobodyLeaves == \A s \in SlotNums : active[s] => active'[s]

\* Workers that start alike may be exchanged (safety runs only).
WorkerSymmetry == Permutations({w1, w2})
===============================================================================
