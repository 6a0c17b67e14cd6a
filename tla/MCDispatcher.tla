---------------------------- MODULE MCDispatcher ----------------------------
(***************************************************************************)
(* Instance of Dispatcher for TLC.                                         *)
(***************************************************************************)
EXTENDS Dispatcher, TLC

Symmetric == Permutations(Msg) \cup Permutations(Callback)
=============================================================================
