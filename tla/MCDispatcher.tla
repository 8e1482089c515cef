---------------------------- MODULE MCDispatcher ----------------------------
(* Dispatcher for TLC.  The accounts are interchangeable when all or none  *)
(* of them are stubborn, the callers of stop() always.                     *)
EXTENDS Dispatcher, TLC

AccountSymmetry == Permutations(Accounts) \cup Permutations(Callers)
=============================================================================
