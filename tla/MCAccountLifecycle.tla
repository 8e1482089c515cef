-------------------------- MODULE MCAccountLifecycle --------------------------
(* AccountLifecycle for TLC: two jids, of two phones.                       *)
EXTENDS AccountLifecycle, TLC

ManyUsers == [j \in Jids |-> j]
Swaps == Permutations(Jids)
=============================================================================
