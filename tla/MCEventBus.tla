----------------------------- MODULE MCEventBus -----------------------------
(* EventBus for TLC: a soft event, and a group change that translate()     *)
(* splits in two; or only plain events.                                    *)
EXTENDS EventBus, TLC

MCBatches == {<<"receipt">>, <<"group_info", "participants">>}
OneBatch == {<<"message">>}

AccountSymmetry == Permutations(Accounts)
=============================================================================
