---------------------------- MODULE MCVmLifecycle ----------------------------
(***************************************************************************)
(* VmLifecycle over a few VM rows: a named VM of today's API, and one with *)
(* a generated name of an API from before the specification readback.      *)
(***************************************************************************)
EXTENDS VmLifecycle, TLC

Today == [named |-> TRUE, readback |-> TRUE]
Older == [named |-> FALSE, readback |-> FALSE]
BothSetups == {Today, Older}
OnlyToday == {Today}

Alike == Permutations(Ids)
=============================================================================
