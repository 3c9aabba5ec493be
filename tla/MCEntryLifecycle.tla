-------------------------- MODULE MCEntryLifecycle --------------------------
(* Values of the constants of EntryLifecycle for TLC. *)
EXTENDS EntryLifecycle, TLC

CONSTANTS a1, a2, t1, t2, blank, typed, default

MCAddresses == {a1, a2}
MCTasks == {t1, t2}
BlankOnly == {blank}
MCInputs == {blank, typed}
Symmetry == Permutations(MCAddresses) \union Permutations(MCTasks)
=============================================================================
