----------------------- MODULE MCConnectionLifecycle -----------------------
(* Values of the constants of ConnectionLifecycle for TLC. *)
EXTENDS ConnectionLifecycle, TLC

CONSTANTS poll, button

OneCaller == {poll}
TwoCallers == {poll, button}
Symmetry == Permutations(TwoCallers)
=============================================================================
