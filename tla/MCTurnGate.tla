----------------------------- MODULE MCTurnGate -----------------------------
(* Small instances of TurnGate for TLC. *)
EXTENDS TurnGate, TLC

Symmetry == Permutations(Keys) \cup Permutations(Calls)
=============================================================================
