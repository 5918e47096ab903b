---------------------------- MODULE MCActivation ----------------------------
(* Two processes, two secrets that are long enough, and two tokens. *)
EXTENDS Activation, TLC

CONSTANTS p1, p2, x, y

TwoProcesses == {p1, p2}
TwoValues == {x, y}
Symmetry == Permutations(TwoProcesses) \cup Permutations(TwoValues)
================================================================================
