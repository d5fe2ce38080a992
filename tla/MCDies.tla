------------------------------- MODULE MCDies -------------------------------
(* The instance of Dies that TLC checks.                                   *)
EXTENDS Dies, TLC

\* No definition tells two pieces of memory, two dies or two resources apart.
Symmetry == Permutations(Cells) \cup Permutations(Dies) \cup Permutations(Vars)

=============================================================================
