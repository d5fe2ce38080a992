---------------------------- MODULE MCDuckClient ----------------------------
(* Calls of the duck client on small instances.                            *)
EXTENDS DuckClient, TLC

Symmetry == Permutations(Ducks) \cup Permutations(Kinds) \cup Permutations(Versions)
            \cup Permutations(Objects)

=============================================================================
