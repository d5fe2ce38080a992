------------------------- MODULE MCDuckTypeChildren -------------------------
(* The instance of DuckTypeChildren that TLC checks (Children.cfg).        *)
EXTENDS DuckTypeChildren

CONSTANT Later  \* specs that the DuckType gets by edits only

\* Accepted specs are interchangeable: what happens from one happens from another.
MCInit == Init /\ type.spec \notin Later

MCSpec == MCInit /\ [][Next]_vars /\ Fairness

=============================================================================
