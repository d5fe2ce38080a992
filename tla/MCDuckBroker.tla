---------------------------- MODULE MCDuckBroker ----------------------------
(* The instances of DuckBroker that TLC checks.                            *)
EXTENDS DuckBroker

\* One publisher has two events, so that their order shows; the others have one.
TwoAndOne ==
    LET first == CHOOSE p \in Publishers : TRUE IN
    [p \in Publishers |-> IF p = first THEN 2 ELSE 1]

\* One event more than the message channels of the code hold.
Six == [p \in Publishers |-> 6]

=============================================================================
