------------------------------- MODULE PubSub -------------------------------
(***************************************************************************)
(* What the duck broker promises its subscribers: the events of each       *)
(* publisher are accepted once and in order, an event goes to those who    *)
(* are subscribed when it is accepted, and a subscriber is handed events   *)
(* at most once, in the order of acceptance.  Some may never be handed.    *)
(***************************************************************************)
EXTENDS Naturals, Sequences

CONSTANTS Subscribers, Publishers

VARIABLES
    accepted,  \* accepted[p]: number of events accepted from publisher p
    log,       \* the accepted events and who was subscribed then
    inbox      \* inbox[s]: positions in log of the events handed to s

pubSubVars == <<accepted, log, inbox>>

Init ==
    /\ accepted = [p \in Publishers |-> 0]
    /\ log = <<>>
    /\ inbox = [s \in Subscribers |-> <<>>]

Accept(p) ==
    /\ accepted' = [accepted EXCEPT ![p] = @ + 1]
    /\ \E audience \in SUBSET Subscribers :
          log' = Append(log, [from |-> p, seq |-> accepted[p] + 1,
                              audience |-> audience])
    /\ UNCHANGED inbox

Deliver(s) ==
    /\ \E i \in 1 .. Len(log) :
          /\ s \in log[i].audience
          /\ \A j \in 1 .. Len(inbox[s]) : inbox[s][j] < i
          /\ inbox' = [inbox EXCEPT ![s] = Append(@, i)]
    /\ UNCHANGED <<accepted, log>>

Next ==
    \/ \E p \in Publishers : Accept(p)
    \/ \E s \in Subscribers : Deliver(s)

Spec == Init /\ [][Next]_pubSubVars

\* What a subscriber may rely on: it is handed events it was subscribed for, once and
\* in the order of the log, in which the events of one publisher stand once each,
\* in order and without a gap.
OnceInOrder ==
    /\ \A s \in Subscribers : \A i \in 1 .. Len(inbox[s]) :
          /\ inbox[s][i] \in 1 .. Len(log) /\ s \in log[inbox[s][i]].audience
          /\ \A j \in 1 .. Len(inbox[s]) : i < j => inbox[s][i] < inbox[s][j]
    /\ \A i, j \in 1 .. Len(log) :
          i < j /\ log[i].from = log[j].from => log[i].seq < log[j].seq
    /\ \A p \in Publishers : \A k \in 1 .. accepted[p] :
          \E i \in 1 .. Len(log) : log[i].from = p /\ log[i].seq = k

=============================================================================
