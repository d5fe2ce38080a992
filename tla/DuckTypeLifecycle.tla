-------------------------- MODULE DuckTypeLifecycle --------------------------
(***************************************************************************)
(* What the DuckType controller promises about sub-managers, without       *)
(* caches, queues, finalizers or goroutines: only a DuckType that exists   *)
(* is served, an object that is served is not removed, and an identity     *)
(* that was removed never comes back.                                      *)
(***************************************************************************)
CONSTANTS Names, UIDs, None

VARIABLES
    owner,    \* owner[n]: UID of the DuckType stored under n, or None
    used,     \* UIDs ever assigned
    serving   \* UIDs with a sub-manager that has not been shut down

lifecycleVars == <<owner, used, serving>>

Init ==
    /\ owner = [n \in Names |-> None]
    /\ used = {}
    /\ serving = {}

Add(n) ==
    /\ owner[n] = None
    /\ \E u \in UIDs \ used :
          /\ owner' = [owner EXCEPT ![n] = u]
          /\ used' = used \cup {u}
    /\ UNCHANGED serving

Serve(n) ==
    /\ owner[n] # None
    /\ serving' = serving \cup {owner[n]}
    /\ UNCHANGED <<owner, used>>

\* A shutdown ends one sub-manager, a crash of the process all of them.
StopServing ==
    /\ \E gone \in SUBSET serving : serving' = serving \ gone
    /\ UNCHANGED <<owner, used>>

Remove(n) ==
    /\ owner[n] # None
    /\ owner[n] \notin serving
    /\ owner' = [owner EXCEPT ![n] = None]
    /\ UNCHANGED <<used, serving>>

Next ==
    \/ \E n \in Names : Add(n) \/ Serve(n) \/ Remove(n)
    \/ StopServing

Spec == Init /\ [][Next]_lifecycleVars

-----------------------------------------------------------------------------

\* What is served is one stored DuckType and not two, and no identity that is not
\* stored is served, as none is that shutdown() has waited for.
ServedIsStored ==
    \A u \in serving : \E n \in Names :
        owner[n] = u /\ \A other \in Names \ {n} : owner[other] # u

=============================================================================
