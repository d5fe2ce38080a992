--------------------------- MODULE BrokerInformers ---------------------------
(***************************************************************************)
(* The function NewBroker adds to the manager (client/broker.go): it       *)
(* follows the Ducks of a DuckType and keeps, for every Duck that is       *)
(* ready, an event handler at the informer of the type the Duck marks.     *)
(* Those handlers publish to the broker's loop (module DuckBroker).        *)
(*                                                                         *)
(* The handler of Duck events runs in one goroutine and works under the    *)
(* mutex m, as does the shutdown; each of the two is a step here.          *)
(***************************************************************************)
EXTENDS Integers, Sequences

CONSTANTS
    Ducks,       \* names of Ducks
    Types,       \* types (group, version and kind) a Duck may mark
    None,        \* no such Duck, no entry
    MaxChanges,  \* bound on what happens to Ducks
    MaxFaults    \* bound on failing calls, missed deletions and shutdowns

ASSUME InformersAssumption ==
    /\ None \notin Types
    /\ MaxChanges \in Nat
    /\ MaxFaults \in Nat

VARIABLES
    stored,    \* stored[d]: the Duck at the API server
    events,    \* events[d]: events of Duck d the informer has yet to deliver
    handling,  \* the event the handler was called with, or Nothing
    informers, \* the maps duckInformers, duckRegistrations: type of the informer
    handlers,  \* handlers[d][t]: handlers for d registered at the informer of t
    stuck,     \* Ducks whose handler could not be removed
    failed,    \* Ducks whose informer could not be started
    running,   \* the runnable has not shut down
    following, \* duckTypeRegistration: Duck events are delivered
    changes, faults

regVars == <<informers, handlers, stuck, failed>>
runVars == <<running, following>>
vars == <<stored, events, handling, informers, handlers, stuck, failed, running,
          following, changes, faults>>

Duck == [type : Types, ready : BOOLEAN]

Absent == [type |-> None, ready |-> FALSE]

\* Add and update events have the same handler, informOn.
Event == [op : {"set"}, name : Ducks, type : Types, ready : BOOLEAN]
         \cup [op : {"delete", "tombstone"}, name : Ducks]

Nothing == [op |-> "none"]

Set(d, duck) == [op |-> "set", name |-> d, type |-> duck.type, ready |-> duck.ready]

\* The events of the first list of an informer.
Listed(d) == IF stored[d] = Absent THEN <<>> ELSE <<Set(d, stored[d])>>

NoHandlers == [d \in Ducks |-> [t \in Types |-> 0]]

Change == changes < MaxChanges /\ changes' = changes + 1

Fault == faults < MaxFaults /\ faults' = faults + 1

Init ==
    /\ stored \in [Ducks -> {Absent} \cup Duck]
    /\ events = [d \in Ducks |-> Listed(d)]
    /\ handling = Nothing
    /\ informers = [d \in Ducks |-> None]
    /\ handlers = NoHandlers
    /\ stuck = {} /\ failed = {}
    /\ running = TRUE /\ following = TRUE
    /\ changes = 0 /\ faults = 0

-----------------------------------------------------------------------------
(* Ducks and their informer.                                               *)

\* A user creates or edits Duck d, or the Duck controller sets its conditions.
Write(d) ==
    /\ Change
    /\ \E duck \in Duck \ {stored[d]} :
          /\ stored' = [stored EXCEPT ![d] = duck]
          /\ events' = [events EXCEPT ![d] = Append(@, Set(d, duck))]
    /\ UNCHANGED <<handling, regVars, runVars, faults>>

Delete(d) ==
    /\ Change
    /\ stored[d] # Absent
    /\ stored' = [stored EXCEPT ![d] = Absent]
    /\ events' = [events EXCEPT ![d] = Append(@, [op |-> "delete", name |-> d])]
    /\ UNCHANGED <<handling, regVars, runVars, faults>>

\* The watch was interrupted: a new list shows that the Duck is gone.
MissedDelete(d) ==
    /\ Change
    /\ Fault
    /\ stored[d] # Absent
    /\ stored' = [stored EXCEPT ![d] = Absent]
    /\ events' = [events EXCEPT ![d] = Append(@, [op |-> "tombstone", name |-> d])]
    /\ UNCHANGED <<handling, regVars, runVars>>

Resync(d) ==
    /\ following
    /\ events[d] = <<>>
    /\ stored[d] # Absent
    /\ events' = [events EXCEPT ![d] = Listed(d)]
    /\ UNCHANGED <<stored, handling, regVars, runVars, changes, faults>>

\* The handler is called, and waits for the mutex.
HandlerCalled(d) ==
    /\ following
    /\ handling = Nothing
    /\ events[d] # <<>>
    /\ handling' = Head(events[d])
    /\ events' = [events EXCEPT ![d] = Tail(@)]
    /\ UNCHANGED <<stored, regVars, runVars, changes, faults>>

-----------------------------------------------------------------------------
(* informOn.                                                               *)

Entry(e) == informers[e.name]

\* Faulty variant of InformSkips: the Duck is remembered before Ready is looked at.
InformSkipsRemembering ==
    /\ handling.op = "set"
    /\ Entry(handling) # None \/ ~handling.ready
    /\ handling' = Nothing
    /\ informers' = IF Entry(handling) = None
                    THEN [informers EXCEPT ![handling.name] = handling.type] ELSE informers
    /\ UNCHANGED <<stored, events, handlers, stuck, failed, runVars, changes, faults>>

\* Already informing, or not ready.
InformSkips ==
    /\ handling.op = "set"
    /\ Entry(handling) # None \/ ~handling.ready
    /\ handling' = Nothing
    /\ UNCHANGED <<stored, events, regVars, runVars, changes, faults>>

\* Faulty variant of InformStarts: it does not look for an entry.
InformStartsAgain ==
    /\ handling.op = "set"
    /\ handling.ready
    /\ informers' = [informers EXCEPT ![handling.name] = handling.type]
    /\ handlers' = [handlers EXCEPT ![handling.name][handling.type] = @ + 1]
    /\ failed' = failed \ {handling.name}
    /\ handling' = Nothing
    /\ UNCHANGED <<stored, events, stuck, runVars, changes, faults>>

InformStarts ==
    /\ handling.op = "set"
    /\ Entry(handling) = None
    /\ handling.ready
    /\ informers' = [informers EXCEPT ![handling.name] = handling.type]
    /\ handlers' = [handlers EXCEPT ![handling.name][handling.type] = @ + 1]
    /\ failed' = failed \ {handling.name}
    /\ handling' = Nothing
    /\ UNCHANGED <<stored, events, stuck, runVars, changes, faults>>

\* GetInformer or AddEventHandler fails.
InformFails ==
    /\ handling.op = "set"
    /\ Entry(handling) = None
    /\ handling.ready
    /\ Fault
    /\ failed' = failed \cup {handling.name}
    /\ handling' = Nothing
    /\ UNCHANGED <<stored, events, informers, handlers, stuck, runVars, changes>>

-----------------------------------------------------------------------------
(* DeleteFunc.                                                             *)

\* RemoveEventHandler; a handler that is already removed stays so.
Removed(hs, t) == [hs EXCEPT ![t] = IF @ = 0 THEN 0 ELSE @ - 1]

\* Faulty variant of Forget: the registration is forgotten but not removed.
ForgetKeepingHandler ==
    /\ handling.op = "delete"
    /\ informers' = [informers EXCEPT ![handling.name] = None]
    /\ handling' = Nothing
    /\ UNCHANGED <<stored, events, handlers, stuck, failed, runVars, changes, faults>>

Forget ==
    /\ handling.op = "delete"
    /\ handlers' = IF Entry(handling) = None THEN handlers
                   ELSE [handlers EXCEPT ![handling.name] = Removed(@, Entry(handling))]
    /\ stuck' = stuck \ {handling.name} /\ failed' = failed \ {handling.name}
    /\ informers' = [informers EXCEPT ![handling.name] = None]
    /\ handling' = Nothing
    /\ UNCHANGED <<stored, events, runVars, changes, faults>>

\* RemoveEventHandler fails: the entry stays.
ForgetFails ==
    /\ handling.op = "delete"
    /\ Entry(handling) # None
    /\ Fault
    /\ stuck' = stuck \cup {handling.name}
    /\ handling' = Nothing
    /\ UNCHANGED <<stored, events, informers, handlers, failed, runVars, changes>>

\* The process starts anew.
FreshProcess ==
    /\ events' = [d \in Ducks |-> Listed(d)]
    /\ handling' = Nothing
    /\ informers' = [d \in Ducks |-> None]
    /\ handlers' = NoHandlers
    /\ stuck' = {} /\ failed' = {}
    /\ running' = TRUE /\ following' = TRUE
    /\ UNCHANGED stored

\* The handlers assert the type of the object; a tombstone has another.
TombstonePanics ==
    /\ handling.op = "tombstone"
    /\ FreshProcess
    /\ UNCHANGED <<changes, faults>>

-----------------------------------------------------------------------------
(* The end of the runnable: the handlers are removed, the one of the Ducks *)
(* first, until one removal fails; the maps stay as they are.              *)

Unregistered(kept) ==
    [d \in Ducks |-> IF informers[d] = None \/ d \in kept THEN handlers[d]
                     ELSE Removed(handlers[d], informers[d])]

Shutdown ==
    /\ running
    /\ Fault
    /\ running' = FALSE
    /\ \E kept \in SUBSET {d \in Ducks : informers[d] # None}, follows \in BOOLEAN :
          /\ follows => kept = {d \in Ducks : informers[d] # None}
          /\ following' = follows
          /\ handlers' = Unregistered(kept)
    /\ UNCHANGED <<stored, events, handling, informers, stuck, failed, changes>>

\* The manager of a stopped runnable is gone some time later.
Restart ==
    /\ ~running
    /\ FreshProcess
    /\ UNCHANGED <<changes, faults>>

-----------------------------------------------------------------------------
HandlerStep ==
    \/ InformSkips \/ InformStarts \/ InformFails
    \/ Forget \/ ForgetFails
    \/ TombstonePanics

Next ==
    \/ \E d \in Ducks : \/ Write(d) \/ Delete(d) \/ MissedDelete(d)
                        \/ Resync(d) \/ HandlerCalled(d)
    \/ HandlerStep
    \/ Shutdown \/ Restart

Spec == Init /\ [][Next]_vars

(* The handler runs, the informer delivers the events of every Duck and    *)
(* resyncs every Duck, and a stopped process is started again.             *)
Fairness ==
    /\ WF_vars(HandlerStep) /\ WF_vars(Restart)
    /\ \A d \in Ducks : SF_vars(HandlerCalled(d)) /\ WF_vars(Resync(d))

FairSpec == Spec /\ Fairness

-----------------------------------------------------------------------------
(* Every variable has its type.                                            *)
TypeOK ==
    /\ stored \in [Ducks -> Duck \cup {Absent}]
    /\ events \in [Ducks -> Seq(Event)]
    /\ handling \in Event \cup {Nothing}
    /\ informers \in [Ducks -> Types \cup {None}]
    /\ handlers \in [Ducks -> [Types -> Nat]]
    /\ stuck \subseteq Ducks /\ failed \subseteq Ducks
    /\ running \in BOOLEAN /\ following \in BOOLEAN
    /\ changes \in 0 .. MaxChanges /\ faults \in 0 .. MaxFaults

\* Some handler is registered for Duck d.
Informed(d) == \E t \in Types : handlers[d][t] > 0

\* There is at most one handler for every entry of the maps and no other, also when a
\* Duck event is handled after the shutdown, and exactly one as long as the runnable
\* runs: no event is published twice for a Duck and none of a Duck that was
\* forgotten, whatever calls failed.
OneHandlerPerEntry ==
    \A d \in Ducks, t \in Types :
        /\ handlers[d][t] <= IF informers[d] = t THEN 1 ELSE 0
        /\ running => handlers[d][t] = IF informers[d] = t THEN 1 ELSE 0

\* No event of Duck d is waiting or being handled.
Quiet(d) == events[d] = <<>> /\ (handling # Nothing => handling.name # d)

\* When the events of a Duck are handled, whatever came between them, a Duck that is
\* ready has a handler unless starting its informer failed, and one that is gone has
\* none unless removing it failed.
RestsInformed ==
    \A d \in Ducks : running /\ Quiet(d) =>
        /\ stored[d].ready => Informed(d) \/ d \in failed
        /\ stored[d] = Absent => ~Informed(d) \/ d \in stuck

\* A Duck that stays ready has a handler some time, also when starting its
\* informer failed: the resync repeats informOn.
ReadyDuckInformed ==
    \A d \in Ducks : []<>(~stored[d].ready \/ Informed(d))

\* A Duck that is gone has no handler some time, unless removing it failed.
DeletedDuckForgotten ==
    \A d \in Ducks : []<>(stored[d] # Absent \/ ~Informed(d) \/ d \in stuck)

\* client/broker.go:46 says "NewBroker starts informers for all resources of a
\* given duck type": a Duck that stays ready has a handler for the type it marks.
InformersFollowDucks ==
    \A d \in Ducks : \A t \in Types :
        []<>(stored[d] # [type |-> t, ready |-> TRUE] \/ handlers[d][t] > 0)

=============================================================================
