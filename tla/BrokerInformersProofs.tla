------------------------ MODULE BrokerInformersProofs ------------------------
(***************************************************************************)
(* Proofs about BrokerInformers for any Ducks, types and bounds: its type  *)
(* invariant and OneHandlerPerEntry, which together are inductive, and     *)
(* RestsInformed, which needs that the last event of a Duck that was not   *)
(* handled tells of the state the Duck is in.                              *)
(***************************************************************************)
EXTENDS BrokerInformers, TLAPS

IInv == TypeOK /\ OneHandlerPerEntry

-----------------------------------------------------------------------------
(* Helpers.                                                                *)

\* An event informOn is called with.
LEMMA SetLemma ==
    ASSUME TypeOK, handling.op = "set"
    PROVE  handling.name \in Ducks /\ handling.type \in Types
  BY DEF TypeOK, Event, Nothing

\* An event the deletion handler is called with.
LEMMA DeleteLemma ==
    ASSUME TypeOK, handling.op = "delete"
    PROVE  handling.name \in Ducks
  BY DEF TypeOK, Event, Nothing

\* The first list of an informer.
LEMMA ListedLemma ==
    ASSUME TypeOK, NEW d \in Ducks
    PROVE  Listed(d) \in Seq(Event)
  <1>1. CASE stored[d] = Absent
    BY <1>1 DEF Listed
  <1>2. CASE stored[d] # Absent
    <2>1. stored[d] \in Duck
      BY <1>2 DEF TypeOK
    <2>2. Set(d, stored[d]) \in Event
      BY <2>1 DEF Set, Event, Duck
    <2> QED BY <1>2, <2>2 DEF Listed
  <1> QED BY <1>1, <1>2

\* Taking a handler off leaves numbers of handlers.
LEMMA RemovedLemma ==
    ASSUME NEW hs \in [Types -> Nat], NEW t \in Types
    PROVE  /\ Removed(hs, t) \in [Types -> Nat]
           /\ hs[t] <= 1 => Removed(hs, t)[t] = 0
           /\ \A u \in Types \ {t} : Removed(hs, t)[u] = hs[u]
  BY DEF Removed

\* Starting again, nothing is registered.
LEMMA FreshLemma ==
    ASSUME TypeOK, FreshProcess, changes' = changes, faults' = faults
    PROVE  IInv'
  <1>1. events' \in [Ducks -> Seq(Event)]
    BY ListedLemma DEF FreshProcess
  <1>2. handlers' \in [Ducks -> [Types -> Nat]]
    BY DEF FreshProcess, NoHandlers
  <1>3. TypeOK'
    BY <1>1, <1>2 DEF FreshProcess, TypeOK
  <1>4. OneHandlerPerEntry'
    BY InformersAssumption DEF FreshProcess, NoHandlers, OneHandlerPerEntry
  <1> QED BY <1>3, <1>4 DEF IInv

-----------------------------------------------------------------------------
\* The initial states.
LEMMA InitIInv == Init => IInv
  <1> SUFFICES ASSUME Init PROVE IInv
    OBVIOUS
  <1>1. stored \in [Ducks -> Duck \cup {Absent}]
    BY DEF Init
  <1>2. ASSUME NEW d \in Ducks
        PROVE  Listed(d) \in Seq(Event)
    <2>1. stored[d] # Absent => Set(d, stored[d]) \in Event
      BY <1>1 DEF Set, Event, Duck
    <2>2. CASE stored[d] = Absent
      BY <2>2 DEF Listed
    <2>3. CASE stored[d] # Absent
      BY <2>1, <2>3 DEF Listed
    <2> QED BY <2>2, <2>3
  <1>3. events \in [Ducks -> Seq(Event)]
    BY <1>2 DEF Init
  <1>4. handlers \in [Ducks -> [Types -> Nat]]
    BY DEF Init, NoHandlers
  <1>5. changes \in 0 .. MaxChanges /\ faults \in 0 .. MaxFaults
    BY InformersAssumption DEF Init
  <1>6. TypeOK
    BY <1>1, <1>3, <1>4, <1>5 DEF Init, TypeOK
  <1>7. OneHandlerPerEntry
    BY InformersAssumption DEF Init, NoHandlers, OneHandlerPerEntry
  <1> QED BY <1>6, <1>7 DEF IInv

\* What happens to Ducks and the delivery of events leave the maps alone.
LEMMA DuckStep ==
    ASSUME IInv, NEW d \in Ducks,
           Write(d) \/ Delete(d) \/ MissedDelete(d) \/ Resync(d) \/ HandlerCalled(d)
    PROVE  IInv'
  <1> USE DEF IInv
  <1>1. OneHandlerPerEntry'
    <2>1. UNCHANGED <<informers, handlers, running>>
      BY DEF Write, Delete, MissedDelete, Resync, HandlerCalled, regVars, runVars
    <2> QED BY <2>1 DEF OneHandlerPerEntry
  <1>2. CASE Write(d)
    <2>1. PICK duck \in Duck : /\ stored' = [stored EXCEPT ![d] = duck]
                               /\ events' = [events EXCEPT ![d] = Append(@, Set(d, duck))]
      BY <1>2 DEF Write
    <2>2. Set(d, duck) \in Event
      BY DEF Set, Event, Duck
    <2>3. changes' \in 0 .. MaxChanges
      BY <1>2, InformersAssumption DEF Write, Change, TypeOK
    <2>4. /\ events' \in [Ducks -> Seq(Event)]
          /\ stored' \in [Ducks -> Duck \cup {Absent}]
      BY <2>1, <2>2 DEF TypeOK
    <2> QED BY <1>1, <1>2, <2>3, <2>4 DEF Write, TypeOK, regVars, runVars
  <1>3. ASSUME NEW e \in Event, events' = [events EXCEPT ![d] = Append(@, e)]
        PROVE  events' \in [Ducks -> Seq(Event)]
    BY <1>3 DEF TypeOK
  <1>4. CASE Delete(d)
    <2>1. [op |-> "delete", name |-> d] \in Event
      BY DEF Event
    <2>2. events' \in [Ducks -> Seq(Event)]
      BY <1>3, <1>4, <2>1 DEF Delete
    <2>3. changes' \in 0 .. MaxChanges
      BY <1>4, InformersAssumption DEF Delete, Change, TypeOK
    <2>4. stored' \in [Ducks -> Duck \cup {Absent}]
      BY <1>4 DEF Delete, TypeOK
    <2> QED BY <1>1, <1>4, <2>2, <2>3, <2>4 DEF Delete, TypeOK, regVars, runVars
  <1>5. CASE MissedDelete(d)
    <2>1. [op |-> "tombstone", name |-> d] \in Event
      BY DEF Event
    <2>2. events' \in [Ducks -> Seq(Event)]
      BY <1>3, <1>5, <2>1 DEF MissedDelete
    <2>3. changes' \in 0 .. MaxChanges /\ faults' \in 0 .. MaxFaults
      BY <1>5, InformersAssumption DEF MissedDelete, Change, Fault, TypeOK
    <2>4. stored' \in [Ducks -> Duck \cup {Absent}]
      BY <1>5 DEF MissedDelete, TypeOK
    <2> QED BY <1>1, <1>5, <2>2, <2>3, <2>4 DEF MissedDelete, TypeOK, regVars, runVars
  <1>6. CASE Resync(d)
    <2>1. events' \in [Ducks -> Seq(Event)]
      BY <1>6, ListedLemma DEF Resync, TypeOK
    <2> QED BY <1>1, <1>6, <2>1 DEF Resync, TypeOK, regVars, runVars
  <1>7. CASE HandlerCalled(d)
    <2>1. events[d] \in Seq(Event) /\ events[d] # <<>>
      BY <1>7 DEF HandlerCalled, TypeOK
    <2>2. Head(events[d]) \in Event /\ Tail(events[d]) \in Seq(Event)
      BY <2>1
    <2>3. events' \in [Ducks -> Seq(Event)] /\ handling' \in Event
      BY <1>7, <2>2 DEF HandlerCalled, TypeOK
    <2> QED BY <1>1, <1>7, <2>3 DEF HandlerCalled, TypeOK, regVars, runVars
  <1> QED BY <1>2, <1>4, <1>5, <1>6, <1>7

\* informOn registers a handler together with its entry.
LEMMA InformStep ==
    ASSUME IInv, InformSkips \/ InformStarts \/ InformFails
    PROVE  IInv'
  <1> USE DEF IInv
  <1>1. CASE InformSkips
    BY <1>1 DEF InformSkips, TypeOK, OneHandlerPerEntry, regVars, runVars
  <1>2. CASE InformFails
    <2>1. faults' \in 0 .. MaxFaults
      BY <1>2, InformersAssumption DEF InformFails, Fault, TypeOK
    <2>2. failed' \subseteq Ducks
      BY <1>2, SetLemma DEF InformFails, TypeOK
    <2> QED BY <1>2, <2>1, <2>2 DEF InformFails, TypeOK, OneHandlerPerEntry, runVars
  <1>3. CASE InformStarts
    <2> DEFINE n == handling.name
               t == handling.type
    <2>1. n \in Ducks /\ t \in Types /\ informers[n] = None
      BY <1>3, SetLemma DEF InformStarts, Entry
    <2>2. /\ informers' = [informers EXCEPT ![n] = t]
          /\ handlers' = [handlers EXCEPT ![n][t] = @ + 1]
          /\ UNCHANGED <<stored, events, stuck, running, following, changes, faults>>
          /\ handling' = Nothing /\ failed' \subseteq failed
      BY <1>3 DEF InformStarts, runVars
    <2> HIDE DEF n, t
    <2>3. TypeOK'
      BY <2>1, <2>2 DEF TypeOK
    <2>4. OneHandlerPerEntry'
      BY <2>1, <2>2, InformersAssumption DEF TypeOK, OneHandlerPerEntry
    <2> QED BY <2>3, <2>4
  <1> QED BY <1>1, <1>2, <1>3

\* The deletion handler removes a handler together with its entry.
LEMMA ForgetStep ==
    ASSUME IInv, Forget \/ ForgetFails
    PROVE  IInv'
  <1> USE DEF IInv
  <1>1. CASE ForgetFails
    <2>1. faults' \in 0 .. MaxFaults
      BY <1>1, InformersAssumption DEF ForgetFails, Fault, TypeOK
    <2>2. stuck' \subseteq Ducks
      BY <1>1, DeleteLemma DEF ForgetFails, TypeOK
    <2> QED BY <1>1, <2>1, <2>2 DEF ForgetFails, TypeOK, OneHandlerPerEntry, runVars
  <1>2. CASE Forget
    <2> DEFINE n == handling.name
               t == informers[n]
    <2>1. /\ n \in Ducks /\ informers' = [informers EXCEPT ![n] = None]
          /\ handlers' = IF t = None THEN handlers
                         ELSE [handlers EXCEPT ![n] = Removed(@, t)]
          /\ stuck' = stuck \ {n} /\ failed' = failed \ {n} /\ handling' = Nothing
          /\ UNCHANGED <<stored, events, running, following, changes, faults>>
      BY <1>2, DeleteLemma DEF Forget, Entry, runVars
    <2>2. handlers[n] \in [Types -> Nat] /\ t \in Types \cup {None}
      BY <2>1 DEF TypeOK
    <2> HIDE DEF n
    <2>3. t # None => /\ Removed(handlers[n], t) \in [Types -> Nat]
                      /\ handlers[n][t] <= 1 => Removed(handlers[n], t)[t] = 0
                      /\ \A u \in Types \ {t} : Removed(handlers[n], t)[u] = handlers[n][u]
      BY <2>2, RemovedLemma
    <2>4. handlers' \in [Ducks -> [Types -> Nat]]
      BY <2>1, <2>2, <2>3 DEF TypeOK
    <2>5. TypeOK'
      BY <2>1, <2>4 DEF TypeOK
    <2>6. ASSUME NEW d \in Ducks, NEW u \in Types
          PROVE  /\ handlers'[d][u] <= IF informers'[d] = u THEN 1 ELSE 0
                 /\ running => handlers'[d][u] = IF informers'[d] = u THEN 1 ELSE 0
      <3>1. /\ handlers[d][u] <= IF informers[d] = u THEN 1 ELSE 0
            /\ running => handlers[d][u] = IF informers[d] = u THEN 1 ELSE 0
            /\ handlers[d][u] \in Nat
        BY DEF OneHandlerPerEntry, TypeOK
      <3>2. CASE d # n
        BY <2>1, <3>1, <3>2 DEF TypeOK
      <3>3. CASE d = n /\ t = None
        BY <2>1, <3>1, <3>3, InformersAssumption DEF TypeOK
      <3>4. CASE d = n /\ t # None
        <4>1. handlers'[d] = Removed(handlers[n], t) /\ informers'[d] = None
          BY <2>1, <3>4 DEF TypeOK
        <4>2. handlers'[d][u] = 0
          BY <2>2, <2>3, <3>1, <3>4, <4>1
        <4> QED BY <4>1, <4>2, InformersAssumption
      <3> QED BY <3>2, <3>3, <3>4
    <2> QED BY <2>1, <2>5, <2>6 DEF OneHandlerPerEntry
  <1> QED BY <1>1, <1>2

\* Shutting down removes handlers and never adds one.
LEMMA ShutdownStep ==
    ASSUME IInv, Shutdown
    PROVE  IInv'
  <1> USE DEF IInv
  <1>1. PICK kept \in SUBSET {d \in Ducks : informers[d] # None} :
           handlers' = Unregistered(kept)
    BY DEF Shutdown
  <1>2. ASSUME NEW d \in Ducks
        PROVE  /\ handlers'[d] \in [Types -> Nat]
               /\ \A t \in Types : handlers'[d][t] <= IF informers[d] = t THEN 1 ELSE 0
    <2>1. /\ handlers[d] \in [Types -> Nat] /\ informers[d] \in Types \cup {None}
          /\ \A t \in Types : handlers[d][t] <= IF informers[d] = t THEN 1 ELSE 0
      BY DEF TypeOK, OneHandlerPerEntry
    <2>2. CASE informers[d] = None \/ d \in kept
      BY <1>1, <2>1, <2>2 DEF Unregistered
    <2>3. CASE ~(informers[d] = None \/ d \in kept)
      <3>1. handlers'[d] = Removed(handlers[d], informers[d]) /\ informers[d] \in Types
        BY <1>1, <2>1, <2>3 DEF Unregistered
      <3>2. handlers[d][informers[d]] <= 1
        BY <2>1, <3>1
      <3> QED BY <2>1, <3>1, <3>2, RemovedLemma
    <2> QED BY <2>2, <2>3
  <1>3. handlers' \in [Ducks -> [Types -> Nat]]
    BY <1>1, <1>2 DEF Unregistered
  <1>4. faults' \in 0 .. MaxFaults /\ following' \in BOOLEAN
    BY InformersAssumption DEF Shutdown, Fault, TypeOK
  <1>5. OneHandlerPerEntry'
    BY <1>2 DEF Shutdown, OneHandlerPerEntry
  <1> QED BY <1>3, <1>4, <1>5 DEF Shutdown, TypeOK

\* Every step, and stuttering, keeps the invariant.
LEMMA NextIInv == IInv /\ [Next]_vars => IInv'
  <1>1. ASSUME IInv, Next
        PROVE  IInv'
    <2>1. ASSUME TombstonePanics \/ Restart
          PROVE  IInv'
      BY <1>1, <2>1, FreshLemma DEF TombstonePanics, Restart, IInv
    <2> QED BY <1>1, <2>1, DuckStep, InformStep, ForgetStep, ShutdownStep
            DEF Next, HandlerStep
  <1>2. ASSUME IInv, UNCHANGED vars
        PROVE  IInv'
    BY <1>2 DEF vars, IInv, TypeOK, OneHandlerPerEntry
  <1> QED BY <1>1, <1>2

-----------------------------------------------------------------------------
(* The theorems.                                                           *)

\* IInv is an invariant of the broker's runnable.
THEOREM Invariance == Spec => []IInv
  BY InitIInv, NextIInv, PTL DEF Spec

\* The variables keep their types.
THEOREM TypeCorrect == Spec => []TypeOK
  BY Invariance, PTL DEF IInv

\* There is never more than one handler for an entry of the maps, nor one without, and
\* exactly one while the runnable runs, for any number of Ducks, types and failures.
THEOREM OneHandler == Spec => []OneHandlerPerEntry
  BY Invariance, PTL DEF IInv

-----------------------------------------------------------------------------
(* A Duck whose events are handled.                                        *)

\* Event e is the one that tells of the state Duck d is in now.
Tells(e, d) == /\ e.name = d
               /\ IF stored[d] = Absent THEN e.op \in {"delete", "tombstone"}
                                        ELSE e = Set(d, stored[d])

\* The entry of Duck d is what RestsInformed asks of its handlers.
Settled(d) ==
    /\ stored[d].ready => informers[d] # None \/ d \in failed
    /\ stored[d] = Absent => informers[d] = None \/ d \in stuck

\* The last event of a Duck that was not handled tells of its state; when there is
\* none, its entry is settled.
EventsInv(d) ==
    /\ \A i \in 1 .. Len(events[d]) : events[d][i].name = d
    /\ events[d] # <<>> => Tells(events[d][Len(events[d])], d)
    /\ events[d] = <<>> /\ handling # Nothing /\ handling.name = d => Tells(handling, d)
    /\ Quiet(d) => Settled(d)

QueueInv == \A d \in Ducks : EventsInv(d)

\* A Duck that was appended an event that tells of its new state.
LEMMA AppendStep ==
    ASSUME TypeOK, NEW d \in Ducks, NEW e \in Event, EventsInv(d),
           events' = [events EXCEPT ![d] = Append(@, e)], Tells(e, d)'
    PROVE  EventsInv(d)'
  <1>1. /\ events[d] \in Seq(Event) /\ events'[d] = Append(events[d], e) /\ e.name = d
    BY DEF TypeOK, Tells
  <1>2. /\ Len(events[d]) \in Nat /\ Len(events'[d]) = Len(events[d]) + 1
        /\ events'[d] # <<>>
        /\ events'[d][Len(events[d]) + 1] = e
        /\ \A i \in 1 .. Len(events[d]) : events'[d][i] = events[d][i]
    BY <1>1
  <1>3. \A i \in 1 .. Len(events'[d]) : events'[d][i].name = d
    BY <1>1, <1>2 DEF EventsInv
  <1> QED BY <1>2, <1>3 DEF EventsInv, Quiet

\* Nothing changed for a Duck.
LEMMA SameStep ==
    ASSUME NEW d \in Ducks, EventsInv(d),
           events'[d] = events[d], stored'[d] = stored[d], informers'[d] = informers[d],
           d \in failed => d \in failed', d \in stuck => d \in stuck',
           handling' = handling \/ (handling' # Nothing /\ handling'.name # d
                                    /\ (handling = Nothing \/ handling.name # d))
                                \/ (handling' = Nothing /\ handling.name # d)
    PROVE  EventsInv(d)'
  BY DEF EventsInv, Quiet, Settled, Tells

\* What happens to Ducks, and the delivery of events.
LEMMA DuckQueueStep ==
    ASSUME TypeOK, QueueInv, NEW d \in Ducks,
           Write(d) \/ Delete(d) \/ MissedDelete(d) \/ Resync(d) \/ HandlerCalled(d)
    PROVE  QueueInv'
  <1> SUFFICES ASSUME NEW c \in Ducks
               PROVE  EventsInv(c)'
    BY DEF QueueInv
  <1>0. EventsInv(c) /\ EventsInv(d)
    BY DEF QueueInv
  <1>1. /\ UNCHANGED <<informers, failed, stuck>>
        /\ events \in [Ducks -> Seq(Event)] /\ stored \in [Ducks -> Duck \cup {Absent}]
    BY DEF Write, Delete, MissedDelete, Resync, HandlerCalled, regVars, TypeOK
  <1>2. CASE Write(d)
    <2>1. PICK duck \in Duck : /\ stored' = [stored EXCEPT ![d] = duck]
                               /\ events' = [events EXCEPT ![d] = Append(@, Set(d, duck))]
      BY <1>2 DEF Write
    <2>2. Set(d, duck) \in Event /\ Set(d, duck).name = d /\ duck # Absent
      BY InformersAssumption DEF Set, Event, Duck, Absent
    <2>3. Tells(Set(d, duck), d)'
      BY <1>1, <2>1, <2>2 DEF Tells
    <2>4. CASE c = d
      BY <1>0, <2>1, <2>2, <2>3, <2>4, AppendStep
    <2>5. CASE c # d
      BY <1>0, <1>1, <1>2, <2>1, <2>5, SameStep DEF Write
    <2> QED BY <2>4, <2>5
  <1>3. CASE Delete(d) \/ MissedDelete(d)
    <2>1. PICK e \in {[op |-> "delete", name |-> d], [op |-> "tombstone", name |-> d]} :
             events' = [events EXCEPT ![d] = Append(@, e)]
      BY <1>3 DEF Delete, MissedDelete
    <2>2. stored' = [stored EXCEPT ![d] = Absent] /\ handling' = handling
      BY <1>3 DEF Delete, MissedDelete
    <2>3. e \in Event /\ e.name = d /\ e.op \in {"delete", "tombstone"}
      BY DEF Event
    <2>4. Tells(e, d)'
      BY <1>1, <2>2, <2>3 DEF Tells
    <2>5. CASE c = d
      BY <1>0, <2>1, <2>3, <2>4, <2>5, AppendStep
    <2>6. CASE c # d
      BY <1>0, <1>1, <2>1, <2>2, <2>6, SameStep
    <2> QED BY <2>5, <2>6
  <1>4. CASE Resync(d)
    <2>1. /\ events' = [events EXCEPT ![d] = <<Set(d, stored[d])>>]
          /\ stored[d] # Absent /\ UNCHANGED <<stored, handling>>
      BY <1>4 DEF Resync, Listed
    <2>2. CASE c = d
      <3>1. events'[d] = <<Set(d, stored[d])>> /\ Set(d, stored[d]).name = d
        BY <1>1, <2>1 DEF Set
      <3> QED BY <2>1, <2>2, <3>1 DEF EventsInv, Quiet, Tells
    <2>3. CASE c # d
      BY <1>0, <1>1, <2>1, <2>3, SameStep
    <2> QED BY <2>2, <2>3
  <1>5. CASE HandlerCalled(d)
    <2>1. /\ handling = Nothing /\ events[d] # <<>> /\ handling' = Head(events[d])
          /\ events' = [events EXCEPT ![d] = Tail(@)] /\ UNCHANGED stored
      BY <1>5 DEF HandlerCalled
    <2>2. /\ events[d] \in Seq(Event) /\ events'[d] = Tail(events[d])
          /\ Head(events[d]) = events[d][1] /\ Head(events[d]) \in Event
          /\ Len(events[d]) \in Nat /\ Len(events[d]) >= 1
      BY <1>1, <2>1
    <2>3. handling' # Nothing /\ handling'.name = d
      BY <1>0, <2>1, <2>2 DEF EventsInv, Event, Nothing
    <2>4. CASE c = d
      <3>1. /\ Tail(events[d]) \in Seq(Event)
            /\ Len(Tail(events[d])) = Len(events[d]) - 1
            /\ \A i \in 1 .. Len(Tail(events[d])) : Tail(events[d])[i] = events[d][i + 1]
        BY <2>1, <2>2
      <3>2. \A i \in 1 .. Len(events'[d]) : events'[d][i].name = d
        BY <1>0, <2>2, <3>1 DEF EventsInv
      <3> PICK e \in Event : e = events[d][Len(events[d])]
        BY <2>2
      <3>3. Tells(e, d)'
        BY <1>0, <2>1 DEF EventsInv, Tells
      <3>4. CASE events'[d] = <<>>
        <4>1. Len(events'[d]) = 0
          BY <3>4
        <4>2. Len(events[d]) = 1
          BY <2>2, <3>1, <4>1
        <4>3. handling' = e
          BY <2>1, <2>2, <4>2
        <4>4. Tells(handling, d)'
          BY <3>3, <4>3 DEF Tells
        <4> QED BY <2>3, <2>4, <3>2, <3>4, <4>4 DEF EventsInv, Quiet
      <3>5. CASE events'[d] # <<>>
        <4>1. Len(events'[d]) \in 1 .. Len(events'[d])
          BY <2>2, <3>1, <3>5
        <4>2. events'[d][Len(events'[d])] = e
          BY <2>2, <3>1, <4>1
        <4>3. Tells(events[d][Len(events[d])], d)'
          BY <3>3, <4>2 DEF Tells
        <4> QED BY <2>4, <3>2, <3>5, <4>3 DEF EventsInv, Quiet
      <3> QED BY <3>4, <3>5
    <2>5. CASE c # d
      BY <1>0, <1>1, <2>1, <2>3, <2>5, SameStep
    <2> QED BY <2>4, <2>5
  <1> QED BY <1>2, <1>3, <1>4, <1>5

\* The handlers of Duck events.
LEMMA HandlerQueueStep ==
    ASSUME TypeOK, QueueInv,
           InformSkips \/ InformStarts \/ InformFails \/ Forget \/ ForgetFails
    PROVE  QueueInv'
  <1> SUFFICES ASSUME NEW c \in Ducks
               PROVE  EventsInv(c)'
    BY DEF QueueInv
  <1> DEFINE n == handling.name
  <1>0. EventsInv(c)
    BY DEF QueueInv
  <1>1. /\ n \in Ducks /\ handling # Nothing /\ handling.op \in {"set", "delete"}
        /\ handling' = Nothing /\ UNCHANGED <<events, stored>>
        /\ \A b \in Ducks \ {n} :
              /\ informers'[b] = informers[b]
              /\ b \in failed => b \in failed'
              /\ b \in stuck => b \in stuck'
    <2>1. n \in Ducks /\ handling # Nothing /\ handling.op \in {"set", "delete"}
      BY SetLemma, DeleteLemma
         DEF InformSkips, InformStarts, InformFails, Forget, ForgetFails, Nothing
    <2>2. handling' = Nothing /\ UNCHANGED <<events, stored>>
      BY DEF InformSkips, InformStarts, InformFails, Forget, ForgetFails
    <2>3. ASSUME NEW b \in Ducks \ {n}
          PROVE  /\ informers'[b] = informers[b]
                 /\ b \in failed => b \in failed'
                 /\ b \in stuck => b \in stuck'
      <3>1. informers \in [Ducks -> Types \cup {None}]
        BY DEF TypeOK
      <3> QED BY <3>1 DEF InformSkips, InformStarts, InformFails, Forget, ForgetFails,
                 regVars
    <2> QED BY <2>1, <2>2, <2>3
  <1>2. CASE c # n
    <2>1. /\ events'[c] = events[c] /\ stored'[c] = stored[c]
          /\ informers'[c] = informers[c]
          /\ c \in failed => c \in failed'
          /\ c \in stuck => c \in stuck'
      BY <1>1, <1>2
    <2> QED BY <1>0, <1>1, <1>2, <2>1, SameStep
  <1>3. CASE c = n
    <2>1. ASSUME Tells(handling, c)
          PROVE  Settled(c)'
      <3>0. informers \in [Ducks -> Types \cup {None}]
        BY DEF TypeOK
      <3>1. CASE handling.op = "delete"
        <4>1. stored[c] = Absent
          BY <2>1, <3>1 DEF Tells, Set
        <4>2. ~stored[c].ready
          BY <4>1 DEF Absent
        <4>3. informers'[c] = None \/ c \in stuck'
          BY <1>3, <3>0, <3>1
             DEF InformSkips, InformStarts, InformFails, Forget, ForgetFails
        <4> QED BY <1>1, <4>1, <4>2, <4>3 DEF Settled
      <3>2. CASE handling.op = "set"
        <4>1. stored[c] # Absent /\ handling = Set(c, stored[c])
          BY <2>1, <3>2 DEF Tells
        <4>2. handling.ready = stored[c].ready
          BY <4>1 DEF Set
        <4>3. handling.ready => informers'[c] # None \/ c \in failed'
          <5>1. handling.type \in Types
            BY <3>2, SetLemma
          <5> QED BY <1>3, <1>1, <3>0, <3>2, <5>1, InformersAssumption
                  DEF InformSkips, InformStarts, InformFails, Forget, ForgetFails,
                      Entry, regVars
        <4> QED BY <1>1, <4>1, <4>2, <4>3 DEF Settled
      <3> QED BY <1>1, <3>1, <3>2
    <2>2. Quiet(c)' => Tells(handling, c)
      BY <1>0, <1>1, <1>3 DEF Quiet, EventsInv
    <2> QED BY <1>0, <1>1, <2>1, <2>2 DEF EventsInv, Tells
  <1> QED BY <1>2, <1>3

\* A new process lists the Ducks.
LEMMA FreshQueueStep ==
    ASSUME TypeOK, FreshProcess
    PROVE  QueueInv'
  <1> SUFFICES ASSUME NEW d \in Ducks
               PROVE  EventsInv(d)'
    BY DEF QueueInv
  <1>1. /\ events'[d] = Listed(d) /\ handling' = Nothing /\ informers'[d] = None
        /\ stored' = stored
    BY DEF FreshProcess
  <1>2. CASE stored[d] = Absent
    <2>1. events'[d] = <<>> /\ ~stored[d].ready
      BY <1>1, <1>2 DEF Listed, Absent
    <2> QED BY <1>1, <1>2, <2>1 DEF EventsInv, Settled
  <1>3. CASE stored[d] # Absent
    <2>1. events'[d] = <<Set(d, stored[d])>> /\ Set(d, stored[d]).name = d
      BY <1>1, <1>3 DEF Listed, Set
    <2> QED BY <1>1, <1>3, <2>1 DEF EventsInv, Quiet, Tells
  <1> QED BY <1>2, <1>3

\* QueueInv is an invariant of the broker's runnable.
THEOREM QueueInvariance == Spec => []QueueInv
  <1>1. Init => QueueInv
    <2> SUFFICES ASSUME Init, NEW d \in Ducks
                 PROVE  EventsInv(d)
      BY DEF QueueInv
    <2>1. events[d] = Listed(d) /\ handling = Nothing /\ informers[d] = None
      BY DEF Init
    <2>2. CASE stored[d] = Absent
      <3>1. events[d] = <<>> /\ ~stored[d].ready
        BY <2>1, <2>2 DEF Listed, Absent
      <3> QED BY <2>1, <2>2, <3>1 DEF EventsInv, Settled
    <2>3. CASE stored[d] # Absent
      <3>1. events[d] = <<Set(d, stored[d])>> /\ Set(d, stored[d]).name = d
        BY <2>1, <2>3 DEF Listed, Set
      <3> QED BY <2>1, <2>3, <3>1 DEF EventsInv, Quiet, Tells
    <2> QED BY <2>2, <2>3
  <1>2. TypeOK /\ QueueInv /\ [Next]_vars => QueueInv'
    <2>1. ASSUME TypeOK, QueueInv, TombstonePanics \/ Restart
          PROVE  QueueInv'
      BY <2>1, FreshQueueStep DEF TombstonePanics, Restart
    <2>2. ASSUME QueueInv, Shutdown \/ UNCHANGED vars
          PROVE  QueueInv'
      <3>1. UNCHANGED <<stored, events, handling, informers, stuck, failed>>
        BY <2>2 DEF Shutdown, vars
      <3> QED BY <2>2, <3>1, SameStep DEF QueueInv
    <2> QED BY <2>1, <2>2, DuckQueueStep, HandlerQueueStep DEF Next, HandlerStep
  <1> QED BY <1>1, <1>2, TypeCorrect, PTL DEF Spec

\* Once its events are handled, in whatever order they came and whatever restarts came
\* between, a ready Duck has its handler and a deleted one has none, failures aside.
THEOREM RestInformed == Spec => []RestsInformed
  <1>1. IInv /\ QueueInv => RestsInformed
    <2> SUFFICES ASSUME IInv, NEW d \in Ducks, EventsInv(d), running, Quiet(d)
                 PROVE  /\ stored[d].ready => Informed(d) \/ d \in failed
                        /\ stored[d] = Absent => ~Informed(d) \/ d \in stuck
      BY DEF QueueInv, RestsInformed
    <2>1. Settled(d) /\ informers[d] \in Types \cup {None}
      BY DEF EventsInv, IInv, TypeOK
    <2>2. \A t \in Types : handlers[d][t] = IF informers[d] = t THEN 1 ELSE 0
      BY DEF IInv, OneHandlerPerEntry
    <2>3. informers[d] # None <=> Informed(d)
      BY <2>1, <2>2, InformersAssumption DEF Informed
    <2> QED BY <2>1, <2>3 DEF Settled
  <1> QED BY <1>1, Invariance, QueueInvariance, PTL

=============================================================================
