------------------------ MODULE DuckReconcilerProofs ------------------------
(***************************************************************************)
(* Proofs about DuckReconciler for any kinds and any bounds: its type      *)
(* invariant and NoLostChange.                                             *)
(*                                                                         *)
(* NoLostChange speaks of states at rest only.  IInv says what must hold   *)
(* before: the definition is tracked by the time discovery is read, and    *)
(* what a request has found out is right unless something is queued.       *)
(***************************************************************************)
EXTENDS DuckReconciler, TLAPS

\* The request in progress has got so far without an error.
Past(pcs) == worker # Idle /\ worker.pc \in pcs /\ ~worker.err

\* Once discovery is read, or was read without an error, events of the
\* definition are heard.
TrackInv ==
    /\ At("idle") /\ ~queued => tracked
    /\ Past({"discover", "status"}) => tracked

\* A request that nothing follows works on the copy in the cache.
CopyInv == worker # Idle /\ ~queued => worker.old = cache

\* Errors only come with the status step.
ErrInv == worker # Idle /\ worker.err => At("status")

\* No event of the definition and no late change of discovery is outstanding.
Heard == ~queued /\ crdEvents = 0 /\ ~late

AvailableInv ==
    /\ At("idle") /\ Heard /\ cache = duck => duck.available = Verdict(duck)
    /\ Past({"status"}) /\ Heard => worker.duck.available = Verdict(worker.duck)

RolesInv ==
    /\ At("idle") /\ ~queued /\ ~roleEvent /\ cache = duck /\ duck.rbac = "True"
          => roles = "ours"
    /\ Past({"track", "discover", "status"}) /\ ~queued /\ ~roleEvent
          /\ worker.duck.rbac = "True" => roles = "ours"

IInv == TypeOK /\ TrackInv /\ CopyInv /\ ErrInv /\ AvailableInv /\ RolesInv

-----------------------------------------------------------------------------
(* Helpers.                                                                *)

\* The worker is idle exactly when its program counter says so.
LEMMA IdleLemma ==
    ASSUME TypeOK
    PROVE  At("idle") <=> worker = Idle
  BY DEF TypeOK, At, Idle

\* A request in progress is a record of four fields.
LEMMA BusyLemma ==
    ASSUME TypeOK, ~At("idle")
    PROVE  /\ worker \in [pc : {"roles", "track", "discover", "status"}, old : Duck,
                          duck : Duck, err : BOOLEAN]
           /\ worker # Idle
           /\ worker.old.rv <= duck.rv
           /\ worker.duck.rv = worker.old.rv
  BY DEF TypeOK, At, Idle

\* The typing of a request in progress, as a state predicate.
BusyOK(w, d) ==
    /\ w \in [pc : {"roles", "track", "discover", "status"}, old : Duck, duck : Duck,
              err : BOOLEAN]
    /\ w.old.rv <= d.rv
    /\ w.duck.rv = w.old.rv

\* The verdict is a status.
LEMMA VerdictLemma == \A d : Verdict(d) \in Status
  BY DEF Verdict, Status

-----------------------------------------------------------------------------
(* Types.                                                                  *)

\* The initial states are typed.
LEMMA InitTypeOK == Init => TypeOK
  <1> SUFFICES ASSUME Init PROVE TypeOK
    OBVIOUS
  <1>1. duck \in Duck /\ cache = duck
    BY DEF Init, Duck, Status
  <1>2. cache.rv <= duck.rv
    BY <1>1 DEF Duck
  <1>3. changes \in 0 .. MaxChanges /\ faults \in 0 .. MaxFaults
    BY DuckAssumption DEF Init
  <1>4. worker = Idle /\ crdEvents \in Nat
    BY DEF Init
  <1> QED BY <1>1, <1>2, <1>3, <1>4 DEF Init, TypeOK

\* A new version of the Duck is typed and newer than all copies.
LEMMA NewVersion ==
    ASSUME TypeOK, duck' \in Duck, duck'.rv = duck.rv + 1
    PROVE  /\ cache.rv <= duck'.rv /\ cache # duck'
           /\ ~At("idle") => worker.old.rv <= duck'.rv
  <1>1. duck.rv \in Nat /\ cache.rv \in Nat /\ cache.rv <= duck.rv
    BY DEF TypeOK, Duck
  <1>2. ~At("idle") => worker.old.rv \in Nat /\ worker.old.rv <= duck.rv
    BY BusyLemma DEF Duck
  <1> QED BY <1>1, <1>2

\* A failure counted keeps the bound.
LEMMA FaultLemma ==
    ASSUME TypeOK, Fault
    PROVE  faults' \in 0 .. MaxFaults
  <1>1. faults \in 0 .. MaxFaults
    BY DEF TypeOK
  <1> QED BY <1>1, DuckAssumption DEF Fault

\* Steps outside the worker keep the types.
LEMMA OutsideTypeOK ==
    ASSUME TypeOK,
           \/ Edit \/ ChangeDefinition \/ DiscoveryChanges \/ ChangeRoles
           \/ CacheSync \/ DefinitionEvent \/ RoleEvent \/ Resync \/ Restart
    PROVE  TypeOK'
  <1>1. CASE Edit
    <2>1. duck' \in Duck /\ duck'.rv = duck.rv + 1
      <3>1. PICK k \in Kinds, g \in BOOLEAN :
               duck' = [duck EXCEPT !.rv = @ + 1, !.kind = k, !.group = g]
        BY <1>1 DEF Edit
      <3>2. duck \in Duck
        BY DEF TypeOK
      <3>3. duck' = [rv |-> duck.rv + 1, kind |-> k, group |-> g, rbac |-> duck.rbac,
                     available |-> duck.available]
        BY <3>1, <3>2 DEF Duck
      <3> QED BY <3>2, <3>3 DEF Duck
    <2>2. cache.rv <= duck'.rv /\ (~At("idle") => worker.old.rv <= duck'.rv)
      BY <2>1, NewVersion
    <2>3. changes' \in 0 .. MaxChanges
      <3>1. Change
        BY <1>1 DEF Edit
      <3>2. changes \in 0 .. MaxChanges
        BY DEF TypeOK
      <3> QED BY <3>1, <3>2, DuckAssumption DEF Change
    <2>4. worker' = Idle \/ BusyOK(worker', duck')
      BY <1>1, <2>2, IdleLemma, BusyLemma DEF Edit, BusyOK
    <2>5. UNCHANGED <<cache, queued, tracked, crd, crdEvents, api, late, roles, roleEvent,
                      faults>>
      BY <1>1 DEF Edit, dependencyVars, roleVars
    <2> HIDE <1>1
    <2> QED BY <2>1, <2>2, <2>3, <2>4, <2>5 DEF TypeOK, BusyOK
  <1>2. CASE ChangeDefinition
    BY <1>2, DuckAssumption DEF ChangeDefinition, Change, TypeOK, roleVars
  <1>3. CASE DiscoveryChanges
    BY <1>3 DEF DiscoveryChanges, TypeOK, roleVars
  <1>4. CASE ChangeRoles
    BY <1>4, DuckAssumption DEF ChangeRoles, Change, TypeOK, dependencyVars
  <1>5. CASE CacheSync
    BY <1>5 DEF CacheSync, TypeOK, Duck, dependencyVars, roleVars
  <1>6. CASE DefinitionEvent
    BY <1>6 DEF DefinitionEvent, TypeOK, roleVars
  <1>7. CASE RoleEvent
    BY <1>7 DEF RoleEvent, TypeOK, dependencyVars
  <1>8. CASE Resync
    BY <1>8 DEF Resync, TypeOK, dependencyVars, roleVars
  <1>9. CASE Restart
    <2>1. faults' \in 0 .. MaxFaults
      BY <1>9, FaultLemma DEF Restart
    <2>2. duck.rv <= duck.rv
      BY DEF TypeOK, Duck
    <2>3. crdEvents' \in Nat
      BY <1>9 DEF Restart
    <2> QED BY <1>9, <2>1, <2>2, <2>3 DEF Restart, TypeOK
  <1> QED BY <1>1, <1>2, <1>3, <1>4, <1>5, <1>6, <1>7, <1>8, <1>9

\* Steps of the worker keep the types.
LEMMA WorkerTypeOK ==
    ASSUME TypeOK, WorkerStep
    PROVE  TypeOK'
  <1>1. CASE Dequeue
    <2>1. worker' = [pc |-> "roles", old |-> cache, duck |-> cache, err |-> FALSE]
      BY <1>1 DEF Dequeue
    <2>2. BusyOK(worker', duck)
      BY <2>1 DEF BusyOK, TypeOK
    <2> QED BY <1>1, <2>2 DEF Dequeue, TypeOK, BusyOK, dependencyVars, roleVars
  <1>2. CASE ReconcileRoles \/ RolesSeenLate \/ RolesInvalid
    <2>1. PICK b \in Status : worker' = [worker EXCEPT !.pc = "track", !.duck.rbac = b]
      BY <1>2 DEF ReconcileRoles, RolesSeenLate, RolesInvalid, Status
    <2>2. worker' = [pc |-> "track", old |-> worker.old,
                     duck |-> [worker.duck EXCEPT !.rbac = b], err |-> worker.err]
      BY <1>2, <2>1, BusyLemma DEF ReconcileRoles, RolesSeenLate, RolesInvalid, At
    <2>3. BusyOK(worker', duck)
      BY <1>2, <2>2, BusyLemma
         DEF BusyOK, Duck, ReconcileRoles, RolesSeenLate, RolesInvalid, At
    <2>4. faults' \in 0 .. MaxFaults
      <3>1. CASE RolesInvalid
        BY <3>1, FaultLemma DEF RolesInvalid
      <3> QED BY <1>2, <3>1 DEF ReconcileRoles, RolesSeenLate, TypeOK
    <2>5. roles' \in {"absent", "ours", "drifted", "foreign"}
      BY <1>2 DEF ReconcileRoles, RolesSeenLate, RolesInvalid, roleVars, TypeOK
    <2>6. UNCHANGED <<duck, cache, queued, tracked, crd, crdEvents, api, late, roleEvent,
                      changes>>
      BY <1>2 DEF ReconcileRoles, RolesSeenLate, RolesInvalid, roleVars, dependencyVars
    <2> HIDE <1>2
    <2> QED BY <2>3, <2>4, <2>5, <2>6 DEF TypeOK, BusyOK
  <1>3. CASE Track
    <2>1. BusyOK(worker', duck)
      BY <1>3, BusyLemma DEF BusyOK, Track, At
    <2> QED BY <1>3, <2>1 DEF Track, TypeOK, BusyOK, dependencyVars, roleVars
  <1>4. ASSUME NEW d \in Duck, NEW e \in BOOLEAN, ToStatus(d, e), d.rv = worker.old.rv,
               ~At("idle")
        PROVE  BusyOK(worker', duck)
    BY <1>4, BusyLemma DEF BusyOK, ToStatus
  <1>5. CASE RolesFail
    <2>1. /\ [worker.duck EXCEPT !.rbac = "Unknown"] \in Duck
          /\ [worker.duck EXCEPT !.rbac = "Unknown"].rv = worker.old.rv
      BY <1>5, BusyLemma DEF RolesFail, At, Duck, Status
    <2>2. BusyOK(worker', duck)
      BY <1>4, <1>5, <2>1 DEF RolesFail, At
    <2>3. faults' \in 0 .. MaxFaults
      BY <1>5, FaultLemma DEF RolesFail
    <2> QED BY <1>5, <2>2, <2>3 DEF RolesFail, TypeOK, BusyOK, dependencyVars, roleVars
  <1>6. CASE Discover
    <2> DEFINE d == [worker.duck EXCEPT !.available = Verdict(worker.duck)]
    <2>1. d \in Duck /\ d.rv = worker.old.rv
      BY <1>6, BusyLemma, VerdictLemma DEF Discover, At, Duck
    <2>2. ToStatus(d, FALSE) /\ ~At("idle")
      BY <1>6 DEF Discover, At
    <2> HIDE DEF d
    <2>3. BusyOK(worker', duck)
      BY <1>4, <2>1, <2>2
    <2> QED BY <1>6, <2>3 DEF Discover, TypeOK, BusyOK, roleVars
  <1>7. CASE DesiredChildrenFail \/ DiscoveryFails
    <2>1. BusyOK(worker', duck)
      BY <1>4, <1>7, BusyLemma DEF DesiredChildrenFail, DiscoveryFails, At
    <2>2. faults' \in 0 .. MaxFaults
      BY <1>7, FaultLemma DEF DesiredChildrenFail, DiscoveryFails
    <2> QED BY <1>7, <2>1, <2>2
            DEF DesiredChildrenFail, DiscoveryFails, TypeOK, BusyOK, dependencyVars,
                roleVars
  <1>8. CASE StatusUnchanged \/ StatusConflict
    <2>1. worker' = Idle /\ queued' \in BOOLEAN
      BY <1>8, BusyLemma DEF StatusUnchanged, StatusConflict, Return, TypeOK, At
    <2> QED BY <1>8, <2>1 DEF StatusUnchanged, StatusConflict, TypeOK, dependencyVars,
            roleVars
  <1>9. CASE StatusFails
    <2>1. worker' = Idle /\ queued' \in BOOLEAN
      BY <1>9 DEF StatusFails, Return, TypeOK
    <2>2. faults' \in 0 .. MaxFaults
      BY <1>9, FaultLemma DEF StatusFails
    <2> QED BY <1>9, <2>1, <2>2 DEF StatusFails, TypeOK, dependencyVars, roleVars
  <1>10. CASE StatusUpdate
    <2>1. worker' = Idle /\ queued' \in BOOLEAN
      BY <1>10, BusyLemma DEF StatusUpdate, Return, TypeOK, At
    <2>2. duck' \in Duck /\ duck'.rv = duck.rv + 1
      BY <1>10, BusyLemma DEF StatusUpdate, At, Duck
    <2>3. cache.rv <= duck'.rv
      BY <2>2, NewVersion
    <2> QED BY <1>10, <2>1, <2>2, <2>3
            DEF StatusUpdate, TypeOK, dependencyVars, roleVars
  <1> QED BY <1>1, <1>2, <1>3, <1>5, <1>6, <1>7, <1>8, <1>9, <1>10 DEF WorkerStep

-----------------------------------------------------------------------------
(* The inductive invariant.                                                *)

\* The initial states have the Duck in the queue and the worker idle.
LEMMA InitIInv == Init => IInv
  BY InitTypeOK DEF Init, IInv, TrackInv, CopyInv, ErrInv, AvailableInv, RolesInv, Past,
     Idle, At, Heard

\* A step that leaves the Duck in the queue and the worker idle keeps the rest
\* of the invariant.
LEMMA QueuedIdle ==
    ASSUME worker' = Idle, queued'
    PROVE  TrackInv' /\ CopyInv' /\ ErrInv' /\ AvailableInv' /\ RolesInv'
  BY DEF TrackInv, CopyInv, ErrInv, AvailableInv, RolesInv, Past, Heard, At, Idle

\* A step that only puts the Duck in the queue, or finds it there, keeps it too.
LEMMA QueuedSame ==
    ASSUME IInv, worker' = worker, tracked' = tracked, queued'
    PROVE  TrackInv' /\ CopyInv' /\ ErrInv' /\ AvailableInv' /\ RolesInv'
  BY DEF IInv, TrackInv, CopyInv, ErrInv, AvailableInv, RolesInv, Past, Heard, At

\* What is true of a request that goes on carries over.
LEMMA OutsideStep ==
    ASSUME IInv, TypeOK',
           \/ Edit \/ ChangeDefinition \/ DiscoveryChanges \/ ChangeRoles
           \/ CacheSync \/ DefinitionEvent \/ RoleEvent \/ Resync \/ Restart
    PROVE  TrackInv' /\ CopyInv' /\ ErrInv' /\ AvailableInv' /\ RolesInv'
  <1> USE DEF IInv
  <1>1. CASE Edit
    <2>1. duck' \in Duck /\ duck'.rv = duck.rv + 1
      BY <1>1 DEF Edit, TypeOK, Duck
    <2>2. cache' # duck'
      BY <1>1, <2>1, NewVersion DEF Edit
    <2>3. UNCHANGED <<cache, queued, worker, tracked, crdEvents, api, late, roles,
                      roleEvent>>
      BY <1>1 DEF Edit, dependencyVars, roleVars
    <2> QED BY <2>2, <2>3 DEF TrackInv, CopyInv, ErrInv, AvailableInv, RolesInv, Past,
            Heard, At, Verdict
  <1>2. CASE ChangeDefinition
    <2>1. crdEvents' # 0
      BY <1>2 DEF ChangeDefinition, TypeOK
    <2> QED BY <1>2, <2>1 DEF ChangeDefinition, roleVars, TrackInv, CopyInv, ErrInv,
            AvailableInv, RolesInv, Past, Heard, At
  <1>3. CASE DiscoveryChanges
    BY <1>3 DEF DiscoveryChanges, roleVars, TrackInv, CopyInv, ErrInv, AvailableInv,
       RolesInv, Past, Heard, At
  <1>4. CASE ChangeRoles
    BY <1>4 DEF ChangeRoles, dependencyVars, TrackInv, CopyInv, ErrInv, AvailableInv,
       RolesInv, Past, Heard, At, Verdict
  <1>5. CASE CacheSync \/ RoleEvent \/ Resync
    BY <1>5, QueuedSame DEF CacheSync, RoleEvent, Resync
  <1>6. CASE DefinitionEvent
    <2>1. CASE queued'
      BY <1>6, <2>1, QueuedSame DEF DefinitionEvent
    <2>2. CASE ~queued'
      <3>1. ~queued /\ ~tracked
        BY <1>6, <2>2 DEF DefinitionEvent
      <3>2. worker # Idle /\ ~Past({"discover", "status"})
        BY <3>1, IdleLemma DEF TrackInv
      <3> QED BY <1>6, <3>1, <3>2, IdleLemma DEF DefinitionEvent, roleVars, TrackInv,
              CopyInv, ErrInv, AvailableInv, RolesInv, Past, Heard, At, Verdict
    <2> QED BY <2>1, <2>2
  <1>7. CASE Restart
    BY <1>7, QueuedIdle DEF Restart
  <1> QED BY <1>1, <1>2, <1>3, <1>4, <1>5, <1>6, <1>7

\* Steps of the worker.
LEMMA WorkerInvStep ==
    ASSUME IInv, TypeOK', WorkerStep
    PROVE  TrackInv' /\ CopyInv' /\ ErrInv' /\ AvailableInv' /\ RolesInv'
  <1> USE DEF IInv
  <1>1. CASE Dequeue
    <2>1. /\ worker' = [pc |-> "roles", old |-> cache, duck |-> cache, err |-> FALSE]
          /\ cache' = cache
      BY <1>1 DEF Dequeue
    <2> QED BY <2>1 DEF TrackInv, CopyInv, ErrInv, AvailableInv, RolesInv, Past, Heard,
            At, Idle
  <1>2. CASE ReconcileRoles \/ RolesSeenLate \/ RolesInvalid
    <2>1. PICK b \in Status : /\ worker' = [worker EXCEPT !.pc = "track", !.duck.rbac = b]
                              /\ b = "True" => roles' = "ours" \/ roleEvent'
      <3>1. CASE ReconcileRoles /\ roles = "foreign"
        BY <3>1 DEF ReconcileRoles, Status
      <3>2. CASE ReconcileRoles /\ roles # "foreign"
        BY <3>2 DEF ReconcileRoles, Status
      <3>3. CASE RolesSeenLate
        BY <3>3 DEF RolesSeenLate, roleVars, Status
      <3>4. CASE RolesInvalid
        BY <3>4 DEF RolesInvalid, Status
      <3> QED BY <1>2, <3>1, <3>2, <3>3, <3>4
    <2>2. worker' = [pc |-> "track", old |-> worker.old,
                     duck |-> [worker.duck EXCEPT !.rbac = b], err |-> worker.err]
      BY <1>2, <2>1, BusyLemma DEF ReconcileRoles, RolesSeenLate, RolesInvalid, At
    <2>3. b = "True" => roles' = "ours" \/ roleEvent'
      BY <2>1
    <2>4. worker'.duck.rbac = b
      <3>1. worker.duck \in Duck
        BY <1>2, BusyLemma DEF ReconcileRoles, RolesSeenLate, RolesInvalid, At
      <3>2. [worker.duck EXCEPT !.rbac = b].rbac = b
        BY <3>1 DEF Duck
      <3> QED BY <2>2, <3>2
    <2>5. ~worker.err /\ worker # Idle
      BY <1>2, IdleLemma DEF ErrInv, ReconcileRoles, RolesSeenLate, RolesInvalid, At
    <2>6. UNCHANGED <<cache, queued, tracked>>
      BY <1>2 DEF ReconcileRoles, RolesSeenLate, RolesInvalid
    <2> QED BY <2>2, <2>3, <2>4, <2>5, <2>6 DEF TrackInv, CopyInv, ErrInv, AvailableInv,
            RolesInv, Past, Heard, At, Idle
  <1>3. CASE Track
    <2>1. worker' = [pc |-> "discover", old |-> worker.old, duck |-> worker.duck,
                     err |-> worker.err]
      BY <1>3, BusyLemma DEF Track, At
    <2>2. ~worker.err /\ worker # Idle /\ At("track")
      BY <1>3, IdleLemma DEF ErrInv, Track, At
    <2>3. UNCHANGED <<cache, queued, roles, roleEvent>> /\ tracked'
      BY <1>3 DEF Track, roleVars
    <2> QED BY <2>1, <2>2, <2>3 DEF TrackInv, CopyInv, ErrInv, AvailableInv,
            RolesInv, Past, Heard, At, Idle
  <1>4. CASE DesiredChildrenFail \/ RolesFail \/ DiscoveryFails
    <2>1. PICK d : worker' = [pc |-> "status", old |-> worker.old, duck |-> d,
                              err |-> TRUE]
      BY <1>4, BusyLemma DEF DesiredChildrenFail, RolesFail, DiscoveryFails, ToStatus, At
    <2>2. UNCHANGED <<cache, queued, tracked>> /\ worker # Idle
      BY <1>4, IdleLemma DEF DesiredChildrenFail, RolesFail, DiscoveryFails, At
    <2> QED BY <2>1, <2>2 DEF TrackInv, CopyInv, ErrInv, AvailableInv, RolesInv, Past,
            Heard, At, Idle
  <1>5. CASE Discover
    <2> DEFINE d == [worker.duck EXCEPT !.available = Verdict(worker.duck)]
    <2>1. worker' = [pc |-> "status", old |-> worker.old, duck |-> d, err |-> FALSE]
      BY <1>5, BusyLemma DEF Discover, ToStatus, At
    <2>2. /\ d.available = Verdict(d) /\ d.rbac = worker.duck.rbac
      BY <1>5, BusyLemma DEF Discover, At, Duck, Verdict
    <2>3. /\ UNCHANGED <<cache, queued, tracked, api, roles, roleEvent>>
          /\ worker # Idle /\ ~worker.err /\ At("discover")
      BY <1>5, IdleLemma DEF Discover, At, roleVars, ErrInv
    <2> HIDE DEF d
    <2>4. (worker.duck.available = Verdict(worker.duck))'
      BY <2>1, <2>2, <2>3 DEF Verdict
    <2> QED BY <2>1, <2>2, <2>3, <2>4 DEF TrackInv, CopyInv, ErrInv, AvailableInv,
            RolesInv, Past, Heard, At, Idle, Verdict
  <1>6. CASE StatusConflict \/ StatusFails
    BY <1>6, QueuedIdle DEF StatusConflict, StatusFails, Return
  <1>7. CASE (StatusUnchanged \/ StatusUpdate) /\ (queued \/ worker.err)
    BY <1>7, QueuedIdle DEF StatusUnchanged, StatusUpdate, Return
  <1>8. CASE StatusUnchanged /\ ~queued /\ ~worker.err
    <2>1. /\ worker' = Idle /\ Past({"status"}) /\ worker.duck = worker.old
          /\ UNCHANGED <<duck, cache, tracked, crdEvents, api, late, roles, roleEvent>>
          /\ worker # Idle
      BY <1>8, IdleLemma DEF StatusUnchanged, Return, dependencyVars, roleVars, Past, At
    <2>2. worker.duck = cache
      BY <1>8, <2>1 DEF CopyInv
    <2> QED BY <1>8, <2>1, <2>2 DEF TrackInv, CopyInv, ErrInv, AvailableInv, RolesInv,
            Past, Heard, At, Idle, Verdict
  <1>9. CASE StatusUpdate /\ ~queued /\ ~worker.err
    <2>1. /\ worker' = Idle /\ Past({"status"}) /\ UNCHANGED <<cache, tracked>>
      BY <1>9, IdleLemma DEF StatusUpdate, Return, Past, At
    <2>2. duck' \in Duck /\ duck'.rv = duck.rv + 1
      BY <1>9, BusyLemma DEF StatusUpdate, At, Duck
    <2>3. cache' # duck'
      BY <2>1, <2>2, NewVersion
    <2> QED BY <2>1, <2>3 DEF TrackInv, CopyInv, ErrInv, AvailableInv, RolesInv,
            Past, Heard, At, Idle
  <1> QED BY <1>1, <1>2, <1>3, <1>4, <1>5, <1>6, <1>7, <1>8, <1>9 DEF WorkerStep

\* Every step, and stuttering, keeps the invariant.
LEMMA NextIInv == IInv /\ [Next]_vars => IInv'
  <1>1. ASSUME IInv, Next
        PROVE  IInv'
    <2>1. TypeOK'
      BY <1>1, OutsideTypeOK, WorkerTypeOK DEF IInv, Next
    <2> QED BY <1>1, <2>1, OutsideStep, WorkerInvStep DEF IInv, Next
  <1>2. ASSUME IInv, UNCHANGED vars
        PROVE  IInv'
    BY <1>2 DEF vars, IInv, TypeOK, TrackInv, CopyInv, ErrInv, AvailableInv, RolesInv,
       Past, Heard, At, Verdict
  <1> QED BY <1>1, <1>2

-----------------------------------------------------------------------------
(* The theorems.                                                           *)

\* IInv is an invariant of the Duck controller.
THEOREM Invariance == Spec => []IInv
  BY InitIInv, NextIInv, PTL DEF Spec

\* The variables keep their types, and no copy is newer than the stored Duck.
THEOREM TypeCorrect == Spec => []TypeOK
  BY Invariance, PTL DEF IInv

\* Whatever happens, and however often calls fail, the Duck controller does not
\* come to rest with conditions that an event it was sent contradicts.
THEOREM NothingLost == Spec => []NoLostChange
  <1>1. IInv => NoLostChange
    BY DEF IInv, AvailableInv, RolesInv, NoLostChange, Settled, Heard
  <1> QED BY <1>1, Invariance, PTL

=============================================================================
