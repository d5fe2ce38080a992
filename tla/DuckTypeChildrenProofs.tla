----------------------- MODULE DuckTypeChildrenProofs -----------------------
(***************************************************************************)
(* Proofs about DuckTypeChildren, for any Ducks, values of .spec and       *)
(* bounds.                                                                 *)
(***************************************************************************)
EXTENDS DuckTypeChildren, TLAPS

(* RestsReconciled speaks of rest only.  IInv says what a request in       *)
(* progress knows, unless the DuckType is queued again or the event of a   *)
(* child is still to come.                                                 *)

\* A copy of a child that belongs to the DuckType, or whose original does, is
\* that original unless an event is still to come.
WatchInv ==
    /\ "role" \notin pending /\ "us" \in {role.owner, roleCache.owner} => roleCache = role
    /\ "crd" \notin pending /\ "us" \in {crd.owner, crdCache.owner} => crdCache = crd

\* A request that is not followed by another works on the cached DuckType.
CopyInv == worker # Idle /\ ~queued => worker.old = typeCache

\* A request fails only on its way to the status.
ErrInv == worker # Idle /\ worker.err => At("status")

\* What t says of the definition, and of the roles, is right.
DefinitionRight(t) ==
    /\ crd.owner = "us" /\ t.spec \notin Refused =>
          crd.spec = t.spec /\ t.established = crd.established
    /\ t.established = "True" => crd.owner = "us" /\ t.spec \notin Refused

RolesRight(t) == t.rbac = "True" => role.owner = "us" /\ role.good

\* It is right of a request past the child, and of the DuckType at rest.
DefinitionInv ==
    ~queued /\ "crd" \notin pending =>
        /\ worker = Idle /\ "type" \notin behind => DefinitionRight(type)
        /\ worker # Idle /\ At("status") /\ ~worker.err => DefinitionRight(worker.type)

RolesInv ==
    ~queued /\ "role" \notin pending =>
        /\ worker = Idle /\ "type" \notin behind => RolesRight(type)
        /\ worker # Idle /\ ~At("roles") /\ ~worker.err => RolesRight(worker.type)

IInv == TypeOK /\ WatchInv /\ CopyInv /\ ErrInv /\ DefinitionInv /\ RolesInv

-----------------------------------------------------------------------------
(* Types.                                                                  *)

Request == [pc : {"roles", "definition", "status"}, old : DuckType, type : DuckType,
            current : BOOLEAN, err : BOOLEAN]

RequestOK(w, t) ==
    /\ w \in Request
    /\ w.type.spec = w.old.spec
    /\ w.current => w.old = t

\* The parts of TypeOK.
StoresOK ==
    /\ type \in DuckType /\ typeCache \in DuckType
    /\ role \in Role /\ roleCache \in Role
    /\ crd \in Definition /\ crdCache \in Definition
    /\ crd.spec \notin Refused

WatchOK ==
    /\ behind \subseteq {"type", "role", "crd"} /\ pending \subseteq behind \ {"type"}
    /\ "type" \notin behind => typeCache = type
    /\ "role" \notin behind => roleCache = role
    /\ "crd" \notin behind => crdCache = crd

WorkerOK == worker = Idle \/ RequestOK(worker, type)

RestOK ==
    /\ granted \subseteq Ducks
    /\ queued \in BOOLEAN
    /\ changes \in 0 .. MaxChanges

\* TypeOK, which the code's stores and requests keep, is made of these parts.
LEMMA Parts == TypeOK <=> StoresOK /\ WatchOK /\ WorkerOK /\ RestOK
  BY DEF TypeOK, StoresOK, WatchOK, WorkerOK, RestOK, Request, RequestOK

\* So it is after a step.
LEMMA PartsPrime == (StoresOK /\ WatchOK /\ WorkerOK /\ RestOK)' => TypeOK'
  BY DEF TypeOK, StoresOK, WatchOK, WorkerOK, RestOK, Request, RequestOK

\* A worker is idle when its pc says so.
LEMMA IdleLemma == WorkerOK => (worker = Idle <=> At("idle"))
  BY DEF WorkerOK, RequestOK, Request, Idle, At

\* The bounds hold after a change and after a fault.
LEMMA Bounds ==
    ASSUME RestOK
    PROVE  /\ Change => changes' \in 0 .. MaxChanges
           /\ Fault => changes' \in 0 .. MaxChanges
  BY ChildrenAssumption DEF RestOK, Change, Fault

\* Steps that write the roles, and nothing else of the stores.
LEMMA RoleWritten ==
    ASSUME StoresOK, WatchOK, NEW r \in Role, WriteRole(r),
           UNCHANGED <<typeVars, roleCache, crdVars>>
    PROVE  StoresOK' /\ WatchOK'
  BY DEF StoresOK, WatchOK, WriteRole, typeVars, crdVars

\* Steps that write the definition, and nothing else of the stores.
LEMMA DefinitionWritten ==
    ASSUME StoresOK, WatchOK, NEW d \in Definition, d.spec \notin Refused,
           WriteDefinition(d), UNCHANGED <<typeVars, roleVars, crdCache>>
    PROVE  StoresOK' /\ WatchOK'
  BY DEF StoresOK, WatchOK, WriteDefinition, typeVars, roleVars

\* Steps that leave the stores alone.
LEMMA StoresKept ==
    ASSUME StoresOK, WatchOK, UNCHANGED storeVars
    PROVE  StoresOK' /\ WatchOK'
  BY DEF StoresOK, WatchOK, storeVars, typeVars, roleVars, crdVars, watchVars

\* The request after the roles.
LEMMA AfterRoles ==
    ASSUME WorkerOK, At("roles"), NEW s \in Status, NEW e \in BOOLEAN, RolesDone(s, e)
    PROVE  /\ worker' = [pc |-> IF e THEN "status" ELSE "definition", old |-> worker.old,
                         type |-> [spec |-> worker.type.spec, rbac |-> s,
                                   established |-> worker.type.established],
                         current |-> worker.current, err |-> e]
           /\ RequestOK(worker', type)
  <1>1. RequestOK(worker, type)
    BY DEF WorkerOK, At, Idle
  <1>2. worker' = [pc |-> IF e THEN "status" ELSE "definition", old |-> worker.old,
                   type |-> [spec |-> worker.type.spec, rbac |-> s,
                             established |-> worker.type.established],
                   current |-> worker.current, err |-> e]
    BY <1>1 DEF RequestOK, Request, DuckType, RolesDone
  <1>3. RequestOK(worker', type)
    BY <1>1, <1>2 DEF RequestOK, Request, DuckType
  <1> QED BY <1>2, <1>3

\* The request after the definition.
LEMMA AfterDefinition ==
    ASSUME WorkerOK, At("definition"), NEW s \in Status, NEW e \in BOOLEAN,
           DefinitionDone(s, e)
    PROVE  /\ worker' = [pc |-> "status", old |-> worker.old,
                         type |-> [spec |-> worker.type.spec, rbac |-> worker.type.rbac,
                                   established |-> s],
                         current |-> worker.current, err |-> e]
           /\ RequestOK(worker', type)
  <1>1. RequestOK(worker, type)
    BY DEF WorkerOK, At, Idle
  <1>2. worker' = [pc |-> "status", old |-> worker.old,
                   type |-> [spec |-> worker.type.spec, rbac |-> worker.type.rbac,
                             established |-> s],
                   current |-> worker.current, err |-> e]
    BY <1>1 DEF RequestOK, Request, DuckType, DefinitionDone
  <1>3. RequestOK(worker', type)
    BY <1>1, <1>2 DEF RequestOK, Request, DuckType
  <1> QED BY <1>2, <1>3

\* The initial states are typed.
LEMMA InitTypeOK == Init => TypeOK
  <1> SUFFICES ASSUME Init PROVE StoresOK /\ WatchOK /\ WorkerOK /\ RestOK
    BY Parts
  <1>1. StoresOK
    BY ChildrenAssumption DEF Init, StoresOK, DuckType, Role, Definition, Owner, Status
  <1>2. WatchOK /\ WorkerOK
    BY DEF Init, WatchOK, WorkerOK
  <1>3. RestOK
    BY ChildrenAssumption DEF Init, RestOK
  <1> QED BY <1>1, <1>2, <1>3

\* Steps outside the worker.
Outside ==
    \/ Edit \/ ChangeRole \/ ChangeDefinition \/ Grant \/ Aggregate \/ Establish
    \/ TypeSync \/ RoleSync \/ DefinitionSync \/ Resync \/ Restart

\* Others write roles that are roles.
LEMMA OthersWriteRole ==
    ASSUME StoresOK, RestOK, ChangeRole \/ Aggregate
    PROVE  \E r \in Role : WriteRole(r)
  <1>1. role \in Role /\ granted \subseteq Ducks
    BY DEF StoresOK, RestOK
  <1>2. [role EXCEPT !.good = FALSE] \in Role
    BY <1>1 DEF Role
  <1>3. [owner |-> "none", good |-> FALSE, rules |-> {}] \in Role
    BY DEF Role, Owner
  <1>4. [role EXCEPT !.owner = "other"] \in Role
    BY <1>1 DEF Role, Owner
  <1>5. [role EXCEPT !.rules = granted] \in Role
    BY <1>1 DEF Role
  <1> QED BY <1>2, <1>3, <1>4, <1>5 DEF ChangeRole, Aggregate

\* The same for the definition: the API server stores none that it refuses.
LEMMA OthersWriteDefinition ==
    ASSUME StoresOK, ChangeDefinition \/ Establish
    PROVE  \E d \in Definition : d.spec \notin Refused /\ WriteDefinition(d)
  <1> DEFINE OK(d) == d \in Definition /\ d.spec \notin Refused
  <1>1. crd \in Definition /\ crd.spec \notin Refused
    BY DEF StoresOK
  <1>2. \A t \in Specs \ Refused : OK([crd EXCEPT !.spec = t])
    BY <1>1 DEF Definition
  <1>3. /\ OK([owner |-> "none", spec |-> NoSpec, established |-> "Unknown"])
        /\ OK([crd EXCEPT !.owner = "other"])
        /\ OK([crd EXCEPT !.established = "False"])
        /\ OK([crd EXCEPT !.established = "True"])
    BY <1>1, ChildrenAssumption DEF Definition, Owner, Status
  <1>4. CASE ChangeDefinition
    <2>1. CASE \E t \in Specs \ (Refused \cup {crd.spec}) :
                  WriteDefinition([crd EXCEPT !.spec = t])
      BY <1>2, <2>1
    <2>2. CASE \/ WriteDefinition([owner |-> "none", spec |-> NoSpec, established |-> "Unknown"])
               \/ WriteDefinition([crd EXCEPT !.owner = "other"])
      BY <1>3, <2>2
    <2> QED BY <1>4, <2>1, <2>2 DEF ChangeDefinition
  <1>5. CASE Establish
    BY <1>3, <1>5 DEF Establish
  <1> QED BY <1>4, <1>5

\* Steps outside the worker keep the types.
LEMMA OutsideTypeOK == TypeOK /\ Outside => TypeOK'
  <1> SUFFICES ASSUME StoresOK, WatchOK, WorkerOK, RestOK, Outside
               PROVE  (StoresOK /\ WatchOK /\ WorkerOK /\ RestOK)'
    BY Parts, PartsPrime
  <1>1. CASE Edit
    <2>1. StoresOK' /\ WatchOK'
      <3>1. type' \in DuckType
        BY <1>1 DEF Edit, StoresOK, DuckType
      <3> QED BY <1>1, <3>1 DEF Edit, StoresOK, WatchOK, roleVars, crdVars
    <2>2. WorkerOK'
      <3>1. CASE worker = Idle
        BY <1>1, <3>1 DEF Edit, WorkerOK
      <3>2. CASE worker # Idle
        <4>1. RequestOK(worker, type)
          BY <3>2 DEF WorkerOK
        <4>2. worker' = [pc |-> worker.pc, old |-> worker.old, type |-> worker.type,
                         current |-> FALSE, err |-> worker.err]
          BY <1>1, <3>2, <4>1 DEF Edit, RequestOK, Request
        <4> QED BY <4>1, <4>2 DEF RequestOK, Request, WorkerOK
      <3> QED BY <3>1, <3>2
    <2>3. RestOK'
      BY <1>1, Bounds DEF Edit, RestOK
    <2> QED BY <2>1, <2>2, <2>3
  <1>2. CASE ChangeRole \/ Aggregate
    <2>1. StoresOK' /\ WatchOK'
      BY <1>2, OthersWriteRole, RoleWritten DEF ChangeRole, Aggregate
    <2>2. UNCHANGED <<worker, type>>
      BY <1>2 DEF ChangeRole, Aggregate, typeVars
    <2>3. RestOK'
      BY <1>2, Bounds DEF ChangeRole, Aggregate, RestOK
    <2> QED BY <2>1, <2>2, <2>3 DEF WorkerOK
  <1>3. CASE ChangeDefinition \/ Establish
    <2>1. StoresOK' /\ WatchOK'
      BY <1>3, OthersWriteDefinition, DefinitionWritten DEF ChangeDefinition, Establish
    <2>2. UNCHANGED <<worker, type>>
      BY <1>3 DEF ChangeDefinition, Establish, typeVars
    <2>3. RestOK'
      BY <1>3, Bounds DEF ChangeDefinition, Establish, RestOK
    <2> QED BY <2>1, <2>2, <2>3 DEF WorkerOK
  <1>4. CASE Grant \/ Resync
    <2>1. StoresOK' /\ WatchOK'
      BY <1>4, StoresKept DEF Grant, Resync
    <2>2. UNCHANGED <<worker, type>>
      BY <1>4 DEF Grant, Resync, storeVars, typeVars
    <2>3. RestOK'
      BY <1>4, Bounds DEF Grant, Resync, RestOK
    <2> QED BY <2>1, <2>2, <2>3 DEF WorkerOK
  <1>5. CASE TypeSync \/ RoleSync \/ DefinitionSync
    BY <1>5 DEF TypeSync, RoleSync, DefinitionSync, StoresOK, WatchOK, WorkerOK, RestOK,
       typeVars, roleVars, crdVars
  <1>6. CASE Restart
    BY <1>6, Bounds DEF Restart, StoresOK, WatchOK, WorkerOK, RestOK
  <1> QED BY <1>1, <1>2, <1>3, <1>4, <1>5, <1>6 DEF Outside

\* Steps of the worker keep the types.
LEMMA WorkerTypeOK == TypeOK /\ WorkerStep => TypeOK'
  <1> SUFFICES ASSUME StoresOK, WatchOK, WorkerOK, RestOK, WorkerStep
               PROVE  (StoresOK /\ WatchOK /\ WorkerOK /\ RestOK)'
    BY Parts, PartsPrime
  <1>1. CASE Dequeue
    <2>1. worker' = [pc |-> "roles", old |-> typeCache, type |-> typeCache,
                     current |-> "type" \notin behind, err |-> FALSE]
      BY <1>1 DEF Dequeue
    <2>2. RequestOK(worker', type)
      BY <2>1 DEF RequestOK, Request, StoresOK, WatchOK
    <2>3. UNCHANGED storeVars /\ RestOK'
      BY <1>1 DEF Dequeue, RestOK
    <2> QED BY <2>2, <2>3, StoresKept DEF WorkerOK, storeVars, typeVars
  <1>2. CASE KeepRoles \/ RolesFail
    <2>1. PICK s \in Status, e \in BOOLEAN : RolesDone(s, e)
      <3>1. worker.type.rbac \in Status
        <4>1. At("roles")
          BY <1>2 DEF KeepRoles, RolesFail
        <4> QED BY <4>1 DEF WorkerOK, RequestOK, Request, DuckType, At, Idle
      <3> QED BY <1>2, <3>1 DEF KeepRoles, RolesFail, Status
    <2>2. RequestOK(worker', type)
      BY <1>2, <2>1, AfterRoles DEF KeepRoles, RolesFail
    <2>3. UNCHANGED storeVars /\ RestOK'
      BY <1>2, Bounds DEF KeepRoles, RolesFail, RestOK
    <2> QED BY <2>2, <2>3, StoresKept DEF WorkerOK, storeVars, typeVars
  <1>3. CASE CreateRoles
    <2>1. [owner |-> "us", good |-> TRUE, rules |-> {}] \in Role
      BY DEF Role, Owner
    <2>2. StoresOK' /\ WatchOK'
      BY <1>3, <2>1, RoleWritten DEF CreateRoles
    <2>3. RequestOK(worker', type) /\ type' = type
      BY <1>3, AfterRoles DEF CreateRoles, Status, typeVars
    <2> QED BY <1>3, <2>2, <2>3 DEF CreateRoles, WorkerOK, RestOK
  <1>4. CASE UpdateRoles
    <2>1. StoresOK' /\ WatchOK'
      <3>1. CASE "role" \notin behind
        <4>1. [role EXCEPT !.good = TRUE, !.rules = HarmonizedRules] \in Role
          BY DEF StoresOK, Role, HarmonizedRules
        <4> QED BY <1>4, <3>1, <4>1, RoleWritten DEF UpdateRoles
      <3>2. CASE "role" \in behind
        BY <1>4, <3>2, StoresKept DEF UpdateRoles, storeVars, roleVars
      <3> QED BY <3>1, <3>2
    <2>2. RequestOK(worker', type) /\ type' = type
      BY <1>4, AfterRoles DEF UpdateRoles, Status, typeVars
    <2> QED BY <1>4, <2>1, <2>2 DEF UpdateRoles, WorkerOK, RestOK
  <1>5. CASE KeepDefinition \/ CreateRefused \/ DefinitionFails
    <2>1. PICK s \in Status, e \in BOOLEAN : DefinitionDone(s, e)
      <3>1. worker.type.established \in Status
        <4>1. At("definition")
          BY <1>5 DEF KeepDefinition, CreateRefused, DefinitionFails
        <4> QED BY <4>1 DEF WorkerOK, RequestOK, Request, DuckType, At, Idle
      <3>2. crdCache.established \in Status
        BY DEF StoresOK, Definition
      <3> QED BY <1>5, <3>1, <3>2 DEF KeepDefinition, CreateRefused, DefinitionFails,
              Status
    <2>2. RequestOK(worker', type)
      BY <1>5, <2>1, AfterDefinition DEF KeepDefinition, CreateRefused, DefinitionFails
    <2>3. UNCHANGED storeVars /\ RestOK'
      BY <1>5, Bounds DEF KeepDefinition, CreateRefused, DefinitionFails, RestOK
    <2> QED BY <2>2, <2>3, StoresKept DEF WorkerOK, storeVars, typeVars
  <1>6. CASE CreateDefinition
    <2>1. worker.type.spec \in Specs
      BY <1>6 DEF CreateDefinition, WorkerOK, RequestOK, Request, DuckType, At, Idle
    <2>2. [owner |-> "us", spec |-> worker.type.spec, established |-> "Unknown"]
             \in Definition
      BY <2>1 DEF Definition, Owner, Status
    <2>3. StoresOK' /\ WatchOK'
      BY <1>6, <2>2, DefinitionWritten DEF CreateDefinition
    <2>4. RequestOK(worker', type) /\ type' = type
      BY <1>6, AfterDefinition DEF CreateDefinition, Status, typeVars
    <2> QED BY <1>6, <2>3, <2>4 DEF CreateDefinition, WorkerOK, RestOK
  <1>7. CASE UpdateDefinition
    <2>1. worker.type.spec \in Specs /\ crd.established \in Status
      BY <1>7 DEF UpdateDefinition, WorkerOK, RequestOK, Request, DuckType, At, Idle,
         StoresOK, Definition
    <2>2. StoresOK' /\ WatchOK'
      <3>1. CASE "crd" \notin behind /\ worker.type.spec \notin Refused
        <4> DEFINE d == [crd EXCEPT !.spec = worker.type.spec]
        <4>1. d \in Definition /\ d.spec = worker.type.spec
          BY <2>1 DEF StoresOK, Definition
        <4>2. WriteDefinition(d) /\ UNCHANGED <<typeVars, roleVars, crdCache>>
          BY <1>7, <3>1 DEF UpdateDefinition
        <4> HIDE DEF d
        <4> QED BY <3>1, <4>1, <4>2, DefinitionWritten
      <3>2. CASE "crd" \in behind \/ worker.type.spec \in Refused
        BY <1>7, <3>2, StoresKept DEF UpdateDefinition, storeVars, crdVars
      <3> QED BY <3>1, <3>2
    <2>3. RequestOK(worker', type) /\ type' = type
      BY <1>7, <2>1, AfterDefinition DEF UpdateDefinition, Status, typeVars
    <2> QED BY <1>7, <2>2, <2>3 DEF UpdateDefinition, WorkerOK, RestOK
  <1>8. CASE StatusUnchanged \/ StatusConflict \/ StatusFails
    <2>1. worker' = Idle /\ queued' \in BOOLEAN
      BY <1>8 DEF StatusUnchanged, StatusConflict, StatusFails, Return, RestOK, WorkerOK,
         RequestOK, Request, At, Idle
    <2>2. UNCHANGED storeVars /\ RestOK'
      BY <1>8, <2>1, Bounds DEF StatusUnchanged, StatusConflict, StatusFails, RestOK
    <2> QED BY <2>1, <2>2, StoresKept DEF WorkerOK
  <1>9. CASE StatusUpdate
    <2>1. RequestOK(worker, type)
      BY <1>9 DEF StatusUpdate, WorkerOK, At, Idle
    <2>2. worker' = Idle /\ queued' \in BOOLEAN
      BY <1>9, <2>1 DEF StatusUpdate, Return, RestOK, RequestOK, Request
    <2>3. StoresOK' /\ WatchOK'
      BY <1>9, <2>1 DEF StatusUpdate, StoresOK, WatchOK, RequestOK, Request, roleVars,
         crdVars
    <2> QED BY <1>9, <2>2, <2>3 DEF StatusUpdate, WorkerOK, RestOK
  <1> QED BY <1>1, <1>2, <1>3, <1>4, <1>5, <1>6, <1>7, <1>8, <1>9 DEF WorkerStep

-----------------------------------------------------------------------------
(* The inductive invariant.                                                *)

\* At the start the DuckType is queued and the caches are current.
LEMMA InitIInv == Init => IInv
  BY InitTypeOK DEF Init, IInv, WatchInv, CopyInv, ErrInv, DefinitionInv, RolesInv, Idle

\* A write of a child leaves an event to come when the DuckType owns it, before
\* or after.
LEMMA WatchRoleWritten ==
    ASSUME WatchInv, NEW r, WriteRole(r), UNCHANGED <<roleCache, crd, crdCache>>
    PROVE  WatchInv'
  BY DEF WatchInv, WriteRole

\* The same for the definition.
LEMMA WatchDefinitionWritten ==
    ASSUME WatchInv, NEW d, WriteDefinition(d), UNCHANGED <<crdCache, role, roleCache>>
    PROVE  WatchInv'
  BY DEF WatchInv, WriteDefinition

\* A step that leaves the DuckType in the queue keeps what is said of rest and
\* of requests that nothing follows.
LEMMA QueuedKeeps ==
    ASSUME queued'
    PROVE  CopyInv' /\ DefinitionInv' /\ RolesInv'
  BY DEF CopyInv, DefinitionInv, RolesInv

\* Others write a child.
LEMMA OthersStep ==
    ASSUME IInv, UNCHANGED <<type, typeCache, queued, worker>>,
           \/ /\ \E r \in Role : WriteRole(r)
              /\ UNCHANGED <<roleCache, crd, crdCache>>
           \/ /\ \E d \in Definition : WriteDefinition(d)
              /\ UNCHANGED <<crdCache, role, roleCache>>
    PROVE  WatchInv' /\ CopyInv' /\ ErrInv' /\ DefinitionInv' /\ RolesInv'
  <1> USE DEF IInv
  <1>1. WatchInv'
    BY WatchRoleWritten, WatchDefinitionWritten
  <1>2. CopyInv' /\ ErrInv'
    BY DEF CopyInv, ErrInv, At
  <1>3. ASSUME NEW r \in Role, WriteRole(r), UNCHANGED <<roleCache, crd, crdCache>>
        PROVE  DefinitionInv' /\ RolesInv'
    <2>1. RolesInv'
      BY <1>3 DEF RolesInv, RolesRight, WriteRole, At
    <2>2. DefinitionInv'
      BY <1>3 DEF DefinitionInv, DefinitionRight, WriteRole, At
    <2> QED BY <2>1, <2>2
  <1>4. ASSUME NEW d \in Definition, WriteDefinition(d),
               UNCHANGED <<crdCache, role, roleCache>>
        PROVE  DefinitionInv' /\ RolesInv'
    <2>1. RolesInv'
      BY <1>4 DEF RolesInv, RolesRight, WriteDefinition, At
    <2>2. DefinitionInv'
      BY <1>4 DEF DefinitionInv, DefinitionRight, WriteDefinition, At
    <2> QED BY <2>1, <2>2
  <1> QED BY <1>1, <1>2, <1>3, <1>4

\* Steps outside the worker keep the rest of the invariant.
LEMMA OutsideInv ==
    ASSUME IInv, Outside
    PROVE  WatchInv' /\ CopyInv' /\ ErrInv' /\ DefinitionInv' /\ RolesInv'
  <1> USE DEF IInv
  <1> StoresOK /\ WatchOK /\ WorkerOK /\ RestOK
    BY Parts
  <1>1. CASE Edit
    <2>1. "type" \in behind'
          /\ UNCHANGED <<typeCache, role, roleCache, crd, crdCache, pending, queued>>
      BY <1>1 DEF Edit, roleVars, crdVars
    <2>2. CASE worker = Idle
      BY <1>1, <2>1, <2>2 DEF Edit, WatchInv, CopyInv, ErrInv, DefinitionInv, RolesInv
    <2>3. CASE worker # Idle
      <3>1. worker' = [pc |-> worker.pc, old |-> worker.old, type |-> worker.type,
                       current |-> FALSE, err |-> worker.err]
        BY <1>1, <2>3 DEF Edit, WorkerOK, RequestOK, Request
      <3>2. WatchInv' /\ CopyInv' /\ ErrInv'
        BY <2>1, <2>3, <3>1 DEF WatchInv, CopyInv, ErrInv, At
      <3>3. DefinitionInv' /\ RolesInv'
        BY <2>1, <2>3, <3>1 DEF DefinitionInv, DefinitionRight, RolesInv, RolesRight, At
      <3> QED BY <3>2, <3>3
    <2> QED BY <2>2, <2>3
  <1>2. CASE ChangeRole \/ Aggregate
    <2>1. \E r \in Role : WriteRole(r)
      BY <1>2, OthersWriteRole
    <2>2. UNCHANGED <<type, typeCache, queued, worker, roleCache, crd, crdCache>>
      BY <1>2 DEF ChangeRole, Aggregate, typeVars, crdVars
    <2> QED BY <2>1, <2>2, OthersStep
  <1>3. CASE ChangeDefinition \/ Establish
    <2>1. \E d \in Definition : WriteDefinition(d)
      BY <1>3, OthersWriteDefinition
    <2>2. UNCHANGED <<type, typeCache, queued, worker, crdCache, role, roleCache>>
      BY <1>3 DEF ChangeDefinition, Establish, typeVars, roleVars
    <2> QED BY <2>1, <2>2, OthersStep
  <1>4. CASE Grant
    BY <1>4 DEF Grant, storeVars, typeVars, roleVars, crdVars, watchVars, WatchInv, CopyInv,
       ErrInv, DefinitionInv, DefinitionRight, RolesInv, RolesRight, At
  <1>5. CASE TypeSync \/ Resync
    <2>1. queued' /\ UNCHANGED <<worker, role, roleCache, crd, crdCache, pending>>
      BY <1>5 DEF TypeSync, Resync, storeVars, roleVars, crdVars, watchVars
    <2> QED BY <2>1, QueuedKeeps DEF WatchInv, ErrInv, At
  <1>6. CASE RoleSync
    <2>1. WatchInv' /\ ErrInv'
      BY <1>6 DEF RoleSync, crdVars, WatchInv, ErrInv, At
    <2>2. CASE queued'
      BY <2>1, <2>2, QueuedKeeps
    <2>3. CASE ~queued'
      <3>1. /\ ~queued /\ "role" \notin pending /\ pending' = pending
            /\ "type" \in behind' <=> "type" \in behind
            /\ UNCHANGED <<type, typeCache, role, crd, worker>>
        BY <1>6, <2>3 DEF RoleSync, typeVars, crdVars
      <3> QED BY <2>1, <2>3, <3>1 DEF CopyInv, DefinitionInv, DefinitionRight, RolesInv,
              RolesRight, At
    <2> QED BY <2>2, <2>3
  <1>7. CASE DefinitionSync
    <2>1. WatchInv' /\ ErrInv'
      BY <1>7 DEF DefinitionSync, roleVars, WatchInv, ErrInv, At
    <2>2. CASE queued'
      BY <2>1, <2>2, QueuedKeeps
    <2>3. CASE ~queued'
      <3>1. /\ ~queued /\ "crd" \notin pending /\ pending' = pending
            /\ "type" \in behind' <=> "type" \in behind
            /\ UNCHANGED <<type, typeCache, role, crd, worker>>
        BY <1>7, <2>3 DEF DefinitionSync, typeVars, roleVars
      <3> QED BY <2>1, <2>3, <3>1 DEF CopyInv, DefinitionInv, DefinitionRight, RolesInv,
              RolesRight, At
    <2> QED BY <2>2, <2>3
  <1>8. CASE Restart
    BY <1>8, QueuedKeeps DEF Restart, WatchInv, ErrInv
  <1> QED BY <1>1, <1>2, <1>3, <1>4, <1>5, <1>6, <1>7, <1>8 DEF Outside

\* The roles were looked at: what is known of them is right, unless the request
\* failed or an event is to come.
LEMMA RolesStep ==
    ASSUME IInv, KeepRoles \/ CreateRoles \/ UpdateRoles \/ RolesFail
    PROVE  WatchInv' /\ CopyInv' /\ ErrInv' /\ DefinitionInv' /\ RolesInv'
  <1> USE DEF IInv
  <1>1. At("roles") /\ UNCHANGED <<type, typeCache, queued, roleCache, crd, crdCache>>
    BY DEF KeepRoles, CreateRoles, UpdateRoles, RolesFail, storeVars, typeVars, roleVars,
       crdVars
  <1>2. StoresOK /\ WatchOK /\ WorkerOK /\ worker.type.rbac \in Status
    BY <1>1, Parts DEF WorkerOK, RequestOK, Request, DuckType, At, Idle
  <1>3. PICK s \in Status, e \in BOOLEAN :
           /\ RolesDone(s, e)
           /\ s = "True" /\ ~e /\ "role" \notin pending' => role'.owner = "us" /\ role'.good
           /\ \/ UNCHANGED <<role, pending>>
              \/ \E r : WriteRole(r)
    <2>1. CASE KeepRoles
      <3>1. UNCHANGED <<role, pending>>
        BY <2>1 DEF KeepRoles, storeVars, roleVars, watchVars
      <3>2. CASE roleCache.owner = "us" /\ roleCache.good /\ RolesDone("True", FALSE)
        <4>1. "role" \notin pending => role.owner = "us" /\ role.good
          BY <3>2 DEF WatchInv
        <4> QED BY <3>1, <3>2, <4>1 DEF Status
      <3>3. CASE RolesDone("False", FALSE)
        BY <3>1, <3>3 DEF Status
      <3> QED BY <2>1, <3>2, <3>3 DEF KeepRoles
    <2>2. CASE CreateRoles
      <3>1. RolesDone("True", FALSE)
            /\ WriteRole([owner |-> "us", good |-> TRUE, rules |-> {}])
        BY <2>2 DEF CreateRoles
      <3>2. "role" \in pending'
        BY <3>1 DEF WriteRole
      <3> QED BY <3>1, <3>2 DEF Status
    <2>3. CASE UpdateRoles
      <3>1. CASE "role" \notin behind
        <4>1. /\ RolesDone("True", FALSE)
              /\ WriteRole([role EXCEPT !.good = TRUE, !.rules = HarmonizedRules])
          BY <2>3, <3>1 DEF UpdateRoles
        <4>2. role.owner = "us"
          BY <1>2, <2>3, <3>1 DEF UpdateRoles, WatchOK
        <4>3. "role" \in pending'
          BY <4>1, <4>2 DEF WriteRole
        <4> QED BY <4>1, <4>3 DEF Status
      <3>2. CASE "role" \in behind
        BY <2>3, <3>2 DEF UpdateRoles, watchVars, Status
      <3> QED BY <3>1, <3>2
    <2>4. CASE RolesFail
      BY <1>2, <2>4 DEF RolesFail, storeVars, roleVars, watchVars, Status
    <2> QED BY <2>1, <2>2, <2>3, <2>4
  <1>4. worker' = [pc |-> IF e THEN "status" ELSE "definition", old |-> worker.old,
                   type |-> [spec |-> worker.type.spec, rbac |-> s,
                             established |-> worker.type.established],
                   current |-> worker.current, err |-> e]
    BY <1>1, <1>2, <1>3, AfterRoles
  <1>5. worker # Idle /\ worker' # Idle
    BY <1>1, <1>2, <1>4, IdleLemma DEF Idle, At
  <1>6. WatchInv'
    BY <1>1, <1>3, WatchRoleWritten DEF WatchInv
  <1>7. CopyInv' /\ ErrInv' /\ DefinitionInv'
    BY <1>1, <1>4, <1>5 DEF CopyInv, ErrInv, DefinitionInv, At
  <1>8. RolesInv'
    BY <1>3, <1>4, <1>5 DEF RolesInv, RolesRight
  <1> QED BY <1>6, <1>7, <1>8

\* The same for the definition.
LEMMA DefinitionStep ==
    ASSUME IInv,
           \/ KeepDefinition \/ CreateRefused \/ CreateDefinition \/ UpdateDefinition
           \/ DefinitionFails
    PROVE  WatchInv' /\ CopyInv' /\ ErrInv' /\ DefinitionInv' /\ RolesInv'
  <1> USE DEF IInv
  <1>1. At("definition") /\ UNCHANGED <<type, typeCache, queued, role, roleCache, crdCache>>
    BY DEF KeepDefinition, CreateRefused, CreateDefinition, UpdateDefinition,
       DefinitionFails, storeVars, typeVars, roleVars, crdVars
  <1>2. /\ StoresOK /\ WatchOK /\ WorkerOK /\ worker.type.established \in Status
        /\ crd.established \in Status /\ crdCache.established \in Status
    BY <1>1, Parts DEF WorkerOK, RequestOK, Request, DuckType, At, Idle, StoresOK,
       Definition
  <1> DEFINE Right(s) ==
                 /\ crd.owner = "us" /\ worker.type.spec \notin Refused =>
                       crd.spec = worker.type.spec /\ s = crd.established
                 /\ s = "True" => crd.owner = "us" /\ worker.type.spec \notin Refused
  <1>3. PICK s \in Status, e \in BOOLEAN :
           /\ DefinitionDone(s, e)
           /\ \/ /\ UNCHANGED <<crd, pending>>
                 /\ ~e /\ "crd" \notin pending => Right(s)
              \/ /\ \E d : WriteDefinition(d)
                 /\ "crd" \in pending'
    <2>1. CASE KeepDefinition
      <3>1. UNCHANGED <<crd, pending>> /\ DefinitionDone(crdCache.established, FALSE)
        BY <2>1 DEF KeepDefinition, storeVars, crdVars, watchVars
      <3>2. "crd" \notin pending => Right(crdCache.established)
        BY <1>2, <2>1 DEF KeepDefinition, WatchInv, StoresOK
      <3> QED BY <1>2, <3>1, <3>2
    <2>2. CASE CreateRefused
      <3>1. UNCHANGED <<crd, pending>> /\ DefinitionDone("False", FALSE)
        BY <2>2 DEF CreateRefused, storeVars, crdVars, watchVars
      <3>2. "crd" \notin pending => Right("False")
        BY <2>2 DEF CreateRefused, WatchInv
      <3> QED BY <3>1, <3>2 DEF Status
    <2>3. CASE CreateDefinition
      <3> DEFINE d == [owner |-> "us", spec |-> worker.type.spec, established |-> "Unknown"]
      <3>1. DefinitionDone("Unknown", FALSE) /\ WriteDefinition(d) /\ d.owner = "us"
        BY <2>3 DEF CreateDefinition
      <3> HIDE DEF d
      <3>2. "crd" \in pending'
        BY <3>1 DEF WriteDefinition
      <3> QED BY <3>1, <3>2 DEF Status
    <2>4. CASE UpdateDefinition
      <3>1. CASE "crd" \in behind
        BY <2>4, <3>1 DEF UpdateDefinition, watchVars, Status
      <3>2. CASE "crd" \notin behind /\ worker.type.spec \in Refused
        <4>1. UNCHANGED <<crd, pending>> /\ DefinitionDone("False", FALSE)
          BY <2>4, <3>2 DEF UpdateDefinition, watchVars
        <4>2. Right("False")
          BY <3>2
        <4> QED BY <4>1, <4>2 DEF Status
      <3>3. CASE "crd" \notin behind /\ worker.type.spec \notin Refused
        <4>1. /\ DefinitionDone(crd.established, FALSE)
              /\ WriteDefinition([crd EXCEPT !.spec = worker.type.spec])
          BY <2>4, <3>3 DEF UpdateDefinition
        <4>2. crd.owner = "us"
          BY <1>2, <2>4, <3>3 DEF UpdateDefinition, WatchOK
        <4>3. "crd" \in pending'
          BY <4>1, <4>2 DEF WriteDefinition
        <4> QED BY <1>2, <4>1, <4>3
      <3> QED BY <3>1, <3>2, <3>3
    <2>5. CASE DefinitionFails
      BY <1>2, <2>5 DEF DefinitionFails, storeVars, crdVars, watchVars, Status
    <2> QED BY <2>1, <2>2, <2>3, <2>4, <2>5
  <1>4. worker' = [pc |-> "status", old |-> worker.old,
                   type |-> [spec |-> worker.type.spec, rbac |-> worker.type.rbac,
                             established |-> s],
                   current |-> worker.current, err |-> e]
    BY <1>1, <1>2, <1>3, AfterDefinition
  <1>5. worker # Idle /\ worker' # Idle /\ ~worker.err
    BY <1>1, <1>2, <1>4, IdleLemma DEF Idle, At, ErrInv
  <1>6. WatchInv'
    BY <1>1, <1>3, WatchDefinitionWritten DEF WatchInv
  <1>7. CopyInv' /\ ErrInv'
    BY <1>1, <1>4, <1>5 DEF CopyInv, ErrInv, At
  <1>8. DefinitionInv'
    BY <1>3, <1>4, <1>5 DEF DefinitionInv, DefinitionRight
  <1>9. RolesInv'
    <2>1. "role" \in pending' <=> "role" \in pending
      BY <1>3 DEF WriteDefinition
    <2> QED BY <1>1, <1>4, <1>5, <2>1 DEF RolesInv, RolesRight, At
  <1> QED BY <1>6, <1>7, <1>8, <1>9

\* The request begins and ends.
LEMMA RequestStep ==
    ASSUME IInv,
           \/ Dequeue \/ StatusUnchanged \/ StatusUpdate \/ StatusConflict \/ StatusFails
    PROVE  WatchInv' /\ CopyInv' /\ ErrInv' /\ DefinitionInv' /\ RolesInv'
  <1> USE DEF IInv
  <1>1. StoresOK /\ WatchOK /\ WorkerOK /\ RestOK
    BY Parts
  <1>2. UNCHANGED <<typeCache, role, roleCache, crd, crdCache, pending>>
    BY DEF Dequeue, StatusUnchanged, StatusUpdate, StatusConflict, StatusFails, storeVars,
       typeVars, roleVars, crdVars, watchVars
  <1>3. WatchInv'
    BY <1>2 DEF WatchInv
  <1>4. CASE Dequeue
    <2>1. worker' = [pc |-> "roles", old |-> typeCache, type |-> typeCache,
                     current |-> "type" \notin behind, err |-> FALSE]
      BY <1>4 DEF Dequeue
    <2>2. worker' # Idle
      BY <2>1 DEF Idle
    <2> QED BY <1>2, <1>3, <2>1, <2>2 DEF CopyInv, ErrInv, DefinitionInv, RolesInv, At
  <1>5. CASE ~Dequeue /\ queued'
    BY <1>3, <1>5, QueuedKeeps
       DEF StatusUnchanged, StatusUpdate, StatusConflict, StatusFails, Return, ErrInv
  <1>6. CASE StatusUnchanged /\ ~queued'
    <2>1. /\ worker' = Idle /\ ~queued /\ ~worker.err /\ At("status")
          /\ worker.type = worker.old /\ UNCHANGED <<type, behind>>
      BY <1>6 DEF StatusUnchanged, Return, storeVars, typeVars, watchVars
    <2>2. worker # Idle
      BY <1>1, <2>1, IdleLemma DEF At
    <2>3. "type" \notin behind => worker.type = type
      BY <1>1, <2>1, <2>2 DEF CopyInv, WatchOK
    <2> QED BY <1>2, <1>3, <2>1, <2>2, <2>3
            DEF CopyInv, ErrInv, DefinitionInv, DefinitionRight, RolesInv, RolesRight, At
  <1>7. CASE StatusUpdate /\ ~queued'
    <2>1. worker' = Idle /\ "type" \in behind'
      BY <1>7 DEF StatusUpdate, Return
    <2> QED BY <1>3, <2>1 DEF CopyInv, ErrInv, DefinitionInv, RolesInv
  <1> QED BY <1>4, <1>5, <1>6, <1>7 DEF StatusConflict, StatusFails, Return

\* Every step, and stuttering, keeps the invariant.
LEMMA NextIInv == IInv /\ [Next]_vars => IInv'
  <1>1. ASSUME IInv, Next
        PROVE  IInv'
    <2>1. Outside \/ WorkerStep
      BY <1>1 DEF Next, Outside
    <2>2. TypeOK'
      BY <1>1, <2>1, OutsideTypeOK, WorkerTypeOK DEF IInv
    <2>3. WatchInv' /\ CopyInv' /\ ErrInv' /\ DefinitionInv' /\ RolesInv'
      BY <1>1, <2>1, OutsideInv, RolesStep, DefinitionStep, RequestStep DEF WorkerStep
    <2> QED BY <2>2, <2>3 DEF IInv
  <1>2. ASSUME IInv, UNCHANGED vars
        PROVE  IInv'
    BY <1>2 DEF vars, IInv, TypeOK, WatchInv, CopyInv, ErrInv, DefinitionInv,
       DefinitionRight, RolesInv, RolesRight, At
  <1> QED BY <1>1, <1>2

-----------------------------------------------------------------------------
(* The theorems.                                                           *)

\* IInv is an invariant of the DuckType controller and its children.
THEOREM Invariance == Spec => []IInv
  BY InitIInv, NextIInv, PTL DEF Spec

\* The variables keep their types, and caches that are not behind hold what is
\* stored.
THEOREM TypeCorrect == Spec => []TypeOK
  BY Invariance, PTL DEF IInv

\* Whatever users, the aggregation controller and failures do, the controller does
\* not come to rest with a definition that differs from .spec, nor with conditions
\* that its children contradict.
THEOREM AtRest == Spec => []RestsReconciled
  <1>1. IInv => RestsReconciled
    <2> SUFFICES ASSUME IInv, Settled PROVE DefinitionRight(type) /\ RolesRight(type)
      BY DEF RestsReconciled, DefinitionRight, RolesRight
    <2>1. pending = {} /\ worker = Idle
      BY Parts, IdleLemma DEF IInv, Settled, WatchOK
    <2> QED BY <2>1 DEF IInv, Settled, DefinitionInv, RolesInv
  <1> QED BY <1>1, Invariance, PTL

\* The controller never brings older rules of the roles back: an update from a
\* cached role that is no longer the stored one is refused.
THEOREM RulesKept == Spec => RulesManagedUpstream
  <1> DEFINE Kept == role.owner = "us" /\ role'.owner = "us" =>
                         role'.rules \in {role.rules, granted}
  <1>1. ASSUME TypeOK, Next
        PROVE  Kept
    <2>0. StoresOK /\ WatchOK
      BY <1>1, Parts
    <2>1. CASE ChangeRole \/ Aggregate
      BY <2>0, <2>1 DEF ChangeRole, Aggregate, WriteRole, StoresOK, Role
    <2>2. CASE CreateRoles
      BY <2>2 DEF CreateRoles
    <2>3. CASE UpdateRoles
      <3>1. CASE "role" \notin behind
        BY <2>0, <2>3, <3>1 DEF UpdateRoles, WriteRole, HarmonizedRules, StoresOK, WatchOK,
           Role
      <3>2. CASE "role" \in behind
        BY <2>3, <3>2 DEF UpdateRoles
      <3> QED BY <3>1, <3>2
    <2>4. CASE UNCHANGED role
      BY <2>4
    <2>5. ChangeRole \/ Aggregate \/ CreateRoles \/ UpdateRoles \/ UNCHANGED role
      BY <1>1 DEF Next, WorkerStep, Edit, ChangeDefinition, Grant, Establish, TypeSync,
         RoleSync, DefinitionSync, Resync, Restart, Dequeue, KeepRoles, RolesFail,
         KeepDefinition, CreateRefused, CreateDefinition, UpdateDefinition,
         DefinitionFails, StatusUnchanged, StatusUpdate, StatusConflict, StatusFails,
         storeVars, roleVars
    <2> QED BY <2>1, <2>2, <2>3, <2>4, <2>5
  <1>2. TypeOK /\ [Next]_vars => [Kept]_vars
    BY <1>1
  <1> QED BY <1>2, TypeCorrect, PTL DEF Spec, RulesManagedUpstream

\* A cached copy that has gone stale does not make the controller overwrite what others
\* made in the meantime: their children, and edits of the spec, stay.
THEOREM OthersStay == Spec => OthersKept
  <1> DEFINE Kept == worker'.pc # worker.pc =>
                         /\ role.owner = "other" => role' = role
                         /\ crd.owner = "other" => crd' = crd
                         /\ type'.spec = type.spec
  <1>1. ASSUME TypeOK, Next
        PROVE  Kept
    <2>0. StoresOK /\ WatchOK /\ WorkerOK
      BY <1>1, Parts
    <2>1. CASE Edit
      <3>1. worker'.pc = worker.pc
        BY <2>0, <2>1 DEF Edit, WorkerOK, RequestOK, Request
      <3> QED BY <3>1
    <2>2. CASE UNCHANGED worker
      BY <2>2
    <2>3. CASE UNCHANGED <<type, role, crd>>
      BY <2>3
    <2>4. CASE CreateRoles
      BY <2>4 DEF CreateRoles, typeVars, crdVars
    <2>5. CASE UpdateRoles
      <3>1. UNCHANGED <<type, crd>>
        BY <2>5 DEF UpdateRoles, typeVars, crdVars
      <3>2. role.owner = "other" => role' = role
        BY <2>0, <2>5 DEF UpdateRoles, WatchOK
      <3> QED BY <3>1, <3>2
    <2>6. CASE CreateDefinition
      BY <2>6 DEF CreateDefinition, typeVars, roleVars
    <2>7. CASE UpdateDefinition
      <3>1. UNCHANGED <<type, role>>
        BY <2>7 DEF UpdateDefinition, typeVars, roleVars
      <3>2. crd.owner = "other" => crd' = crd
        BY <2>0, <2>7 DEF UpdateDefinition, WatchOK
      <3> QED BY <3>1, <3>2
    <2>8. CASE StatusUpdate
      <3>1. UNCHANGED <<role, crd>> /\ type' = worker.type
        BY <2>8 DEF StatusUpdate, roleVars, crdVars
      <3>2. worker.type.spec = type.spec
        BY <2>0, <2>8 DEF StatusUpdate, WorkerOK, RequestOK, At, Idle
      <3> QED BY <3>1, <3>2
    <2>9. \/ Edit \/ CreateRoles \/ UpdateRoles \/ CreateDefinition \/ UpdateDefinition
          \/ StatusUpdate \/ UNCHANGED worker \/ UNCHANGED <<type, role, crd>>
      BY <1>1 DEF Next, WorkerStep, ChangeRole, ChangeDefinition, Grant, Aggregate,
         Establish, TypeSync, RoleSync, DefinitionSync, Resync, Restart, Dequeue,
         KeepRoles, RolesFail, KeepDefinition, CreateRefused, DefinitionFails,
         StatusUnchanged, StatusConflict, StatusFails, storeVars, typeVars, roleVars,
         crdVars
    <2> QED BY <2>1, <2>2, <2>3, <2>4, <2>5, <2>6, <2>7, <2>8, <2>9
  <1>2. TypeOK /\ [Next]_vars => [Kept]_vars
    BY <1>1
  <1> QED BY <1>2, TypeCorrect, PTL DEF Spec, OthersKept

=============================================================================
