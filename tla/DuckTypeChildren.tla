-------------------------- MODULE DuckTypeChildren --------------------------
(***************************************************************************)
(* The child resources of one DuckType and the conditions the DuckType     *)
(* controller reads from them (internal/controller/ducktype_controller.go):*)
(* the ClusterRoles, whose rules another controller of the cluster writes  *)
(* (aggregation), and the CustomResourceDefinition, whose condition        *)
(* Established the API server writes.  All are read from a cache that lags *)
(* the API server.  Instead of a resourceVersion the model keeps whether a *)
(* copy is the stored version: a write from any other copy is refused.     *)
(*                                                                         *)
(* The view and the edit role are written by the same calls and stand or   *)
(* fall together here.  Finalizer and sub-manager are in                   *)
(* SubManagerReconciler.                                                   *)
(***************************************************************************)
EXTENDS Naturals

CONSTANTS
    Ducks,       \* Ducks whose own roles the ClusterRoles aggregate
    Specs,       \* values of .spec of the DuckType
    Refused,     \* those of which the API server takes no definition
    NoSpec,      \* the spec of a definition that does not belong to the DuckType
    MaxChanges   \* bound on what users do, failing calls and restarts

ASSUME ChildrenAssumption ==
    /\ Refused \subseteq Specs
    /\ NoSpec \notin Specs
    /\ MaxChanges \in Nat

VARIABLES
    type, typeCache,  \* the DuckType, at the API server and in the cache
    role, roleCache,  \* its ClusterRoles
    crd, crdCache,    \* its CustomResourceDefinition
    behind,           \* caches that have not got all versions yet
    pending,          \* those of the children that lack a version the DuckType owns
    granted,          \* Ducks that have roles of their own
    queued,           \* the DuckType is in the work queue
    worker,           \* the reconcile request in progress
    changes

typeVars == <<type, typeCache>>
roleVars == <<role, roleCache>>
crdVars == <<crd, crdCache>>
watchVars == <<behind, pending>>
storeVars == <<typeVars, roleVars, crdVars, watchVars>>
vars == <<type, typeCache, role, roleCache, crd, crdCache, behind, pending, granted,
          queued, worker, changes>>

Status == {"True", "False", "Unknown"}

DuckType == [spec : Specs, rbac : Status, established : Status]

\* "none": there is no such object; "other": it does not belong to the DuckType.
Owner == {"none", "us", "other"}

\* good: labels and aggregation rule are those of DesiredChildren.
Role == [owner : Owner, good : BOOLEAN, rules : SUBSET Ducks]

Definition == [owner : Owner, spec : Specs \cup {NoSpec}, established : Status]

Idle == [pc |-> "idle"]

At(pc) == worker.pc = pc

Change == changes < MaxChanges /\ changes' = changes + 1

\* A call fails or the process ends.
Fault == Change

\* A write of a child; events of versions that belong to the DuckType count.
WriteRole(r) ==
    /\ role' = r
    /\ behind' = behind \cup {"role"}
    /\ pending' = IF "us" \in {role.owner, r.owner} THEN pending \cup {"role"} ELSE pending

WriteDefinition(d) ==
    /\ crd' = d
    /\ behind' = behind \cup {"crd"}
    /\ pending' = IF "us" \in {crd.owner, d.owner} THEN pending \cup {"crd"} ELSE pending

Init ==
    /\ type \in [spec : Specs, rbac : {"Unknown"}, established : {"Unknown"}]
    /\ typeCache = type
    /\ role \in [owner : {"none", "other"}, good : {FALSE}, rules : {{}}]
    /\ roleCache = role
    /\ crd \in [owner : {"none", "other"}, spec : {NoSpec}, established : {"Unknown"}]
    /\ crdCache = crd
    /\ behind = {} /\ pending = {}
    /\ granted = {}
    /\ queued = TRUE
    /\ worker = Idle
    /\ changes = 0

-----------------------------------------------------------------------------
(* Users of the cluster and its other controllers.                         *)

Edit ==
    /\ Change
    /\ \E s \in Specs \ {type.spec} : type' = [type EXCEPT !.spec = s]
    /\ behind' = behind \cup {"type"}
    /\ worker' = IF worker = Idle THEN Idle ELSE [worker EXCEPT !.current = FALSE]
    /\ UNCHANGED <<typeCache, roleVars, crdVars, pending, granted, queued>>

\* Somebody edits or removes the roles, or creates some under their names.
ChangeRole ==
    /\ Change
    /\ \/ /\ role.owner = "us" /\ role.good
          /\ WriteRole([role EXCEPT !.good = FALSE])
       \/ /\ role.owner # "none"
          /\ WriteRole([owner |-> "none", good |-> FALSE, rules |-> {}])
       \/ /\ role.owner = "none"
          /\ WriteRole([role EXCEPT !.owner = "other"])
    /\ UNCHANGED <<typeVars, roleCache, crdVars, granted, queued, worker>>

ChangeDefinition ==
    /\ Change
    /\ \/ /\ crd.owner = "us"
          /\ \E s \in Specs \ (Refused \cup {crd.spec}) :
                WriteDefinition([crd EXCEPT !.spec = s])
       \/ /\ crd.owner # "none"
          /\ WriteDefinition([owner |-> "none", spec |-> NoSpec, established |-> "Unknown"])
       \/ /\ crd.owner = "none"
          /\ WriteDefinition([crd EXCEPT !.owner = "other"])
    /\ UNCHANGED <<typeVars, roleVars, crdCache, granted, queued, worker>>

\* The Duck controller makes or removes the roles of a Duck.
Grant ==
    /\ Change
    /\ \E d \in Ducks : granted' = IF d \in granted THEN granted \ {d}
                                   ELSE granted \cup {d}
    /\ UNCHANGED <<storeVars, queued, worker>>

\* The cluster's aggregation controller writes the rules of aggregating roles.
Aggregate ==
    /\ role.owner = "us" /\ role.good
    /\ role.rules # granted
    /\ WriteRole([role EXCEPT !.rules = granted])
    /\ UNCHANGED <<typeVars, roleCache, crdVars, granted, queued, worker, changes>>

\* The API server serves the definition, or finds its names taken.
Establish ==
    /\ crd.owner = "us"
    /\ \/ /\ crd.established = "Unknown"
          /\ WriteDefinition([crd EXCEPT !.established = "False"])
       \/ /\ crd.established # "True"
          /\ WriteDefinition([crd EXCEPT !.established = "True"])
    /\ UNCHANGED <<typeVars, roleVars, crdCache, granted, queued, worker, changes>>

-----------------------------------------------------------------------------
(* What puts the DuckType in the work queue.                               *)

TypeSync ==
    /\ "type" \in behind
    /\ typeCache' = type
    /\ behind' = behind \ {"type"}
    /\ queued' = TRUE
    /\ UNCHANGED <<type, roleVars, crdVars, pending, granted, worker, changes>>

\* Children are watched on behalf of their owner.
RoleSync ==
    /\ "role" \in behind
    /\ roleCache' = role
    /\ behind' = behind \ {"role"}
    /\ queued' = (queued \/ "role" \in pending)
    /\ pending' = pending \ {"role"}
    /\ UNCHANGED <<typeVars, role, crdVars, granted, worker, changes>>

DefinitionSync ==
    /\ "crd" \in behind
    /\ crdCache' = crd
    /\ behind' = behind \ {"crd"}
    /\ queued' = (queued \/ "crd" \in pending)
    /\ pending' = pending \ {"crd"}
    /\ UNCHANGED <<typeVars, roleVars, crd, granted, worker, changes>>

Resync ==
    /\ ~queued
    /\ queued' = TRUE
    /\ UNCHANGED <<storeVars, granted, worker, changes>>

-----------------------------------------------------------------------------
(* The request.  worker.type is the working copy of worker.old.            *)

Dequeue ==
    /\ At("idle")
    /\ queued
    /\ queued' = FALSE
    /\ worker' = [pc |-> "roles", old |-> typeCache, type |-> typeCache,
                  current |-> "type" \notin behind, err |-> FALSE]
    /\ UNCHANGED <<storeVars, granted, changes>>

\* An error of the roles ends the Sequence.
RolesDone(status, err) ==
    worker' = [worker EXCEPT !.pc = IF err THEN "status" ELSE "definition",
                             !.type.rbac = status, !.err = err]

DefinitionDone(status, err) ==
    worker' = [worker EXCEPT !.pc = "status", !.type.established = status, !.err = err]

\* Faulty variant of KeepRoles: any role of that name will do.
KeepAnyRoles ==
    /\ At("roles")
    /\ \/ roleCache.owner = "us" /\ roleCache.good
       \/ roleCache.owner # "us" /\ role.owner # "none"
    /\ RolesDone("True", FALSE)
    /\ UNCHANGED <<storeVars, granted, queued, changes>>

\* The cached roles are as desired, or none is cached and the name is taken.
KeepRoles ==
    /\ At("roles")
    /\ \/ roleCache.owner = "us" /\ roleCache.good /\ RolesDone("True", FALSE)
       \/ roleCache.owner # "us" /\ role.owner # "none" /\ RolesDone("False", FALSE)
    /\ UNCHANGED <<storeVars, granted, queued, changes>>

CreateRoles ==
    /\ At("roles")
    /\ roleCache.owner # "us"
    /\ role.owner = "none"
    /\ WriteRole([owner |-> "us", good |-> TRUE, rules |-> {}])
    /\ RolesDone("True", FALSE)
    /\ UNCHANGED <<typeVars, roleCache, crdVars, granted, queued, changes>>

\* Faulty variant of HarmonizedRules: the empty rules of DesiredChildren.
DesiredRules == {}

\* HarmonizeImmutableFields: the desired rules are those of the cached role.
HarmonizedRules == roleCache.rules

\* MergeBeforeUpdate; an update of an older version is refused.
UpdateRoles ==
    /\ At("roles")
    /\ roleCache.owner = "us" /\ ~roleCache.good
    /\ IF "role" \notin behind
       THEN /\ WriteRole([role EXCEPT !.good = TRUE, !.rules = HarmonizedRules])
            /\ RolesDone("True", FALSE)
       ELSE RolesDone("Unknown", TRUE) /\ UNCHANGED <<role, watchVars>>
    /\ UNCHANGED <<typeVars, roleCache, crdVars, granted, queued, changes>>

\* The runtime retries when the role it cannot create is one the cache lacks.
RolesFail ==
    /\ At("roles")
    /\ \/ /\ Fault
          /\ RolesDone("Unknown", TRUE)
       \/ /\ roleCache.owner # "us" /\ role.owner = "us"
          /\ RolesDone(worker.type.rbac, TRUE)
          /\ UNCHANGED changes
    /\ UNCHANGED <<storeVars, granted, queued>>

-----------------------------------------------------------------------------
(* DuckCustomResourceDefinitionChildReconciler.                            *)

\* Faulty variant of KeepDefinition: Established is not looked at.
KeepDefinitionUnseen ==
    /\ At("definition")
    /\ crdCache.owner = "us" /\ crdCache.spec = worker.type.spec
    /\ DefinitionDone("True", FALSE)
    /\ UNCHANGED <<storeVars, granted, queued, changes>>

\* The cached definition is as desired, and its Established is reflected.
KeepDefinition ==
    /\ At("definition")
    /\ crdCache.owner = "us" /\ crdCache.spec = worker.type.spec
    /\ DefinitionDone(crdCache.established, FALSE)
    /\ UNCHANGED <<storeVars, granted, queued, changes>>

\* Invalid or AlreadyExists.
CreateRefused ==
    /\ At("definition")
    /\ crdCache.owner # "us"
    /\ worker.type.spec \in Refused \/ crd.owner # "none"
    /\ DefinitionDone("False", FALSE)
    /\ UNCHANGED <<storeVars, granted, queued, changes>>

\* Faulty variant of CreateDefinition: it replaces a definition that is there.
CreateDefinitionOver ==
    /\ At("definition")
    /\ crdCache.owner # "us"
    /\ worker.type.spec \notin Refused
    /\ WriteDefinition([owner |-> "us", spec |-> worker.type.spec,
                        established |-> "Unknown"])
    /\ DefinitionDone("Unknown", FALSE)
    /\ UNCHANGED <<typeVars, roleVars, crdCache, granted, queued, changes>>

CreateDefinition ==
    /\ At("definition")
    /\ crdCache.owner # "us"
    /\ worker.type.spec \notin Refused /\ crd.owner = "none"
    /\ WriteDefinition([owner |-> "us", spec |-> worker.type.spec,
                        established |-> "Unknown"])
    /\ DefinitionDone("Unknown", FALSE)
    /\ UNCHANGED <<typeVars, roleVars, crdCache, granted, queued, changes>>

UpdateDefinition ==
    /\ At("definition")
    /\ crdCache.owner = "us" /\ crdCache.spec # worker.type.spec
    /\ \/ /\ "crd" \in behind
          /\ DefinitionDone("Unknown", TRUE)
          /\ UNCHANGED <<crd, watchVars>>
       \/ /\ "crd" \notin behind /\ worker.type.spec \in Refused
          /\ DefinitionDone("False", FALSE)
          /\ UNCHANGED <<crd, watchVars>>
       \/ /\ "crd" \notin behind /\ worker.type.spec \notin Refused
          /\ WriteDefinition([crd EXCEPT !.spec = worker.type.spec])
          /\ DefinitionDone(crd.established, FALSE)
    /\ UNCHANGED <<typeVars, roleVars, crdCache, granted, queued, changes>>

DefinitionFails ==
    /\ At("definition")
    /\ \/ /\ Fault
          /\ DefinitionDone("Unknown", TRUE)
       \/ /\ crdCache.owner # "us" /\ crd.owner = "us"
          /\ DefinitionDone(worker.type.established, TRUE)
          /\ UNCHANGED changes
    /\ UNCHANGED <<storeVars, granted, queued>>

-----------------------------------------------------------------------------
(* The status, after the Sequence.                                         *)

Return(err) == worker' = Idle /\ queued' = (queued \/ err)

StatusUnchanged ==
    /\ At("status")
    /\ worker.type = worker.old
    /\ Return(worker.err)
    /\ UNCHANGED <<storeVars, granted, changes>>

StatusUpdate ==
    /\ At("status")
    /\ worker.type # worker.old
    /\ worker.current
    /\ type' = worker.type
    /\ behind' = behind \cup {"type"}
    /\ Return(worker.err)
    /\ UNCHANGED <<typeCache, roleVars, crdVars, pending, granted, changes>>

StatusConflict ==
    /\ At("status")
    /\ worker.type # worker.old
    /\ ~worker.current
    /\ Return(TRUE)
    /\ UNCHANGED <<storeVars, granted, changes>>

StatusFails ==
    /\ At("status")
    /\ worker.type # worker.old
    /\ Fault
    /\ Return(TRUE)
    /\ UNCHANGED <<storeVars, granted>>

\* The process starts again with what the API server lists.
Restart ==
    /\ Fault
    /\ typeCache' = type /\ roleCache' = role /\ crdCache' = crd
    /\ behind' = {} /\ pending' = {}
    /\ queued' = TRUE
    /\ worker' = Idle
    /\ UNCHANGED <<type, role, crd, granted>>

-----------------------------------------------------------------------------
WorkerStep ==
    \/ Dequeue
    \/ KeepRoles \/ CreateRoles \/ UpdateRoles \/ RolesFail
    \/ KeepDefinition \/ CreateRefused \/ CreateDefinition \/ UpdateDefinition
    \/ DefinitionFails
    \/ StatusUnchanged \/ StatusUpdate \/ StatusConflict \/ StatusFails

Next ==
    \/ Edit \/ ChangeRole \/ ChangeDefinition \/ Grant \/ Aggregate \/ Establish
    \/ TypeSync \/ RoleSync \/ DefinitionSync \/ Resync
    \/ WorkerStep
    \/ Restart

Spec == Init /\ [][Next]_vars

(* The worker, the watches, the aggregation controller and the resync of   *)
(* SyncPeriod go on.  Users, failures and Established owe nothing.         *)
Fairness ==
    /\ WF_vars(WorkerStep)
    /\ WF_vars(TypeSync) /\ WF_vars(RoleSync) /\ WF_vars(DefinitionSync)
    /\ WF_vars(Aggregate)
    /\ WF_vars(Resync)

FairSpec == Spec /\ Fairness

-----------------------------------------------------------------------------
(* Every variable has its type; a cache that is not behind holds what is   *)
(* stored, and so does a request that is current.                          *)
TypeOK ==
    /\ type \in DuckType /\ typeCache \in DuckType
    /\ role \in Role /\ roleCache \in Role
    /\ crd \in Definition /\ crdCache \in Definition
    /\ crd.spec \notin Refused
    /\ behind \subseteq {"type", "role", "crd"} /\ pending \subseteq behind \ {"type"}
    /\ "type" \notin behind => typeCache = type
    /\ "role" \notin behind => roleCache = role
    /\ "crd" \notin behind => crdCache = crd
    /\ granted \subseteq Ducks
    /\ queued \in BOOLEAN
    /\ \/ worker = Idle
       \/ /\ worker \in [pc : {"roles", "definition", "status"}, old : DuckType,
                         type : DuckType, current : BOOLEAN, err : BOOLEAN]
          /\ worker.type.spec = worker.old.spec
          /\ worker.current => worker.old = type
    /\ changes \in 0 .. MaxChanges

\* Nothing is under way that would make the controller look at the DuckType again.
Settled ==
    /\ At("idle") /\ ~queued
    /\ behind = {}

\* The controller never comes to rest with conditions or children it could have
\* known to be wrong: its definition follows .spec and Established is reflected
\* (lines 314-353), and the conditions are True only of children that are there,
\* belong to the DuckType and are as desired.
RestsReconciled ==
    Settled =>
        /\ crd.owner = "us" /\ type.spec \notin Refused =>
              crd.spec = type.spec /\ type.established = crd.established
        /\ type.established = "True" => crd.owner = "us" /\ type.spec \notin Refused
        /\ type.rbac = "True" => role.owner = "us" /\ role.good

\* "rules for aggregate roles are managed upstream" (line 116): while the roles
\* exist their rules change only to what the Ducks grant.  The controller, which
\* updates from a cached role, never brings older rules back.
RulesManagedUpstream ==
    [][role.owner = "us" /\ role'.owner = "us" =>
           role'.rules \in {role.rules, granted}]_vars

\* Whatever its caches say, a step of the controller changes neither children that do
\* not belong to the DuckType nor the spec that users write.
OthersKept ==
    [][worker'.pc # worker.pc =>
           /\ role.owner = "other" => role' = role
           /\ crd.owner = "other" => crd' = crd
           /\ type'.spec = type.spec]_vars

\* With resyncs all comes to be as it should, for good: the roles grant what the
\* Ducks grant (README.md:75, "all current and future known resources"), the
\* conditions say what became of the children.
ChildrenConverge ==
    <>[](/\ type.rbac = IF role.owner = "us" THEN "True" ELSE "False"
         /\ role.owner = "us" => role.good /\ role.rules = granted
         /\ type.established = IF type.spec \in Refused \/ crd.owner # "us"
                               THEN "False" ELSE crd.established)

=============================================================================
