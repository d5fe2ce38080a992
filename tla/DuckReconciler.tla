--------------------------- MODULE DuckReconciler ---------------------------
(***************************************************************************)
(* The controller a sub-manager runs for the Ducks of one DuckType         *)
(* (internal/controller/ducktype_controller.go): it keeps the ClusterRoles *)
(* of a Duck and sets the conditions RBAC and Available, from which Ready  *)
(* follows.  Available is what discovery says of the API the Duck marks;   *)
(* the controller hears of changes to that API only through the            *)
(* CustomResourceDefinition (or APIService) it tracks, and discovery       *)
(* changes at another time than that object.                               *)
(*                                                                         *)
(* Ducks do not share state, so the module follows one.  Its two roles are *)
(* written by the same calls and stand or fall together here.              *)
(***************************************************************************)
EXTENDS Naturals

CONSTANTS
    Kinds,       \* kinds a Duck may name and an API may be served under
    None,        \* the API does not exist
    MaxChanges,  \* bound on what users do to the Duck, the API and the roles
    MaxFaults    \* bound on failing calls and restarts

ASSUME DuckAssumption ==
    /\ None \notin Kinds
    /\ MaxChanges \in Nat
    /\ MaxFaults \in Nat

VARIABLES
    duck,       \* the Duck at the API server
    cache,      \* the Duck in the informer cache of the sub-manager
    queued,     \* the Duck is in the work queue
    worker,     \* the reconcile request in progress
    tracked,    \* the tracker knows that the Duck depends on the definition
    crd,        \* kind that the definition behind the Duck names, or None
    crdEvents,  \* events of the definition not yet delivered
    api,        \* kind that discovery names, or None
    late,       \* discovery changed after its event, and was not read since
    roles,      \* the ClusterRoles with the names of the Duck's roles
    roleEvent,  \* what happened to the Duck's roles is not yet delivered
    changes, faults

dependencyVars == <<crd, crdEvents, api, late>>
roleVars == <<roles, roleEvent>>
vars == <<duck, cache, queued, worker, tracked, crd, crdEvents, api, late,
          roles, roleEvent, changes, faults>>

Status == {"True", "False", "Unknown"}

\* .spec.kind, whether .spec.group is the group in the name, and the conditions.
Duck == [rv : Nat, kind : Kinds, group : BOOLEAN, rbac : Status, available : Status]

Idle == [pc |-> "idle"]

At(pc) == worker.pc = pc

Change == changes < MaxChanges /\ changes' = changes + 1

Fault == faults < MaxFaults /\ faults' = faults + 1

Init ==
    /\ duck \in [rv : {1}, kind : Kinds, group : BOOLEAN, rbac : {"Unknown"},
                 available : {"Unknown"}]
    /\ cache = duck
    /\ queued = TRUE
    /\ worker = Idle
    /\ tracked = FALSE
    /\ crd \in Kinds \cup {None}
    /\ crdEvents = 0
    /\ api = crd
    /\ late = FALSE
    /\ roles \in {"absent", "foreign"}
    /\ roleEvent = FALSE
    /\ changes = 0 /\ faults = 0

-----------------------------------------------------------------------------
(* Users of the cluster and the API server.                                *)

Edit ==
    /\ Change
    /\ \E k \in Kinds, g \in BOOLEAN :
          duck' = [duck EXCEPT !.rv = @ + 1, !.kind = k, !.group = g]
    /\ UNCHANGED <<cache, queued, worker, tracked, dependencyVars, roleVars, faults>>

ChangeDefinition ==
    /\ Change
    /\ \E k \in (Kinds \cup {None}) \ {crd} : crd' = k
    /\ crdEvents' = crdEvents + 1
    /\ UNCHANGED <<duck, cache, queued, worker, tracked, api, late, roleVars, faults>>

\* Discovery follows the definition in its own time.
DiscoveryChanges ==
    /\ api # crd
    /\ api' = crd
    /\ late' = (late \/ crdEvents = 0)
    /\ UNCHANGED <<duck, cache, queued, worker, tracked, crd, crdEvents, roleVars,
                   changes, faults>>

\* Somebody edits or removes roles, or creates others under the names of the Duck's.
\* The watch of the sub-manager tells of those that the Duck owns.
ChangeRoles ==
    /\ Change
    /\ \/ roles = "ours" /\ roles' = "drifted"
       \/ roles # "absent" /\ roles' = "absent"
       \/ roles = "absent" /\ roles' = "foreign"
    /\ roleEvent' = (roleEvent \/ roles \in {"ours", "drifted"})
    /\ UNCHANGED <<duck, cache, queued, worker, tracked, dependencyVars, faults>>

-----------------------------------------------------------------------------
(* What puts the Duck in the work queue.                                   *)

CacheSync ==
    /\ cache # duck
    /\ cache' = duck
    /\ queued' = TRUE
    /\ UNCHANGED <<duck, worker, tracked, dependencyVars, roleVars, changes, faults>>

\* EnqueueTracked.
DefinitionEvent ==
    /\ crdEvents > 0
    /\ crdEvents' = crdEvents - 1
    /\ queued' = (queued \/ tracked)
    /\ UNCHANGED <<duck, cache, worker, tracked, crd, api, late, roleVars, changes,
                   faults>>

RoleEvent ==
    /\ roleEvent
    /\ roleEvent' = FALSE
    /\ queued' = TRUE
    /\ UNCHANGED <<duck, cache, worker, tracked, dependencyVars, roles, changes, faults>>

\* SyncPeriod.
Resync ==
    /\ ~queued
    /\ queued' = TRUE
    /\ UNCHANGED <<duck, cache, worker, tracked, dependencyVars, roleVars, changes,
                   faults>>

-----------------------------------------------------------------------------
(* The reconcile request.  worker.duck is the working copy of worker.old.  *)

Return(err) == worker' = Idle /\ queued' = (queued \/ err)

ToStatus(d, err) == worker' = [worker EXCEPT !.pc = "status", !.duck = d, !.err = err]

Dequeue ==
    /\ At("idle")
    /\ queued
    /\ queued' = FALSE
    /\ worker' = [pc |-> "roles", old |-> cache, duck |-> cache, err |-> FALSE]
    /\ UNCHANGED <<duck, cache, tracked, dependencyVars, roleVars, changes, faults>>

\* DesiredChildren returns an error: no condition is set.
DesiredChildrenFail ==
    /\ At("roles")
    /\ Fault
    /\ ToStatus(worker.duck, TRUE)
    /\ UNCHANGED <<duck, cache, queued, tracked, dependencyVars, roleVars, changes>>

\* Faulty variant of ReconcileRoles: roles that exist are not updated.
ReconcileRolesOnce ==
    /\ At("roles")
    /\ ~roleEvent
    /\ roles' = IF roles = "absent" THEN "ours" ELSE roles
    /\ worker' = [worker EXCEPT
                    !.pc = "track",
                    !.duck.rbac = IF roles = "foreign" THEN "False" ELSE "True"]
    /\ UNCHANGED <<duck, cache, queued, tracked, dependencyVars, roleEvent, changes,
                   faults>>

\* Roles are created, or updated if they differ.  Those of others block the Duck's,
\* which is no error to retry.
ReconcileRoles ==
    /\ At("roles")
    /\ ~roleEvent
    /\ roles' = IF roles = "foreign" THEN "foreign" ELSE "ours"
    /\ worker' = [worker EXCEPT
                    !.pc = "track",
                    !.duck.rbac = IF roles = "foreign" THEN "False" ELSE "True"]
    /\ UNCHANGED <<duck, cache, queued, tracked, dependencyVars, roleEvent, changes,
                   faults>>

\* The cache does not show yet what happened to the roles: they seem to be in order.
RolesSeenLate ==
    /\ At("roles")
    /\ roleEvent
    /\ worker' = [worker EXCEPT !.pc = "track", !.duck.rbac = "True"]
    /\ UNCHANGED <<duck, cache, queued, tracked, dependencyVars, roleVars, changes,
                   faults>>

\* The API server refuses the roles as invalid, which is no error to retry either.
RolesInvalid ==
    /\ At("roles")
    /\ roles \in {"absent", "drifted"}
    /\ Fault
    /\ worker' = [worker EXCEPT !.pc = "track", !.duck.rbac = "False"]
    /\ UNCHANGED <<duck, cache, queued, tracked, dependencyVars, roleVars, changes>>

RolesFail ==
    /\ At("roles")
    /\ Fault
    /\ ToStatus([worker.duck EXCEPT !.rbac = "Unknown"], TRUE)
    /\ UNCHANGED <<duck, cache, queued, tracked, dependencyVars, roleVars, changes>>

\* Faulty variant of Track: the definition is not tracked.
TrackNothing ==
    /\ At("track")
    /\ worker' = [worker EXCEPT !.pc = "discover"]
    /\ UNCHANGED <<duck, cache, queued, tracked, dependencyVars, roleVars, changes,
                   faults>>

Track ==
    /\ At("track")
    /\ tracked' = TRUE
    /\ worker' = [worker EXCEPT !.pc = "discover"]
    /\ UNCHANGED <<duck, cache, queued, dependencyVars, roleVars, changes, faults>>

\* What discovery says of the Duck: found, with the group and kind it names.
Verdict(d) == IF api = d.kind /\ d.group THEN "True" ELSE "False"

Discover ==
    /\ At("discover")
    /\ ToStatus([worker.duck EXCEPT !.available = Verdict(worker.duck)], FALSE)
    /\ late' = FALSE
    /\ UNCHANGED <<duck, cache, queued, tracked, crd, crdEvents, api, roleVars, changes,
                   faults>>

\* Available keeps the value it had.
DiscoveryFails ==
    /\ At("discover")
    /\ Fault
    /\ ToStatus(worker.duck, TRUE)
    /\ UNCHANGED <<duck, cache, queued, tracked, dependencyVars, roleVars, changes>>

StatusUnchanged ==
    /\ At("status")
    /\ worker.duck = worker.old
    /\ Return(worker.err)
    /\ UNCHANGED <<duck, cache, tracked, dependencyVars, roleVars, changes, faults>>

StatusUpdate ==
    /\ At("status")
    /\ worker.duck # worker.old
    /\ worker.old.rv = duck.rv
    /\ duck' = [worker.duck EXCEPT !.rv = @ + 1]
    /\ Return(worker.err)
    /\ UNCHANGED <<cache, tracked, dependencyVars, roleVars, changes, faults>>

StatusConflict ==
    /\ At("status")
    /\ worker.duck # worker.old
    /\ worker.old.rv # duck.rv
    /\ Return(TRUE)
    /\ UNCHANGED <<duck, cache, tracked, dependencyVars, roleVars, changes, faults>>

StatusFails ==
    /\ At("status")
    /\ worker.duck # worker.old
    /\ Fault
    /\ Return(TRUE)
    /\ UNCHANGED <<duck, cache, tracked, dependencyVars, roleVars, changes>>

\* The sub-manager is started again, with a new tracker and new caches.
Restart ==
    /\ Fault
    /\ cache' = duck
    /\ queued' = TRUE
    /\ worker' = Idle
    /\ tracked' = FALSE
    /\ crdEvents' = IF crd = None THEN 0 ELSE 1
    /\ roleEvent' = FALSE
    /\ UNCHANGED <<duck, crd, api, late, roles, changes>>

-----------------------------------------------------------------------------
WorkerStep ==
    \/ Dequeue
    \/ DesiredChildrenFail
    \/ ReconcileRoles \/ RolesSeenLate \/ RolesInvalid \/ RolesFail
    \/ Track
    \/ Discover \/ DiscoveryFails
    \/ StatusUnchanged \/ StatusUpdate \/ StatusConflict \/ StatusFails

Next ==
    \/ Edit \/ ChangeDefinition \/ DiscoveryChanges \/ ChangeRoles
    \/ CacheSync \/ DefinitionEvent \/ RoleEvent \/ Resync
    \/ WorkerStep
    \/ Restart

Spec == Init /\ [][Next]_vars

(* The worker runs, watches deliver, discovery follows the definitions and *)
(* the cache is resynced every SyncPeriod.  Users and failures owe nothing. *)
Fairness ==
    /\ WF_vars(WorkerStep)
    /\ WF_vars(CacheSync) /\ WF_vars(DefinitionEvent) /\ WF_vars(RoleEvent)
    /\ WF_vars(DiscoveryChanges)
    /\ WF_vars(Resync)

FairSpec == Spec /\ Fairness

-----------------------------------------------------------------------------
(* Every variable has its type; no copy is newer than the stored Duck.     *)
TypeOK ==
    /\ duck \in Duck /\ cache \in Duck /\ cache.rv <= duck.rv
    /\ \/ worker = Idle
       \/ /\ worker \in [pc : {"roles", "track", "discover", "status"}, old : Duck,
                         duck : Duck, err : BOOLEAN]
          /\ worker.old.rv <= duck.rv
          /\ worker.duck.rv = worker.old.rv
    /\ queued \in BOOLEAN /\ tracked \in BOOLEAN /\ late \in BOOLEAN
    /\ crd \in Kinds \cup {None} /\ api \in Kinds \cup {None}
    /\ crdEvents \in Nat
    /\ roles \in {"absent", "ours", "drifted", "foreign"} /\ roleEvent \in BOOLEAN
    /\ changes \in 0 .. MaxChanges /\ faults \in 0 .. MaxFaults

\* Nothing is under way that would make the controller look at the Duck again.
Settled ==
    /\ At("idle") /\ ~queued
    /\ cache = duck
    /\ crdEvents = 0 /\ ~roleEvent

\* The controller never comes to rest with a wrong answer it could have known of:
\* when nothing is under way, Available is what discovery says unless discovery
\* changed after its event was delivered (ready check, lines 522-557: tracking
\* comes before reading), and RBAC is True only while the roles exist as the code
\* wants them, whoever edited or removed them in the meantime.
NoLostChange ==
    Settled => /\ late \/ duck.available = Verdict(duck)
               /\ duck.rbac = "True" => roles = "ours"

\* With resyncs the roles come to be as the code wants them, unless others hold their
\* names, and the conditions come to say, for good, what is the case: also when
\* discovery was late, roles of others went away or were refused, calls failed or a restart lost
\* the tracker.
StatusConverges ==
    <>[](/\ duck.available = Verdict(duck)
         /\ roles \in {"ours", "foreign"}
         /\ duck.rbac = IF roles = "foreign" THEN "False" ELSE "True")

=============================================================================
