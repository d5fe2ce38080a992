----------------------------- MODULE ControlPlane -----------------------------
(***************************************************************************)
(* The process with its webhook for DuckTypes and the sub-managers that    *)
(* its controller starts: Process, Admission and SubManagerCache together. *)
(* A request for a DuckType is refused while no webhook serves.  What      *)
(* DuckTypes there are outlives the process, caches do not.                *)
(*                                                                         *)
(* The reconcile requests that start and stop a sub-manager are in         *)
(* SubManagerReconciler; here each is one step.                            *)
(***************************************************************************)
EXTENDS Process, Admission, SubManagerCache

vars == <<processVars, stored, cacheVars>>

Init == ProcessInit /\ AdmissionInit /\ CacheInit

GroupKind(spec) == <<spec.group, spec.kind>>

GroupListKind(spec) == <<spec.group, spec.listKind>>

LocalTypes(spec) == {GroupKind(spec), GroupListKind(spec)}

ASSUME ControlPlaneAssumption ==
    /\ Owners = Names
    /\ \A spec \in Specs : SpecValid(Default(spec)) =>
        GroupKind(Default(spec)) \in DuckKinds /\ GroupListKind(Default(spec)) \in ListKinds

Leading == pc = "leading"

ProcessSteps == (SetUp \/ Restart) /\ UNCHANGED <<stored, cacheVars>>

IsElected == Elected /\ UNCHANGED <<stored, cacheVars>>

Exits == Exit /\ LoseCaches /\ UNCHANGED stored

Requests ==
    /\ Serving
    /\ \E n \in Names : Create(n) \/ Update(n)
    /\ UNCHANGED <<processVars, cacheVars>>

\* The finalizer keeps the DuckType until its sub-manager has stopped.
Finalized(n) == Leading /\ Delete(n) /\ Stop(n) /\ UNCHANGED processVars

\* The DuckType is reconciled with its defaults filled in.
StartSubManager(n) ==
    /\ Leading /\ stored[n] # None
    /\ LET spec == Default(stored[n])
       IN  New(n, GroupKind(spec), GroupListKind(spec), LocalTypes(spec))
    /\ UNCHANGED <<processVars, stored>>

\* The controller applies the definition; the API server takes it if no other has its
\* kind and its plural holds no dot.
Established(k) ==
    /\ Leading
    /\ \E n \in Names : /\ stored[n] # None /\ GroupKind(Default(stored[n])) = k
                        /\ Len(stored[n].plural) = 1
    /\ Define(k)
    /\ UNCHANGED <<processVars, stored>>

\* With its owner, or deleted by a user.
Removed(k) == Undefine(k) /\ UNCHANGED <<processVars, stored>>

ManagerSteps(n) == WaitForCacheSync(n) \/ GetInformer(n) \/ Run(n) \/ SyncTimeout(n)

CacheSteps ==
    /\ \/ \E k \in Kinds : SyncShared(k) \/ \E n \in Names : SyncLocal(n, k)
       \/ \E n \in Names : ManagerSteps(n) \/ Get(n) \/ List(n)
    /\ UNCHANGED <<processVars, stored>>

Next ==
    \/ ProcessSteps \/ IsElected \/ Exits
    \/ Requests
    \/ \E n \in Names : Finalized(n) \/ StartSubManager(n)
    \/ \E k \in DuckKinds : Established(k) \/ Removed(k)
    \/ CacheSteps

Spec == Init /\ [][Next]_vars

\* Each informer lists in a goroutine of its own until it succeeds, and each
\* sub-manager starts in one.  Nothing is assumed of users, definitions or the process.
Fairness ==
    /\ \A k \in Kinds : WF_vars(SyncShared(k) /\ UNCHANGED <<processVars, stored>>)
    /\ \A n \in Names :
        /\ WF_vars(ManagerSteps(n) /\ UNCHANGED <<processVars, stored>>)
        /\ \A k \in Kinds : WF_vars(SyncLocal(n, k) /\ UNCHANGED <<processVars, stored>>)

FairSpec == Spec /\ Fairness

-----------------------------------------------------------------------------

\* All variables hold what the code may put there; the manager runs no watcher that
\* was not made.
TypeOK ==
    /\ pc \in {"flags", "webhookServer", "metricsServer", "manager", "controller", "webhook",
               "metricsWatcher", "webhookWatcher", "checks", "start", "serving", "leading",
               "exited"}
    /\ flags \in FlagSets /\ exits \in 0 .. MaxExits
    /\ watchers \in SUBSET Servers /\ runnables \in SUBSET watchers
    /\ stored \in [Names -> Specs \cup {None}]
    /\ api \in [DuckKinds -> [live : BOOLEAN, incarnation : 0 .. MaxIncarnations]]
    /\ shared \in [Kinds -> Informer]
    /\ sub \in [Names -> Manager \cup {NoManager}]

\* No read of a sub-manager returns a Duck that had ceased to exist before the
\* sub-manager was made (Cache.Get, Cache.List), however often the kind was
\* defined and removed, whether or not the DuckType names its list kind.
FreshReads ==
    \A n \in Names : sub[n] # NoManager =>
        sub[n].read = 0 \/ sub[n].read >= sub[n].since

\* A sub-manager has a DuckType, and was made for kinds that are not empty and have one
\* group, with which the name of the DuckType ends.  ValidateUpdate does not compare an
\* update with what it replaces and no update reaches the sub-manager: if it moves a part
\* of the name from the group to the plural the two groups differ, and only then.
KindsFitName ==
    \A n \in Names : sub[n] # NoManager =>
        /\ stored[n] # None
        /\ sub[n].kind[2] # Empty /\ sub[n].list[2] # Empty
        /\ sub[n].kind[1] = sub[n].list[1] /\ HasSuffix(n, sub[n].kind[1])
        /\ sub[n].kind[1] = stored[n].group
            \/ Len(sub[n].kind[1]) + Len(stored[n].plural) # Len(n)

\* Whatever DuckType was admitted is admitted when it is written again, as it is stored
\* and with the defaults that only the controller fills in: the webhook does not refuse
\* the update that adds or removes the finalizer (ValidateCreate, ValidateUpdate,
\* Default).
StaysAdmitted ==
    \A n \in Names : stored[n] # None =>
        ValidateUpdate(n, stored[n]) /\ ValidateUpdate(n, Default(stored[n]))

\* A sub-manager that starts waits for informers of served kinds only, though it waits
\* for the whole cache of the manager, in which other sub-managers ask for informers of
\* their own (Cache.WaitForCacheSync, Cache.GetInformer, Cache.List).
WaitsForServedOnly ==
    \A n \in Names : Is(n, "starting") =>
        \A k \in Kinds : shared[k] # NoInformer \/ sub[n].local[k] # NoInformer => Served(k)

\* A sub-manager that starts comes to run or fails or is stopped: a kind that is
\* never served holds up no sub-manager but its own (Cache.WaitForCacheSync).
StartEnds ==
    \A n \in Names :
        sub[n] # NoManager /\ sub[n].phase \in {"starting", "started", "watching"}
            ~> sub[n] = NoManager \/ sub[n].phase \in {"running", "failed"}

=============================================================================
