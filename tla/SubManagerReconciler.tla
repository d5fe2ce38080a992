------------------------ MODULE SubManagerReconciler ------------------------
(***************************************************************************)
(* The life of the sub-managers that reconciler.io/ducks runs, one for     *)
(* every DuckType (reconcilers/submanager.go), as it is wired into the     *)
(* DuckType controller (internal/controller/ducktype_controller.go): the   *)
(* finalizer is added first, then the child resources are reconciled, then *)
(* the sub-manager is started or shut down, then the finalizer is cleared. *)
(*                                                                         *)
(* One worker reconciles DuckTypes (controller-runtime's default), reading *)
(* them from an informer cache that lags the API server.  The API server   *)
(* keeps every version of an object: an object's resourceVersion is its    *)
(* index in hist, and a write made on an older version is refused.         *)
(***************************************************************************)
EXTENDS Naturals, Sequences

CONSTANTS
    Names,        \* names of DuckTypes
    UIDs,         \* UIDs the API server may assign, each at most once
    None,         \* no UID, no name
    MaxVersions,  \* bound on versions from edits and status updates
    MaxFaults     \* bound on API errors, sub-manager failures and crashes

ASSUME ConstantsAssumption ==
    /\ None \notin UIDs
    /\ MaxVersions \in Nat
    /\ MaxFaults \in Nat

VARIABLES
    hist,       \* hist[n]: versions of DuckType n at the API server, newest last
    seen,       \* seen[n]: the version of n in the manager's informer cache
    queue,      \* names waiting in the controller's work queue
    worker,     \* the reconcile request in progress
    managers,   \* keys of the map r.managers
    goroutine,  \* goroutine[u]: where the goroutine of start() is for UID u
    cancelled,  \* UIDs whose entry's cancel function was called
    faults      \* failures so far (bounded by MaxFaults)

ctrlVars == <<seen, queue, worker>>
subVars == <<managers, goroutine, cancelled>>
vars == <<hist, seen, queue, worker, managers, goroutine, cancelled, faults>>

-----------------------------------------------------------------------------
(* Objects and the API server.                                             *)

DuckType == [uid : UIDs, deleting : BOOLEAN, finalizer : BOOLEAN]

Absent == [uid |-> None, deleting |-> FALSE, finalizer |-> FALSE]

Version == DuckType \cup {Absent}

Latest(n) == hist[n][Len(hist[n])]

Cached(n) == hist[n][seen[n]]

UsedUIDs == {u \in UIDs :
                \E n \in Names : \E i \in DOMAIN hist[n] : hist[n][i].uid = u}

Store(n, v) == hist' = [hist EXCEPT ![n] = Append(@, v)]

Fault == faults < MaxFaults /\ faults' = faults + 1

-----------------------------------------------------------------------------
(* The reconcile request in progress.  rv is the resourceVersion of obj.   *)

Idle == [pc |-> "idle", name |-> None, obj |-> Absent, rv |-> 0, err |-> FALSE]

PCs == {"idle", "finalizer", "children", "sub", "await", "clear", "status"}

Worker == [pc : PCs, name : Names \cup {None}, obj : Version, rv : Nat,
           err : BOOLEAN]

At(pc) == worker.pc = pc

Goto(pc) == worker' = [worker EXCEPT !.pc = pc]

\* Leave the sub reconcilers with or without an error.
ToStatus(e) == worker' = [worker EXCEPT !.pc = "status", !.err = e]

\* Faulty variant of Return: the error is logged, the request is not put back.
ReturnWithoutRetry(e) ==
    /\ worker' = Idle
    /\ queue' = queue

\* The request is done; an error puts it back on the work queue.
Return(e) ==
    /\ worker' = Idle
    /\ queue' = IF e THEN queue \cup {worker.name} ELSE queue

\* Faulty variant of Current: writes carry no resourceVersion.
CurrentAlways == TRUE

\* The object was not changed since the worker read or wrote it.
Current == worker.rv = Len(hist[worker.name])

-----------------------------------------------------------------------------
Init ==
    /\ hist = [n \in Names |-> <<Absent>>]
    /\ seen = [n \in Names |-> 1]
    /\ queue = {}
    /\ worker = Idle
    /\ managers = {}
    /\ goroutine = [u \in UIDs |-> "none"]
    /\ cancelled = {}
    /\ faults = 0

-----------------------------------------------------------------------------
(* Users of the cluster.                                                   *)

Create(n) ==
    /\ Latest(n) = Absent
    /\ \E u \in UIDs \ UsedUIDs :
          Store(n, [uid |-> u, deleting |-> FALSE, finalizer |-> FALSE])
    /\ UNCHANGED <<ctrlVars, subVars, faults>>

\* Any write by a user: a new version, its contents are not told apart here.
Edit(n) ==
    /\ Latest(n) # Absent
    /\ Len(hist[n]) < MaxVersions
    /\ Store(n, Latest(n))
    /\ UNCHANGED <<ctrlVars, subVars, faults>>

\* The API server removes an object at once unless a finalizer holds it.
Delete(n) ==
    /\ Latest(n) # Absent
    /\ ~Latest(n).deleting
    /\ Store(n, IF Latest(n).finalizer THEN [Latest(n) EXCEPT !.deleting = TRUE]
                                       ELSE Absent)
    /\ UNCHANGED <<ctrlVars, subVars, faults>>

-----------------------------------------------------------------------------
(* The informer of the DuckType controller.                                *)

CacheSync(n) ==
    /\ seen[n] < Len(hist[n])
    /\ seen' = [seen EXCEPT ![n] = @ + 1]
    /\ queue' = queue \cup {n}
    /\ UNCHANGED <<hist, worker, subVars, faults>>

\* SyncPeriod: every object in the cache is handed to the controller again.
Resync(n) ==
    /\ Cached(n) # Absent
    /\ n \notin queue
    /\ queue' = queue \cup {n}
    /\ UNCHANGED <<hist, seen, worker, subVars, faults>>

-----------------------------------------------------------------------------
(* ResourceReconciler and WithFinalizer: take a request, ensure finalizer. *)

\* Faulty variant of Dequeue: the sub reconcilers run without WithFinalizer.
DequeueWithoutFinalizer(n) ==
    /\ At("idle")
    /\ n \in queue
    /\ queue' = queue \ {n}
    /\ worker' =
          IF Cached(n) = Absent THEN Idle
          ELSE [pc |-> "children", name |-> n, obj |-> Cached(n), rv |-> seen[n],
                err |-> FALSE]
    /\ UNCHANGED <<hist, seen, subVars, faults>>

Dequeue(n) ==
    /\ At("idle")
    /\ n \in queue
    /\ queue' = queue \ {n}
    /\ worker' =
          IF Cached(n) = Absent THEN Idle
          ELSE [pc   |-> IF Cached(n).deleting \/ Cached(n).finalizer
                         THEN "children" ELSE "finalizer",
                name |-> n, obj |-> Cached(n), rv |-> seen[n], err |-> FALSE]
    /\ UNCHANGED <<hist, seen, subVars, faults>>

AddFinalizer ==
    /\ At("finalizer")
    /\ Current
    /\ LET v == [worker.obj EXCEPT !.finalizer = TRUE] IN
          /\ Store(worker.name, v)
          /\ worker' = [worker EXCEPT !.pc = "children", !.obj = v, !.rv = @ + 1]
    /\ UNCHANGED <<seen, queue, subVars, faults>>

FinalizerConflict ==
    /\ At("finalizer")
    /\ ~Current
    /\ ToStatus(TRUE)
    /\ UNCHANGED <<hist, seen, queue, subVars, faults>>

-----------------------------------------------------------------------------
(* The ClusterRole and CustomResourceDefinition sub reconcilers: here only *)
(* whether the Sequence goes on or stops with their error.                 *)

ReconcileChildren ==
    /\ At("children")
    /\ Goto("sub")
    /\ UNCHANGED <<hist, seen, queue, subVars, faults>>

-----------------------------------------------------------------------------
(* SubManagerReconciler.Reconcile.                                         *)

\* The resource lacks the finalizer (an error), or its UID is in the map.
SkipStart ==
    /\ At("sub")
    /\ ~worker.obj.deleting
    /\ ~worker.obj.finalizer \/ worker.obj.uid \in managers
    /\ ToStatus(~worker.obj.finalizer)
    /\ UNCHANGED <<hist, seen, queue, subVars, faults>>

Start ==
    /\ At("sub")
    /\ ~worker.obj.deleting
    /\ worker.obj.finalizer
    /\ worker.obj.uid \notin managers
    /\ managers' = managers \cup {worker.obj.uid}
    /\ goroutine' = [goroutine EXCEPT ![worker.obj.uid] = "running"]
    /\ ToStatus(FALSE)
    /\ UNCHANGED <<hist, seen, queue, cancelled, faults>>

\* A deleting resource without a sub-manager: nothing to shut down.
ShutdownNothing ==
    /\ At("sub")
    /\ worker.obj.deleting
    /\ worker.obj.uid \notin managers
    /\ Goto("clear")
    /\ UNCHANGED <<hist, seen, queue, subVars, faults>>

\* Faulty variant of ShutdownCancel: shutdown does not wait for done.
ShutdownWithoutWait ==
    /\ At("sub")
    /\ worker.obj.deleting
    /\ worker.obj.uid \in managers
    /\ cancelled' = cancelled \cup {worker.obj.uid}
    /\ managers' = managers \ {worker.obj.uid}
    /\ Goto("clear")
    /\ UNCHANGED <<hist, seen, queue, goroutine, faults>>

\* Faulty variant of ShutdownCancel: the deletion timestamp is not looked at.
ShutdownOfLiveResource ==
    /\ At("sub")
    /\ worker.obj.uid \in managers
    /\ cancelled' = cancelled \cup {worker.obj.uid}
    /\ Goto("await")
    /\ UNCHANGED <<hist, seen, queue, managers, goroutine, faults>>

\* Faulty variant of ShutdownCancel: it waits for done without cancelling.
ShutdownWithoutCancel ==
    /\ At("sub")
    /\ worker.obj.deleting
    /\ worker.obj.uid \in managers
    /\ Goto("await")
    /\ UNCHANGED <<hist, seen, queue, subVars, faults>>

ShutdownCancel ==
    /\ At("sub")
    /\ worker.obj.deleting
    /\ worker.obj.uid \in managers
    /\ cancelled' = cancelled \cup {worker.obj.uid}
    /\ Goto("await")
    /\ UNCHANGED <<hist, seen, queue, managers, goroutine, faults>>

\* <-manager.done: the channel is unbuffered, so this is also the send of the
\* goroutine, which then ends.
ShutdownDone ==
    /\ At("await")
    /\ goroutine[worker.obj.uid] = "returned"
    /\ goroutine' = [goroutine EXCEPT ![worker.obj.uid] = "none"]
    /\ managers' = managers \ {worker.obj.uid}
    /\ cancelled' = cancelled \ {worker.obj.uid}
    /\ Goto("clear")
    /\ UNCHANGED <<hist, seen, queue, faults>>

-----------------------------------------------------------------------------
(* The goroutine of start(): mgr.Start returns when its context is         *)
(* cancelled, or early with an error; then the goroutine waits in          *)
(* done <- err.                                                            *)

SubManagerStops(u) ==
    /\ goroutine[u] = "running"
    /\ u \in cancelled
    /\ goroutine' = [goroutine EXCEPT ![u] = "returned"]
    /\ UNCHANGED <<hist, ctrlVars, managers, cancelled, faults>>

\* Faulty variant of SubManagerFails: the goroutine ends without done <- err.
SubManagerFailsUnheard(u) ==
    /\ goroutine[u] = "running"
    /\ Fault
    /\ goroutine' = [goroutine EXCEPT ![u] = "none"]
    /\ UNCHANGED <<hist, ctrlVars, managers, cancelled>>

SubManagerFails(u) ==
    /\ goroutine[u] = "running"
    /\ Fault
    /\ goroutine' = [goroutine EXCEPT ![u] = "returned"]
    /\ UNCHANGED <<hist, ctrlVars, managers, cancelled>>

-----------------------------------------------------------------------------
(* The end of the request.                                                 *)

\* Without its finalizer the deleting object is removed by the API server.
ClearFinalizer ==
    /\ At("clear")
    /\ Current
    /\ Store(worker.name, Absent)
    /\ Return(FALSE)
    /\ UNCHANGED <<seen, subVars, faults>>

ClearConflict ==
    /\ At("clear")
    /\ ~Current
    /\ Return(TRUE)
    /\ UNCHANGED <<hist, seen, subVars, faults>>

\* An API call or the set-up of the sub-manager fails: the Sequence stops.
StepFails ==
    /\ worker.pc \in {"finalizer", "children", "sub", "clear"}
    /\ At("sub") => ~worker.obj.deleting /\ worker.obj.uid \notin managers
    /\ Fault
    /\ ToStatus(TRUE)
    /\ UNCHANGED <<hist, seen, queue, subVars>>

\* The status is as it was, or the resource is being deleted.
StatusUnchanged ==
    /\ At("status")
    /\ Return(worker.err)
    /\ UNCHANGED <<hist, seen, subVars, faults>>

StatusUpdate ==
    /\ At("status")
    /\ ~worker.obj.deleting
    /\ Len(hist[worker.name]) < MaxVersions
    /\ Current
    /\ Store(worker.name, worker.obj)
    /\ Return(worker.err)
    /\ UNCHANGED <<seen, subVars, faults>>

StatusConflict ==
    /\ At("status")
    /\ ~worker.obj.deleting
    /\ ~Current
    /\ Return(TRUE)
    /\ UNCHANGED <<hist, seen, subVars, faults>>

-----------------------------------------------------------------------------
\* The process ends, all its goroutines with it, and starts again: the
\* controller is handed every object of the first list.
Crash ==
    /\ Fault
    /\ seen' = [n \in Names |-> Len(hist[n])]
    /\ queue' = {n \in Names : Latest(n) # Absent}
    /\ worker' = Idle
    /\ managers' = {}
    /\ goroutine' = [u \in UIDs |-> "none"]
    /\ cancelled' = {}
    /\ UNCHANGED hist

-----------------------------------------------------------------------------
WorkerStep ==
    \/ AddFinalizer
    \/ FinalizerConflict
    \/ ReconcileChildren
    \/ SkipStart
    \/ Start
    \/ ShutdownNothing
    \/ ShutdownCancel
    \/ ShutdownDone
    \/ ClearFinalizer
    \/ ClearConflict
    \/ StepFails
    \/ StatusUnchanged
    \/ StatusUpdate
    \/ StatusConflict

NameStep(n) ==
    \/ Create(n)
    \/ Edit(n)
    \/ Delete(n)
    \/ CacheSync(n)
    \/ Resync(n)
    \/ Dequeue(n)

GoroutineStep(u) ==
    \/ SubManagerStops(u)
    \/ SubManagerFails(u)

Next ==
    \/ WorkerStep
    \/ \E n \in Names : NameStep(n)
    \/ \E u \in UIDs : GoroutineStep(u)
    \/ Crash

Spec == Init /\ [][Next]_vars

(* The worker is a goroutine that runs whenever it can, the work queue is  *)
(* first-in first-out (so a waiting name is taken however often others are *)
(* put back), the watch delivers every version, and mgr.Start returns once *)
(* its context is cancelled.  Users, failures and resyncs owe nothing.     *)
Fairness ==
    /\ WF_vars(WorkerStep)
    /\ \A n \in Names : SF_vars(Dequeue(n)) /\ WF_vars(CacheSync(n))
    /\ \A u \in UIDs : WF_vars(SubManagerStops(u))

FairSpec == Spec /\ Fairness

\* With the resync that SyncPeriod brings about over and over again.
ResyncSpec == FairSpec /\ \A n \in Names : WF_vars(Resync(n))

-----------------------------------------------------------------------------
(* Every variable has its type; worker.rv and seen point into hist.        *)
TypeOK ==
    /\ hist \in [Names -> Seq(Version)]
    /\ seen \in [Names -> Nat]
    /\ \A n \in Names : seen[n] \in 1 .. Len(hist[n])
    /\ queue \subseteq Names
    /\ worker \in Worker
    /\ ~At("idle") => /\ worker.name \in Names
                     /\ worker.obj \in DuckType
                     /\ worker.rv \in 1 .. Len(hist[worker.name])
    /\ managers \subseteq UIDs
    /\ goroutine \in [UIDs -> {"none", "running", "returned"}]
    /\ cancelled \subseteq UIDs
    /\ faults \in 0 .. MaxFaults

\* A goroutine that start() launched, whether its sub-manager still runs or it
\* waits in done <- err, never outlives its DuckType: the API server still
\* stores the object with that UID, held by the finalizer.  Reconcile demands
\* the finalizer before start() and shutdown() blocks before WithFinalizer
\* clears it; both act on a cached copy of the object.
NoOrphanSubManager ==
    \A u \in UIDs : goroutine[u] # "none" =>
        \E n \in Names : Latest(n).uid = u /\ Latest(n).finalizer

\* shutdown() cancels a sub-manager only when the API server has its DuckType
\* marked for deletion, however old the copy that Reconcile was given.
CancelledOnlyWhenDeleting ==
    \A u \in cancelled :
        \E n \in Names : Latest(n).uid = u /\ Latest(n).deleting

\* Something is under way that makes the controller look at DuckType n again.
Pending(n) ==
    \/ n \in queue
    \/ seen[n] < Len(hist[n])
    \/ ~At("idle") /\ worker.name = n

\* The controller forgets no DuckType: when nothing is under way for one that is
\* stored, it is held by the finalizer, not being deleted, and start() has put it in
\* the map.  Conflicts, errors and restarts leave a request in the queue, and a copy
\* that is not the latest has a version behind it that the watch still delivers.
NothingForgotten ==
    \A n \in Names : ~Pending(n) /\ Latest(n) # Absent =>
        /\ ~Latest(n).deleting /\ Latest(n).finalizer
        /\ Latest(n).uid \in managers

\* The only worker blocks in <-manager.done for a goroutine that is there, whose
\* context is cancelled: also one whose sub-manager had failed long before waits to
\* send.  Nobody else receives from done, so the send of each is for this worker.
AwaitedAnswers ==
    At("await") => /\ worker.obj.uid \in cancelled
                   /\ goroutine[worker.obj.uid] # "none"

\* No write of the controller, which all start from a cached copy, takes back what
\* another has written: the mark of a deletion and the finalizer stay until the
\* object is removed, and an object that was removed does not come back.
NoLostWrite ==
    [][\A n \in Names :
          IF Latest(n) = Absent THEN Latest(n)'.uid \notin UsedUIDs
          ELSE \/ Latest(n)' = Absent
               \/ /\ Latest(n)'.uid = Latest(n).uid
                  /\ Latest(n).deleting => Latest(n)'.deleting
                  /\ Latest(n).finalizer => Latest(n)'.finalizer]_vars

\* A deleted DuckType goes away: its shutdown ends and its finalizer is
\* cleared, also when the sub-manager had failed by itself, when edits and
\* stale copies made writes conflict, and when the process was restarted.
DeletionCompletes ==
    \A n \in Names, u \in UIDs :
        (Latest(n).uid = u /\ Latest(n).deleting) ~> (Latest(n).uid # u)

\* A DuckType that is not deleted gets a sub-manager, in every run of the
\* process: start() is reached despite conflicts, errors and stale copies.
EventuallyStarted ==
    \A n \in Names, u \in UIDs :
        (Latest(n).uid = u) ~>
            (u \in managers \/ Latest(n).deleting \/ Latest(n).uid # u)

\* No reconcile request waits for ever behind another: the only worker blocks
\* in <-manager.done for a bounded time only.
EveryRequestIsTaken ==
    \A n \in Names : (n \in queue) ~> (n \notin queue)

\* reconcilers/submanager.go:141 says "already running" of a resource whose UID
\* is in the map: an entry does not stay with a sub-manager that has ended, as
\* resyncs hand the DuckType to Reconcile again and again.
AlreadyRunning ==
    \A u \in UIDs : (u \in managers) ~> (goroutine[u] = "running" \/ u \notin managers)

-----------------------------------------------------------------------------
(* The controller implements the life cycle it promises.                   *)

Owner == [n \in Names |-> Latest(n).uid]

Serving == {u \in UIDs : goroutine[u] # "none"}

Lifecycle == INSTANCE DuckTypeLifecycle WITH
    owner <- Owner, used <- UsedUIDs, serving <- Serving

\* Whatever the order of cache updates, requests, cancellations and crashes, a
\* sub-manager is started only for a stored DuckType and a DuckType is removed
\* only when its sub-manager is shut down.
ImplementsLifecycle == Lifecycle!Spec

=============================================================================
