---------------------- MODULE SubManagerReconcilerProofs ----------------------
(***************************************************************************)
(* Proofs about SubManagerReconciler for any names and UIDs and any        *)
(* bounds: its type invariant, NoOrphanSubManager,                         *)
(* CancelledOnlyWhenDeleting, NoLostWrite, AwaitedAnswers,                 *)
(* NothingForgotten and the refinement of DuckTypeLifecycle.               *)
(*                                                                         *)
(* None of the invariants is inductive by itself: that a sub-manager is    *)
(* started for a stored object is known to the worker only through a       *)
(* cached copy.  IInv says what such a copy still tells about the object   *)
(* at the API server.                                                      *)
(***************************************************************************)
EXTENDS SubManagerReconciler, TLAPS

\* What histories look like: a UID belongs to one name, and a deletion mark is
\* never taken back.
HistInv ==
    /\ \A n, m \in Names : \A i \in 1 .. Len(hist[n]), j \in 1 .. Len(hist[m]) :
          (hist[n][i].uid = hist[m][j].uid /\ hist[n][i].uid # None) => n = m
    /\ \A n \in Names : \A i \in 1 .. Len(hist[n]) :
          (hist[n][i].uid = Latest(n).uid /\ hist[n][i].deleting)
             => Latest(n).deleting

\* A version the cache holds or will hold that has the finalizer and no
\* deletion mark tells the truth: the object is still there, and held.
CacheInv ==
    \A n \in Names : \A i \in seen[n] .. Len(hist[n]) :
        (hist[n][i].finalizer /\ ~hist[n][i].deleting)
            => Latest(n).uid = hist[n][i].uid /\ Latest(n).finalizer

\* The same of the copy the worker has, whatever the cache holds by now.
WorkerInv ==
    ~At("idle") =>
        /\ worker.obj = hist[worker.name][worker.rv]
        /\ worker.obj.finalizer /\ ~worker.obj.deleting =>
              /\ Latest(worker.name).uid = worker.obj.uid
              /\ Latest(worker.name).finalizer
        /\ worker.obj.deleting => worker.rv <= seen[worker.name]
        /\ At("finalizer") => ~worker.obj.deleting /\ ~worker.obj.finalizer
        /\ worker.pc \in {"await", "clear"} => worker.obj.deleting
        /\ At("clear") => worker.obj.uid \notin managers

\* The map and the goroutines agree, and each entry has a stored, held owner.
SubInv ==
    /\ \A u \in UIDs : goroutine[u] # "none" <=> u \in managers
    /\ cancelled \subseteq managers
    /\ \A u \in managers :
          \E n \in Names : Latest(n).uid = u /\ Latest(n).finalizer
    /\ CancelledOnlyWhenDeleting

IInv == TypeOK /\ HistInv /\ CacheInv /\ WorkerInv /\ SubInv

-----------------------------------------------------------------------------
(* Store appends one version to one history.                               *)

\* A write keeps the older versions and becomes the latest one.
LEMMA StoreLemma ==
    ASSUME hist \in [Names -> Seq(Version)],
           NEW n \in Names, NEW v \in Version, Store(n, v)
    PROVE  /\ hist' \in [Names -> Seq(Version)]
           /\ Len(hist'[n]) = Len(hist[n]) + 1
           /\ Latest(n)' = v
           /\ \A i \in 1 .. Len(hist[n]) : hist'[n][i] = hist[n][i]
           /\ \A m \in Names \ {n} : hist'[m] = hist[m] /\ Latest(m)' = Latest(m)
           /\ \A m \in Names : 1 .. Len(hist[m]) \subseteq 1 .. Len(hist'[m])
  BY DEF Store, Latest

\* The versions the cache and the worker hold, and the latest one, are versions.
LEMMA VersionLemma ==
    ASSUME TypeOK
    PROVE  /\ \A n \in Names : Len(hist[n]) \in Nat /\ 1 <= Len(hist[n])
           /\ \A n \in Names : Latest(n) \in Version /\ Cached(n) \in Version
           /\ worker.obj \in Version
           /\ Absent \in Version
  <1>1. Absent \in Version
    BY DEF Version
  <1>2. worker.obj \in Version
    BY DEF TypeOK, Worker
  <1>3. ASSUME NEW n \in Names
        PROVE  /\ Len(hist[n]) \in Nat /\ 1 <= Len(hist[n])
               /\ Latest(n) \in Version /\ Cached(n) \in Version
    <2>1. hist[n] \in Seq(Version) /\ seen[n] \in 1 .. Len(hist[n])
      BY DEF TypeOK
    <2> QED BY <2>1 DEF Latest, Cached
  <1> QED BY <1>1, <1>2, <1>3

-----------------------------------------------------------------------------
(* Type correctness.                                                       *)

\* The initial state has the right types.
LEMMA InitTypeOK == Init => TypeOK
  BY ConstantsAssumption
  DEF Init, TypeOK, Idle, Worker, Version, PCs, At

\* An action of a user or of the informer keeps every variable in its type.
LEMMA NameStepTypeOK ==
    ASSUME TypeOK, NEW n \in Names, NameStep(n)
    PROVE  TypeOK'
  <1> USE VersionLemma
  <1>1. CASE Create(n)
    <2>1. PICK u \in UIDs :
             Store(n, [uid |-> u, deleting |-> FALSE, finalizer |-> FALSE])
      BY <1>1 DEF Create
    <2>2. [uid |-> u, deleting |-> FALSE, finalizer |-> FALSE] \in Version
      BY DEF Version, DuckType
    <2> QED BY <1>1, <2>1, <2>2, StoreLemma DEF Create, TypeOK, ctrlVars, subVars, At
  <1>2. CASE Edit(n)
    <2>1. Store(n, Latest(n))
      BY <1>2 DEF Edit
    <2>2. Latest(n) \in Version
      BY <1>2 DEF Edit
    <2> QED BY <1>2, <2>1, <2>2, StoreLemma DEF Edit, TypeOK, ctrlVars, subVars, At
  <1>3. CASE Delete(n)
    <2>1. PICK v \in Version : Store(n, v)
      <3>1. [Latest(n) EXCEPT !.deleting = TRUE] \in Version
        BY <1>3 DEF Delete, Version, DuckType
      <3> QED BY <1>3, <3>1 DEF Delete
    <2> QED BY <1>3, <2>1, StoreLemma DEF Delete, TypeOK, ctrlVars, subVars, At
  <1>4. CASE CacheSync(n)
    BY <1>4 DEF CacheSync, TypeOK, subVars, At
  <1>5. CASE Resync(n)
    BY <1>5 DEF Resync, TypeOK, subVars, At
  <1>6. CASE Dequeue(n)
    <2>1. worker' \in Worker /\ (~At("idle")' => /\ worker'.name = n /\ worker'.rv = seen[n]
                                                      /\ worker'.obj \in DuckType)
      BY <1>6 DEF Dequeue, Worker, Idle, PCs, At, TypeOK, Version
    <2> QED BY <1>6, <2>1 DEF Dequeue, TypeOK, subVars, At
  <1> QED BY <1>1, <1>2, <1>3, <1>4, <1>5, <1>6 DEF NameStep

\* Goto moves the worker and changes nothing else of the request.
LEMMA GotoLemma ==
    ASSUME worker \in Worker, NEW pc \in PCs, Goto(pc)
    PROVE  /\ worker' \in Worker
           /\ worker'.pc = pc
           /\ worker'.name = worker.name /\ worker'.rv = worker.rv
           /\ worker'.obj = worker.obj
  BY DEF Goto, Worker

\* ToStatus also records whether there was an error.
LEMMA ToStatusLemma ==
    ASSUME worker \in Worker, NEW e \in BOOLEAN, ToStatus(e)
    PROVE  /\ worker' \in Worker
           /\ worker'.pc = "status"
           /\ worker'.name = worker.name /\ worker'.rv = worker.rv
           /\ worker'.obj = worker.obj
  BY DEF ToStatus, Worker, PCs

\* AddFinalizer goes on with the version it wrote.
LEMMA HoldLemma ==
    ASSUME worker \in Worker, NEW v \in Version,
           worker' = [worker EXCEPT !.pc = "children", !.obj = v, !.rv = @ + 1]
    PROVE  /\ worker' \in Worker
           /\ worker'.pc = "children"
           /\ worker'.name = worker.name /\ worker'.rv = worker.rv + 1
           /\ worker'.obj = v
  <1>1. worker.rv + 1 \in Nat
    BY DEF Worker
  <1>2. worker' = [pc |-> "children", name |-> worker.name, obj |-> v,
                   rv |-> worker.rv + 1, err |-> worker.err]
    BY DEF Worker
  <1> QED BY <1>1, <1>2 DEF Worker, PCs

\* A worker without a request.
LEMMA IdleLemma == Idle \in Worker /\ Idle.pc = "idle"
  BY DEF Idle, Worker, PCs, Version

\* A step of the worker keeps every variable in its type.
LEMMA WorkerStepTypeOK ==
    ASSUME TypeOK, WorkerStep
    PROVE  TypeOK'
  <1> USE VersionLemma
  <1>0. worker \in Worker /\ worker.obj \in Version /\ worker.err \in BOOLEAN
    BY DEF TypeOK, Worker
  <1>1. CASE AddFinalizer
    <2> DEFINE v == [worker.obj EXCEPT !.finalizer = TRUE]
    <2>1. v \in DuckType /\ v \in Version
      BY <1>1 DEF AddFinalizer, At, TypeOK, Version, DuckType
    <2>2. /\ worker.name \in Names /\ Store(worker.name, v)
          /\ worker.rv = Len(hist[worker.name])
          /\ worker' = [worker EXCEPT !.pc = "children", !.obj = v, !.rv = @ + 1]
      BY <1>1 DEF AddFinalizer, At, TypeOK, Current
    <2>3. /\ hist' \in [Names -> Seq(Version)]
          /\ \A m \in Names : seen[m] \in 1 .. Len(hist'[m])
      BY <2>1, <2>2, StoreLemma DEF TypeOK
    <2>4. /\ worker' \in Worker
          /\ worker'.name = worker.name /\ worker'.rv = worker.rv + 1
          /\ worker'.obj = v
      BY <1>0, <2>1, <2>2, HoldLemma
    <2>5. worker'.rv \in 1 .. Len(hist'[worker'.name])
      BY <1>0, <2>1, <2>2, <2>4, StoreLemma DEF TypeOK
    <2> HIDE DEF v
    <2> QED BY <1>1, <2>1, <2>2, <2>3, <2>4, <2>5 DEF AddFinalizer, TypeOK, subVars
  <1>2. CASE FinalizerConflict
    <2>1. PICK e \in BOOLEAN : ToStatus(e)
      BY <1>2 DEF FinalizerConflict
    <2>2. ~At("idle")
      BY <1>2 DEF FinalizerConflict, At
    <2> QED BY <1>0, <1>2, <2>1, <2>2, ToStatusLemma
            DEF FinalizerConflict, TypeOK, subVars, At
  <1>3. CASE ReconcileChildren
    <2>1. "sub" \in PCs /\ Goto("sub") /\ ~At("idle")
      BY <1>3 DEF ReconcileChildren, At, PCs
    <2> QED BY <1>0, <1>3, <2>1, GotoLemma DEF ReconcileChildren, TypeOK, subVars, At
  <1>4. CASE SkipStart
    <2>1. PICK e \in BOOLEAN : ToStatus(e)
      BY <1>0, <1>4 DEF SkipStart, Version, DuckType, Absent
    <2>2. ~At("idle")
      BY <1>4 DEF SkipStart, At
    <2> QED BY <1>0, <1>4, <2>1, <2>2, ToStatusLemma
            DEF SkipStart, TypeOK, subVars, At
  <1>5. CASE Start
    <2>1. PICK e \in BOOLEAN : ToStatus(e)
      BY <1>0, <1>5 DEF Start
    <2>2. ~At("idle")
      BY <1>5 DEF Start, At
    <2>3. worker.obj.uid \in UIDs 
      BY <2>2 DEF TypeOK, DuckType
    <2> QED BY <1>0, <1>5, <2>1, <2>2, <2>3, ToStatusLemma
            DEF Start, TypeOK, At
  <1>6. CASE ShutdownNothing
    <2>1. "clear" \in PCs /\ Goto("clear") /\ ~At("idle")
      BY <1>6 DEF ShutdownNothing, At, PCs
    <2> QED BY <1>0, <1>6, <2>1, GotoLemma DEF ShutdownNothing, TypeOK, subVars, At
  <1>7. CASE ShutdownCancel
    <2>1. "await" \in PCs /\ Goto("await") /\ ~At("idle")
      BY <1>7 DEF ShutdownCancel, At, PCs
    <2> QED BY <1>0, <1>7, <2>1, GotoLemma DEF ShutdownCancel, TypeOK, DuckType, At
  <1>8. CASE ShutdownDone
    <2>1. "clear" \in PCs /\ Goto("clear") /\ ~At("idle")
      BY <1>8 DEF ShutdownDone, At, PCs
    <2> QED BY <1>0, <1>8, <2>1, GotoLemma DEF ShutdownDone, TypeOK, At
  <1>9. CASE ClearFinalizer
    <2>1. worker.name \in Names /\ Store(worker.name, Absent) /\ worker' = Idle
      BY <1>9 DEF ClearFinalizer, At, TypeOK, Return
    <2> QED BY <1>9, <2>1, StoreLemma, IdleLemma
            DEF ClearFinalizer, Return, TypeOK, subVars, At
  <1>10. CASE ClearConflict
    <2>1. worker.name \in Names
      BY <1>10 DEF ClearConflict, At, TypeOK
    <2> QED BY <1>10, <2>1, IdleLemma DEF ClearConflict, Return, TypeOK, subVars, At
  <1>11. CASE StepFails
    <2>1. PICK e \in BOOLEAN : ToStatus(e)
      BY <1>11 DEF StepFails
    <2>2. ~At("idle")
      BY <1>11 DEF StepFails, At
    <2> QED BY <1>0, <1>11, <2>1, <2>2, ToStatusLemma, ConstantsAssumption
            DEF StepFails, TypeOK, Fault, subVars, At
  <1>12. CASE StatusUnchanged
    <2>1. worker.name \in Names
      BY <1>12 DEF StatusUnchanged, At, TypeOK
    <2> QED BY <1>12, <2>1, IdleLemma DEF StatusUnchanged, Return, TypeOK, subVars, At
  <1>13. CASE StatusUpdate
    <2>1. worker.name \in Names /\ Store(worker.name, worker.obj) /\ worker' = Idle
      BY <1>13 DEF StatusUpdate, At, TypeOK, Return
    <2> QED BY <1>0, <1>13, <2>1, StoreLemma, IdleLemma
            DEF StatusUpdate, Return, TypeOK, subVars, At
  <1>14. CASE StatusConflict
    <2>1. worker.name \in Names
      BY <1>14 DEF StatusConflict, At, TypeOK
    <2> QED BY <1>14, <2>1, IdleLemma DEF StatusConflict, Return, TypeOK, subVars, At
  <1> QED BY <1>1, <1>2, <1>3, <1>4, <1>5, <1>6, <1>7, <1>8, <1>9, <1>10,
             <1>11, <1>12, <1>13, <1>14 DEF WorkerStep

\* So does a step of a sub-manager's goroutine.
LEMMA GoroutineStepTypeOK ==
    ASSUME TypeOK, NEW u \in UIDs, GoroutineStep(u)
    PROVE  TypeOK'
  BY ConstantsAssumption
  DEF TypeOK, GoroutineStep, SubManagerStops, SubManagerFails, Fault, ctrlVars, At

\* So does a crash.
LEMMA CrashTypeOK ==
    ASSUME TypeOK, Crash
    PROVE  TypeOK'
  BY ConstantsAssumption, VersionLemma, IdleLemma DEF TypeOK, Crash, Fault, At

-----------------------------------------------------------------------------
(* What can be written, and the invariant of the histories.                *)

\* A write removes an object that nothing holds or whose deletion the cache and
\* the map know of, creates it under a new UID, or keeps its UID, its deletion
\* mark and its finalizer.
Legal(n, v) ==
    \/ v = Absent /\ ~Latest(n).finalizer
    \/ /\ v = Absent
       /\ Latest(n).deleting /\ Latest(n).uid \notin managers
       /\ seen[n] = Len(hist[n])
    \/ /\ Latest(n) = Absent
       /\ v.uid \in UIDs \ UsedUIDs
       /\ ~v.deleting /\ ~v.finalizer
    \/ /\ Latest(n) # Absent
       /\ v \in DuckType /\ v.uid = Latest(n).uid
       /\ Latest(n).deleting => v.deleting
       /\ Latest(n).finalizer => v.finalizer

\* When its copy is current, the worker has the latest version.
LEMMA CurrentLemma ==
    ASSUME TypeOK, WorkerInv, ~At("idle"), Current
    PROVE  /\ worker.name \in Names
           /\ worker.obj = Latest(worker.name)
           /\ worker.obj \in DuckType
           /\ Latest(worker.name) # Absent
  <1>1. worker.obj = Latest(worker.name) /\ worker.obj \in DuckType
    BY DEF TypeOK, WorkerInv, Current, Latest
  <1> QED BY <1>1, ConstantsAssumption DEF TypeOK, Absent, DuckType

\* Every step of the system leaves the histories alone or makes a legal write.
LEMMA WriteLemma ==
    ASSUME TypeOK, WorkerInv, Next
    PROVE  \/ hist' = hist
           \/ \E n \in Names, v \in Version :
                 Store(n, v) /\ Legal(n, v) /\ UNCHANGED <<seen, subVars>>
  <1> USE VersionLemma
  <1>1. ASSUME NEW n \in Names, Create(n)
        PROVE  \E v \in Version : Store(n, v) /\ Legal(n, v)
    <2>1. PICK u \in UIDs \ UsedUIDs :
             Store(n, [uid |-> u, deleting |-> FALSE, finalizer |-> FALSE])
      BY <1>1 DEF Create
    <2> DEFINE v == [uid |-> u, deleting |-> FALSE, finalizer |-> FALSE]
    <2>2. v \in Version /\ Legal(n, v)
      BY <1>1, <2>1 DEF Create, Version, DuckType, Legal
    <2> QED BY <2>1, <2>2
  <1>2. ASSUME NEW n \in Names, Edit(n)
        PROVE  \E v \in Version : Store(n, v) /\ Legal(n, v)
    <2>1. Store(n, Latest(n))
      BY <1>2 DEF Edit
    <2>2. Latest(n) \in Version /\ Legal(n, Latest(n))
      BY <1>2 DEF Edit, Version, DuckType, Legal
    <2> QED BY <2>1, <2>2
  <1>3. ASSUME NEW n \in Names, Delete(n)
        PROVE  \E v \in Version : Store(n, v) /\ Legal(n, v)
    <2> DEFINE v == [Latest(n) EXCEPT !.deleting = TRUE]
    <2>1. v \in Version /\ Legal(n, v) /\ (~Latest(n).finalizer => Legal(n, Absent))
      BY <1>3 DEF Delete, Version, DuckType, Legal
    <2> QED BY <1>3, <2>1 DEF Delete
  <1>4. ASSUME AddFinalizer
        PROVE  \E n \in Names, v \in Version : Store(n, v) /\ Legal(n, v)
    <2> DEFINE v == [worker.obj EXCEPT !.finalizer = TRUE]
    <2>1. ~At("idle") /\ Current /\ Store(worker.name, v)
      BY <1>4 DEF AddFinalizer, At
    <2>2. v \in Version /\ Legal(worker.name, v)
      BY <2>1, CurrentLemma DEF Version, DuckType, Legal
    <2> QED BY <2>1, <2>2, CurrentLemma
  <1>5. ASSUME ClearFinalizer
        PROVE  \E n \in Names, v \in Version : Store(n, v) /\ Legal(n, v)
    <2>1. ~At("idle") /\ At("clear") /\ Current /\ Store(worker.name, Absent)
      BY <1>5 DEF ClearFinalizer, At
    <2>2. Legal(worker.name, Absent)
      BY <2>1, CurrentLemma DEF Legal, WorkerInv, At, TypeOK, Current
    <2> QED BY <2>1, <2>2, CurrentLemma
  <1>6. ASSUME StatusUpdate
        PROVE  \E n \in Names, v \in Version : Store(n, v) /\ Legal(n, v)
    BY <1>6, CurrentLemma DEF StatusUpdate, At, Legal, Version
  <1>7. ASSUME WorkerStep, ~AddFinalizer, ~ClearFinalizer, ~StatusUpdate
        PROVE  hist' = hist
    BY <1>7 DEF WorkerStep, FinalizerConflict, ReconcileChildren, SkipStart, Start,
       ShutdownNothing, ShutdownCancel, ShutdownDone, ClearConflict, StepFails,
       StatusUnchanged, StatusConflict
  <1>8. ASSUME NEW n \in Names, CacheSync(n) \/ Resync(n) \/ Dequeue(n)
        PROVE  hist' = hist
    BY <1>8 DEF CacheSync, Resync, Dequeue
  <1>9. ASSUME (\E u \in UIDs : GoroutineStep(u)) \/ Crash
        PROVE  hist' = hist
    BY <1>9 DEF GoroutineStep, SubManagerStops, SubManagerFails, Crash
  <1>10. ASSUME \/ \E n \in Names : Create(n) \/ Edit(n) \/ Delete(n)
                \/ AddFinalizer \/ ClearFinalizer \/ StatusUpdate
         PROVE  UNCHANGED <<seen, subVars>>
    BY <1>10 DEF Create, Edit, Delete, AddFinalizer, ClearFinalizer, StatusUpdate,
       ctrlVars
  <1> QED BY <1>1, <1>2, <1>3, <1>4, <1>5, <1>6, <1>7, <1>8, <1>9, <1>10
          DEF Next, NameStep

\* A legal write keeps the invariant of the histories.
LEMMA HistStep ==
    ASSUME TypeOK, HistInv, WorkerInv, Next
    PROVE  HistInv'
  <1>1. CASE hist' = hist
    BY <1>1 DEF HistInv, Latest
  <1>2. ASSUME NEW n \in Names, NEW v \in Version, Store(n, v), Legal(n, v)
        PROVE  HistInv'
    <2> USE VersionLemma
    <2>1. /\ Len(hist'[n]) = Len(hist[n]) + 1
          /\ Latest(n)' = v /\ hist'[n][Len(hist[n]) + 1] = v
          /\ \A i \in 1 .. Len(hist[n]) : hist'[n][i] = hist[n][i]
          /\ \A m \in Names \ {n} : hist'[m] = hist[m] /\ Latest(m)' = Latest(m)
      BY <1>2, StoreLemma DEF TypeOK, Latest
    <2>2. \A m \in Names : \A i \in 1 .. Len(hist[m]) :
             (hist[m][i].uid = v.uid /\ v.uid # None) => m = n
      <3> SUFFICES ASSUME NEW m \in Names, NEW i \in 1 .. Len(hist[m]),
                          hist[m][i].uid = v.uid, v.uid # None
                   PROVE  m = n
        OBVIOUS
      <3>1. v.uid = Latest(n).uid
        BY <1>2 DEF Legal, UsedUIDs, Absent, TypeOK
      <3> QED BY <3>1 DEF HistInv, Latest
    <2>3. \A i \in 1 .. Len(hist[n]) :
             (hist[n][i].uid = v.uid /\ hist[n][i].deleting) => v.deleting
      <3> SUFFICES ASSUME NEW i \in 1 .. Len(hist[n]),
                          hist[n][i].uid = v.uid, hist[n][i].deleting
                   PROVE  v.deleting
        OBVIOUS
      <3>1. hist[n][i] \in DuckType
        BY DEF TypeOK, Version, Absent
      <3> QED BY <1>2, <3>1, ConstantsAssumption
              DEF Legal, HistInv, UsedUIDs, DuckType, Absent, TypeOK
    <2>4. \A m \in Names : \A i \in 1 .. Len(hist'[m]) :
             \/ i \in 1 .. Len(hist[m]) /\ hist'[m][i] = hist[m][i]
             \/ m = n /\ hist'[m][i] = v
      BY <2>1
    <2>5. \A k, m \in Names : \A i \in 1 .. Len(hist'[k]), j \in 1 .. Len(hist'[m]) :
             (hist'[k][i].uid = hist'[m][j].uid /\ hist'[k][i].uid # None) => k = m
      <3> SUFFICES ASSUME NEW k \in Names, NEW m \in Names,
                          NEW i \in 1 .. Len(hist'[k]), NEW j \in 1 .. Len(hist'[m]),
                          hist'[k][i].uid = hist'[m][j].uid, hist'[k][i].uid # None
                   PROVE  k = m
        OBVIOUS
      <3>1. CASE k = n /\ hist'[k][i] = v
        BY <2>2, <2>4, <3>1
      <3>2. CASE m = n /\ hist'[m][j] = v
        BY <2>2, <2>4, <3>2
      <3>3. CASE /\ i \in 1 .. Len(hist[k]) /\ hist'[k][i] = hist[k][i]
                 /\ j \in 1 .. Len(hist[m]) /\ hist'[m][j] = hist[m][j]
        BY <3>3 DEF HistInv
      <3> QED BY <2>4, <3>1, <3>2, <3>3
    <2>6. ASSUME NEW m \in Names, NEW i \in 1 .. Len(hist'[m]),
                 hist'[m][i].uid = Latest(m)'.uid, hist'[m][i].deleting
          PROVE  Latest(m)'.deleting
      <3>1. CASE m = n
        BY <2>1, <2>3, <2>4, <2>6, <3>1
      <3>2. CASE m # n
        BY <2>1, <2>6, <3>2 DEF HistInv
      <3> QED BY <3>1, <3>2
    <2> QED BY <2>5, <2>6 DEF HistInv
  <1> QED BY <1>1, <1>2, WriteLemma

-----------------------------------------------------------------------------
(* The cache.                                                              *)

\* The informer never goes back to an older version.
LEMMA SeenLemma ==
    ASSUME TypeOK, Next
    PROVE  \A n \in Names : seen'[n] >= seen[n]
  <1>1. ASSUME NEW n \in Names, NameStep(n)
        PROVE  \A m \in Names : seen'[m] >= seen[m]
    <2>1. seen' = seen \/ CacheSync(n)
      BY <1>1 DEF NameStep, Create, Edit, Delete, Resync, Dequeue, ctrlVars
    <2>2. seen \in [Names -> Nat]
      BY DEF TypeOK
    <2>3. CacheSync(n) => seen' = [seen EXCEPT ![n] = @ + 1]
      BY DEF CacheSync
    <2> QED BY <2>1, <2>2, <2>3
  <1>2. ASSUME WorkerStep
        PROVE  seen' = seen
    BY <1>2 DEF WorkerStep, AddFinalizer, FinalizerConflict, ReconcileChildren,
       SkipStart, Start, ShutdownNothing, ShutdownCancel, ShutdownDone,
       ClearFinalizer, ClearConflict, StepFails, StatusUnchanged, StatusUpdate,
       StatusConflict
  <1>3. ASSUME \E u \in UIDs : GoroutineStep(u)
        PROVE  seen' = seen
    BY <1>3 DEF GoroutineStep, SubManagerStops, SubManagerFails, ctrlVars
  <1>4. ASSUME Crash
        PROVE  \A m \in Names : seen'[m] >= seen[m]
    BY <1>4 DEF Crash, TypeOK
  <1>5. seen' = seen => \A m \in Names : seen'[m] >= seen[m]
    BY DEF TypeOK
  <1> QED BY <1>1, <1>2, <1>3, <1>4, <1>5 DEF Next

\* What the cache holds, or will hold, stays true of the stored object.
LEMMA CacheStep ==
    ASSUME TypeOK, TypeOK', CacheInv, WorkerInv, Next
    PROVE  CacheInv'
  <1>1. CASE hist' = hist
    BY <1>1, SeenLemma DEF CacheInv, Latest, TypeOK
  <1>2. ASSUME NEW n \in Names, NEW v \in Version, Store(n, v), Legal(n, v),
               UNCHANGED <<seen, subVars>>
        PROVE  CacheInv'
    <2> USE VersionLemma
    <2>1. /\ Len(hist'[n]) = Len(hist[n]) + 1
          /\ Latest(n)' = v /\ hist'[n][Len(hist[n]) + 1] = v
          /\ \A i \in 1 .. Len(hist[n]) : hist'[n][i] = hist[n][i]
          /\ \A m \in Names \ {n} : hist'[m] = hist[m] /\ Latest(m)' = Latest(m)
      BY <1>2, StoreLemma DEF TypeOK, Latest
    <2> SUFFICES ASSUME NEW m \in Names, NEW i \in seen[m] .. Len(hist'[m]),
                        hist'[m][i].finalizer, ~hist'[m][i].deleting
                 PROVE  Latest(m)'.uid = hist'[m][i].uid /\ Latest(m)'.finalizer
      BY <1>2 DEF CacheInv
    <2>2. CASE m # n
      BY <2>1, <2>2 DEF CacheInv
    <2>3. CASE m = n /\ i = Len(hist[n]) + 1
      BY <2>1, <2>3
    <2>4. CASE m = n /\ i # Len(hist[n]) + 1
      <3>1. i \in seen[n] .. Len(hist[n]) /\ hist'[n][i] = hist[n][i]
        BY <2>1, <2>4 DEF TypeOK
      <3>2. Latest(n).uid = hist[n][i].uid /\ Latest(n).finalizer
        BY <2>4, <3>1 DEF CacheInv
      <3>3. i = Len(hist[n]) => hist[n][i] = Latest(n)
        BY DEF Latest
      <3>4. ~Latest(n).deleting \/ seen[n] # Len(hist[n])
        BY <2>4, <3>1, <3>3 DEF TypeOK
      <3>5. v.uid = Latest(n).uid /\ v.finalizer
        BY <1>2, <3>2, <3>4 DEF Legal, Absent
      <3> QED BY <2>1, <2>4, <3>1, <3>2, <3>5
    <2> QED BY <2>2, <2>3, <2>4
  <1> QED BY <1>1, <1>2, WriteLemma

-----------------------------------------------------------------------------
(* The worker.                                                             *)

\* A user's write does not falsify what the worker's copy tells: a live copy
\* with the finalizer is the copy of an object that its finalizer holds.
LEMMA UserStepWorkerInv ==
    ASSUME TypeOK, WorkerInv, NEW n \in Names,
           Create(n) \/ Edit(n) \/ Delete(n)
    PROVE  WorkerInv'
  <1> USE VersionLemma
  <1>1. UNCHANGED <<seen, worker, managers>>
    BY DEF Create, Edit, Delete, ctrlVars, subVars
  <1>2. PICK v \in Version :
           /\ Store(n, v)
           /\ Latest(n).finalizer => v.uid = Latest(n).uid /\ v.finalizer
    <2>1. CASE Create(n)
      <3>1. PICK u \in UIDs :
               Store(n, [uid |-> u, deleting |-> FALSE, finalizer |-> FALSE])
        BY <2>1 DEF Create
      <3>2. [uid |-> u, deleting |-> FALSE, finalizer |-> FALSE] \in Version
        BY DEF Version, DuckType
      <3> QED BY <2>1, <3>1, <3>2 DEF Create, Absent
    <2>2. CASE Edit(n)
      <3>1. Store(n, Latest(n))
        BY <2>2 DEF Edit
      <3>2. Latest(n) \in Version
        BY <2>2 DEF Edit
      <3> QED BY <3>1, <3>2
    <2>3. CASE Delete(n)
      <3>1. /\ [Latest(n) EXCEPT !.deleting = TRUE] \in Version
            /\ [Latest(n) EXCEPT !.deleting = TRUE].uid = Latest(n).uid
            /\ [Latest(n) EXCEPT !.deleting = TRUE].finalizer = Latest(n).finalizer
        BY <2>3 DEF Delete, Version, DuckType
      <3> QED BY <2>3, <3>1 DEF Delete
    <2> QED BY <2>1, <2>2, <2>3
  <1>3. /\ Latest(n)' = v
        /\ \A i \in 1 .. Len(hist[n]) : hist'[n][i] = hist[n][i]
        /\ \A m \in Names \ {n} : hist'[m] = hist[m] /\ Latest(m)' = Latest(m)
    BY <1>2, StoreLemma DEF TypeOK
  <1> SUFFICES ASSUME ~At("idle")
               PROVE  WorkerInv'
    BY <1>1 DEF WorkerInv, At
  <1>4. worker.name \in Names /\ worker.rv \in 1 .. Len(hist[worker.name])
    BY DEF TypeOK
  <1>5. hist'[worker.name][worker.rv] = hist[worker.name][worker.rv]
    BY <1>3, <1>4
  <1>6. Latest(worker.name).finalizer =>
           /\ Latest(worker.name)'.uid = Latest(worker.name).uid
           /\ Latest(worker.name)'.finalizer
    BY <1>1, <1>2, <1>3, <1>4
  <1> QED BY <1>1, <1>5, <1>6 DEF WorkerInv, At

\* A step of the worker that writes nothing and stays with its request.
LEMMA MoveWorkerInv ==
    ASSUME TypeOK, WorkerInv, ~At("idle"), UNCHANGED <<hist, seen>>,
           worker'.name = worker.name, worker'.rv = worker.rv,
           worker'.obj = worker.obj,
           worker'.pc # "finalizer",
           worker'.pc \in {"await", "clear"} => worker.obj.deleting,
           worker'.pc = "clear" => worker.obj.uid \notin managers'
    PROVE  WorkerInv'
  BY DEF WorkerInv, At, Latest

\* What the worker knows of its copy is kept by every step.
LEMMA WorkerInvStep ==
    ASSUME TypeOK, CacheInv, WorkerInv, Next
    PROVE  WorkerInv'
  <1> USE VersionLemma
  <1>0. worker \in Worker
    BY DEF TypeOK
  <1>1. ASSUME NEW n \in Names, NameStep(n)
        PROVE  WorkerInv'
    <2>1. CASE Create(n) \/ Edit(n) \/ Delete(n)
      BY <2>1, UserStepWorkerInv
    <2>2. CASE CacheSync(n)
      BY <2>2 DEF CacheSync, WorkerInv, At, Latest, TypeOK, Worker, subVars
    <2>3. CASE Resync(n)
      BY <2>3 DEF Resync, WorkerInv, At, Latest, subVars
    <2>4. CASE Dequeue(n)
      <3>1. CASE worker' = Idle
        BY <3>1, IdleLemma DEF WorkerInv, At
      <3>2. CASE worker' # Idle
        <4>1. /\ UNCHANGED <<hist, seen>>
              /\ worker'.name = n /\ worker'.rv = seen[n]
              /\ worker'.obj = hist[n][seen[n]]
              /\ worker'.pc \in {"children", "finalizer"}
              /\ worker'.pc = "finalizer" => ~worker'.obj.deleting /\ ~worker'.obj.finalizer
          BY <2>4, <3>2 DEF Dequeue, Cached
        <4>2. seen[n] \in seen[n] .. Len(hist[n]) /\ seen[n] <= seen[n]
          BY DEF TypeOK
        <4> QED BY <4>1, <4>2 DEF WorkerInv, CacheInv, At, Latest
      <3> QED BY <3>1, <3>2
    <2> QED BY <1>1, <2>1, <2>2, <2>3, <2>4 DEF NameStep
  <1>2. ASSUME WorkerStep
        PROVE  WorkerInv'
    <2>1. CASE AddFinalizer
      <3> DEFINE v == [worker.obj EXCEPT !.finalizer = TRUE]
      <3>1. /\ ~At("idle") /\ Current /\ Store(worker.name, v) /\ seen' = seen
            /\ worker' = [worker EXCEPT !.pc = "children", !.obj = v, !.rv = @ + 1]
            /\ ~worker.obj.deleting
        BY <2>1 DEF AddFinalizer, At, WorkerInv
      <3>2. v \in Version /\ ~v.deleting
        BY <3>1, CurrentLemma DEF Version, DuckType
      <3> HIDE DEF v
      <3>3. /\ worker'.pc = "children" /\ worker'.name = worker.name
            /\ worker'.rv = Len(hist[worker.name]) + 1 /\ worker'.obj = v
        BY <1>0, <3>1, <3>2, HoldLemma DEF Current
      <3>4. worker.name \in Names
        BY <3>1, CurrentLemma
      <3>5. Latest(worker.name)' = v /\ Len(hist'[worker.name]) = Len(hist[worker.name]) + 1
        BY <3>1, <3>2, <3>4, StoreLemma DEF TypeOK
      <3>6. hist'[worker.name][worker'.rv] = v
        BY <3>3, <3>5 DEF Latest
      <3> QED BY <3>2, <3>3, <3>5, <3>6 DEF WorkerInv, At
    <2>2. CASE FinalizerConflict \/ SkipStart \/ Start \/ StepFails
      <3>1. PICK e \in BOOLEAN : ToStatus(e)
        BY <2>2 DEF FinalizerConflict, SkipStart, Start, StepFails, TypeOK, Worker,
           Version, DuckType, Absent
      <3>2. ~At("idle") /\ UNCHANGED <<hist, seen>>
        BY <2>2 DEF FinalizerConflict, SkipStart, Start, StepFails, At
      <3> QED BY <1>0, <3>1, <3>2, ToStatusLemma, MoveWorkerInv
    <2>3. CASE ReconcileChildren
      <3>1. "sub" \in PCs /\ Goto("sub") /\ ~At("idle") /\ UNCHANGED <<hist, seen>>
        BY <2>3 DEF ReconcileChildren, At, PCs
      <3> QED BY <1>0, <3>1, GotoLemma, MoveWorkerInv
    <2>4. CASE ShutdownNothing
      <3>1. /\ "clear" \in PCs /\ Goto("clear") /\ ~At("idle") /\ UNCHANGED <<hist, seen>>
            /\ worker.obj.deleting /\ worker.obj.uid \notin managers'
        BY <2>4 DEF ShutdownNothing, At, PCs, subVars
      <3> QED BY <1>0, <3>1, GotoLemma, MoveWorkerInv
    <2>5. CASE ShutdownCancel
      <3>1. /\ "await" \in PCs /\ Goto("await") /\ ~At("idle") /\ UNCHANGED <<hist, seen>>
            /\ worker.obj.deleting
        BY <2>5 DEF ShutdownCancel, At, PCs
      <3> QED BY <1>0, <3>1, GotoLemma, MoveWorkerInv
    <2>6. CASE ShutdownDone
      <3>1. /\ "clear" \in PCs /\ Goto("clear") /\ ~At("idle") /\ UNCHANGED <<hist, seen>>
            /\ worker.obj.deleting /\ worker.obj.uid \notin managers'
        BY <2>6 DEF ShutdownDone, At, PCs, WorkerInv
      <3> QED BY <1>0, <3>1, GotoLemma, MoveWorkerInv
    <2>7. CASE ClearFinalizer \/ ClearConflict \/ StatusUnchanged \/ StatusUpdate
               \/ StatusConflict
      BY <2>7, IdleLemma DEF ClearFinalizer, ClearConflict, StatusUnchanged,
         StatusUpdate, StatusConflict, Return, WorkerInv, At
    <2> QED BY <1>2, <2>1, <2>2, <2>3, <2>4, <2>5, <2>6, <2>7 DEF WorkerStep
  <1>3. ASSUME NEW u \in UIDs, GoroutineStep(u)
        PROVE  WorkerInv'
    BY <1>3 DEF GoroutineStep, SubManagerStops, SubManagerFails, ctrlVars,
       WorkerInv, At, Latest
  <1>4. ASSUME Crash
        PROVE  WorkerInv'
    BY <1>4, IdleLemma DEF Crash, WorkerInv, At
  <1> QED BY <1>1, <1>2, <1>3, <1>4 DEF Next

-----------------------------------------------------------------------------
(* The sub-managers.                                                       *)

\* A UID is stored under one name.
LEMMA OwnerLemma ==
    ASSUME TypeOK, HistInv, NEW u \in UIDs, NEW n \in Names, NEW m \in Names,
           Latest(n).uid = u, Latest(m).uid = u
    PROVE  n = m
  <1>1. Len(hist[n]) \in 1 .. Len(hist[n]) /\ Len(hist[m]) \in 1 .. Len(hist[m])
    BY VersionLemma
  <1>2. u # None
    BY ConstantsAssumption
  <1> QED BY <1>1, <1>2 DEF HistInv, Latest

\* A write never removes the owner of an entry of the map, and never takes the
\* deletion mark of the owner of a cancelled one.
LEMMA WriteSubInv ==
    ASSUME TypeOK, HistInv, SubInv, NEW n \in Names, NEW v \in Version,
           Store(n, v), Legal(n, v), UNCHANGED subVars
    PROVE  SubInv'
  <1> USE VersionLemma
  <1>1. Latest(n)' = v /\ \A m \in Names \ {n} : Latest(m)' = Latest(m)
    BY StoreLemma DEF TypeOK
  <1>2. /\ managers' = managers /\ goroutine' = goroutine /\ cancelled' = cancelled
    BY DEF subVars
  <1>3. ASSUME Latest(n).finalizer, Latest(n).uid \in managers
        PROVE  /\ v.uid = Latest(n).uid /\ v.finalizer
               /\ Latest(n).deleting => v.deleting
    BY <1>3 DEF Legal, Absent
  <1>4. ASSUME NEW u \in managers
        PROVE  \E m \in Names : Latest(m)'.uid = u /\ Latest(m)'.finalizer
    <2>1. PICK m \in Names : Latest(m).uid = u /\ Latest(m).finalizer
      BY <1>4 DEF SubInv
    <2> QED BY <1>1, <1>3, <2>1
  <1>5. ASSUME NEW u \in cancelled
        PROVE  \E m \in Names : Latest(m)'.uid = u /\ Latest(m)'.deleting
    <2>1. PICK m \in Names : Latest(m).uid = u /\ Latest(m).deleting
      BY <1>5 DEF SubInv, CancelledOnlyWhenDeleting
    <2>2. u \in managers /\ u \in UIDs
      BY <1>5 DEF SubInv, TypeOK
    <2>3. m = n => v.uid = Latest(n).uid /\ v.deleting
      <3> SUFFICES ASSUME m = n
                   PROVE  v.uid = Latest(n).uid /\ v.deleting
        OBVIOUS
      <3>1. PICK k \in Names : Latest(k).uid = u /\ Latest(k).finalizer
        BY <2>2 DEF SubInv
      <3>2. k = n
        BY <2>1, <2>2, <3>1, OwnerLemma
      <3> QED BY <1>3, <2>1, <2>2, <3>1, <3>2
    <2> QED BY <1>1, <2>1, <2>3
  <1> QED BY <1>2, <1>4, <1>5 DEF SubInv, CancelledOnlyWhenDeleting

\* Entries of the map have stored owners, and cancelled ones deleted owners,
\* after every step.
LEMMA SubStep ==
    ASSUME TypeOK, HistInv, WorkerInv, SubInv, Next
    PROVE  SubInv'
  <1>1. CASE UNCHANGED <<hist, subVars>>
    BY <1>1 DEF SubInv, CancelledOnlyWhenDeleting, Latest, subVars
  <1>2. CASE hist' # hist
    BY <1>2, WriteLemma, WriteSubInv
  <1>3. CASE Start
    <2>1. worker.obj.uid \in UIDs
      BY <1>3 DEF Start, At, TypeOK, DuckType
    <2>2. /\ worker.name \in Names /\ Latest(worker.name).uid = worker.obj.uid
          /\ Latest(worker.name).finalizer
      BY <1>3 DEF Start, At, TypeOK, WorkerInv
    <2>3. \A n \in Names : hist' = hist /\ Latest(n)' = Latest(n)
      BY <1>3 DEF Start, Latest
    <2>4. \A u \in UIDs : goroutine'[u] # "none" <=> u \in managers'
      BY <1>3, <2>1 DEF Start, SubInv, TypeOK
    <2>5. \A u \in managers' :
             \E n \in Names : Latest(n)'.uid = u /\ Latest(n)'.finalizer
      BY <1>3, <2>2, <2>3 DEF Start, SubInv
    <2> QED BY <1>3, <2>3, <2>4, <2>5 DEF Start, SubInv, CancelledOnlyWhenDeleting
  <1>4. CASE ShutdownCancel
    <2>1. /\ worker.obj.uid \in UIDs /\ worker.obj.uid \in managers
          /\ worker.obj.deleting /\ worker.name \in Names
          /\ worker.rv \in 1 .. Len(hist[worker.name])
          /\ worker.obj = hist[worker.name][worker.rv]
      BY <1>4 DEF ShutdownCancel, At, TypeOK, WorkerInv, DuckType
    <2>2. PICK n \in Names : Latest(n).uid = worker.obj.uid /\ Latest(n).finalizer
      BY <2>1 DEF SubInv
    <2>3. n = worker.name
      <3>1. Len(hist[n]) \in 1 .. Len(hist[n]) /\ worker.obj.uid # None
        BY <2>1, VersionLemma, ConstantsAssumption
      <3> QED BY <2>1, <2>2, <3>1 DEF HistInv, Latest
    <2>4. Latest(n).deleting
      BY <2>1, <2>2, <2>3 DEF HistInv
    <2>5. \A m \in Names : Latest(m)' = Latest(m)
      BY <1>4 DEF ShutdownCancel, Latest
    <2> QED BY <1>4, <2>1, <2>2, <2>4, <2>5
            DEF ShutdownCancel, SubInv, CancelledOnlyWhenDeleting
  <1>5. CASE ShutdownDone
    <2>1. \A m \in Names : Latest(m)' = Latest(m)
      BY <1>5 DEF ShutdownDone, Latest
    <2>2. \A u \in UIDs : goroutine'[u] # "none" <=> u \in managers'
      BY <1>5 DEF ShutdownDone, SubInv, TypeOK
    <2> QED BY <1>5, <2>1, <2>2 DEF ShutdownDone, SubInv, CancelledOnlyWhenDeleting
  <1>6. ASSUME NEW u \in UIDs, GoroutineStep(u)
        PROVE  SubInv'
    <2>1. /\ UNCHANGED <<hist, managers, cancelled>>
          /\ goroutine[u] = "running"
          /\ goroutine' = [goroutine EXCEPT ![u] = "returned"]
      BY <1>6 DEF GoroutineStep, SubManagerStops, SubManagerFails
    <2>2. \A w \in UIDs : goroutine'[w] # "none" <=> w \in managers'
      BY <2>1 DEF SubInv, TypeOK
    <2> QED BY <2>1, <2>2 DEF SubInv, CancelledOnlyWhenDeleting, Latest
  <1>7. CASE Crash
    BY <1>7 DEF Crash, SubInv, CancelledOnlyWhenDeleting
  <1>8. ASSUME WorkerStep, hist' = hist, ~Start, ~ShutdownCancel, ~ShutdownDone
        PROVE  UNCHANGED <<hist, subVars>>
    BY <1>8 DEF WorkerStep, AddFinalizer, FinalizerConflict, ReconcileChildren,
       SkipStart, ShutdownNothing, ClearFinalizer, ClearConflict, StepFails,
       StatusUnchanged, StatusUpdate, StatusConflict
  <1>9. ASSUME NEW n \in Names, NameStep(n), hist' = hist
        PROVE  UNCHANGED <<hist, subVars>>
    BY <1>9 DEF NameStep, Create, Edit, Delete, CacheSync, Resync, Dequeue
  <1> QED BY <1>1, <1>2, <1>3, <1>4, <1>5, <1>6, <1>7, <1>8, <1>9 DEF Next

-----------------------------------------------------------------------------
(* The theorems.                                                           *)

\* The invariant holds in the initial state.
LEMMA InitIInv == Init => IInv
  <1> SUFFICES ASSUME Init
               PROVE  IInv
    OBVIOUS
  <1>1. TypeOK
    BY InitTypeOK
  <1>2. \A n \in Names : hist[n] = <<Absent>> /\ Latest(n) = Absent
    BY DEF Init, Latest
  <1>3. HistInv /\ CacheInv
    BY <1>2 DEF HistInv, CacheInv, Absent, Init
  <1>4. WorkerInv /\ SubInv
    BY IdleLemma DEF Init, WorkerInv, At, SubInv, CancelledOnlyWhenDeleting
  <1> QED BY <1>1, <1>3, <1>4 DEF IInv

\* Every step, and stuttering, keeps the invariant.
LEMMA NextIInv == IInv /\ [Next]_vars => IInv'
  <1>1. ASSUME IInv, Next
        PROVE  IInv'
    <2> USE <1>1 DEF IInv
    <2>1. TypeOK'
      BY NameStepTypeOK, WorkerStepTypeOK, GoroutineStepTypeOK, CrashTypeOK DEF Next
    <2> QED BY <2>1, HistStep, CacheStep, WorkerInvStep, SubStep
  <1>2. ASSUME IInv, UNCHANGED vars
        PROVE  IInv'
    <2> USE <1>2 DEF vars, IInv
    <2>1. TypeOK'
      BY DEF TypeOK, At
    <2>2. HistInv' /\ CacheInv'
      BY DEF HistInv, CacheInv, Latest
    <2>3. WorkerInv'
      BY DEF WorkerInv, At, Latest
    <2>4. SubInv'
      BY DEF SubInv, CancelledOnlyWhenDeleting, At, Latest
    <2> QED BY <2>1, <2>2, <2>3, <2>4
  <1> QED BY <1>1, <1>2

\* IInv is an invariant of the controller.
THEOREM Invariance == Spec => []IInv
  BY InitIInv, NextIInv, PTL DEF Spec

\* The variables of the controller keep their types.
THEOREM TypeCorrect == Spec => []TypeOK
  BY Invariance, PTL DEF IInv

\* No sub-manager, and no goroutine of start(), outlives its DuckType, for any
\* number of DuckTypes and failures and any lag of the cache.
THEOREM NoOrphan == Spec => []NoOrphanSubManager
  <1>1. IInv => NoOrphanSubManager
    BY DEF IInv, SubInv, NoOrphanSubManager
  <1> QED BY <1>1, Invariance, PTL

\* shutdown() cancels only the sub-managers of DuckTypes that are being deleted.
THEOREM CancelIsDeletion == Spec => []CancelledOnlyWhenDeleting
  BY Invariance, PTL DEF IInv, SubInv

-----------------------------------------------------------------------------
(* No write is lost.                                                       *)

\* Every write of the controller is made on the latest version, and so keeps what
\* is stored: for every instance, whatever the lag of the cache.
THEOREM WritesKeep == Spec => NoLostWrite
  <1> DEFINE Keeps(n) ==
          IF Latest(n) = Absent THEN Latest(n)'.uid \notin UsedUIDs
          ELSE \/ Latest(n)' = Absent
               \/ /\ Latest(n)'.uid = Latest(n).uid
                  /\ Latest(n).deleting => Latest(n)'.deleting
                  /\ Latest(n).finalizer => Latest(n)'.finalizer
  <1>0. ASSUME NEW n \in Names, Latest(n)' = Latest(n)
        PROVE  Keeps(n)
    BY <1>0, ConstantsAssumption DEF Absent, UsedUIDs
  <1>1. ASSUME IInv, Next, NEW n \in Names
        PROVE  Keeps(n)
    <2>1. CASE hist' = hist
      BY <1>0, <2>1 DEF Latest
    <2>2. ASSUME NEW m \in Names, NEW v \in Version, Store(m, v), Legal(m, v)
          PROVE  Keeps(n)
      <3>1. Latest(m)' = v /\ (n # m => Latest(n)' = Latest(n))
        BY <1>1, <2>2, StoreLemma DEF IInv, TypeOK
      <3>2. CASE n # m
        BY <1>0, <3>1, <3>2
      <3>3. CASE n = m
        BY <2>2, <3>1, <3>3, ConstantsAssumption DEF Legal, Absent, UsedUIDs
      <3> QED BY <3>2, <3>3
    <2> QED BY <1>1, <2>1, <2>2, WriteLemma DEF IInv
  <1>2. IInv /\ [Next]_vars => [\A n \in Names : Keeps(n)]_vars
    BY <1>1
  <1> QED BY <1>2, Invariance, PTL DEF Spec, NoLostWrite

-----------------------------------------------------------------------------
(* The worker waits only for who will answer.                              *)

\* Only the worker that waits takes an entry away or ends a goroutine.
LEMMA AwaitStep ==
    ASSUME TypeOK, SubInv, AwaitedAnswers, Next
    PROVE  AwaitedAnswers'
  <1>0. worker \in Worker
    BY DEF TypeOK
  <1>1. ASSUME NEW n \in Names, NameStep(n)
        PROVE  AwaitedAnswers'
    BY <1>1, IdleLemma DEF NameStep, Create, Edit, Delete, CacheSync, Resync, Dequeue,
       ctrlVars, subVars, AwaitedAnswers, At
  <1>2. CASE ShutdownCancel
    <2>1. /\ "await" \in PCs /\ Goto("await") /\ goroutine' = goroutine
          /\ worker.obj.uid \in cancelled' /\ worker.obj.uid \in managers
      BY <1>2 DEF ShutdownCancel, PCs
    <2>2. worker.obj.uid \in UIDs
      BY <2>1 DEF TypeOK
    <2> QED BY <1>0, <2>1, <2>2, GotoLemma DEF SubInv, AwaitedAnswers
  <1>3. CASE FinalizerConflict \/ SkipStart \/ Start \/ StepFails
    <2>1. PICK e \in BOOLEAN : ToStatus(e)
      BY <1>3 DEF FinalizerConflict, SkipStart, Start, StepFails, TypeOK, Worker,
         Version, DuckType, Absent
    <2> QED BY <1>0, <2>1, ToStatusLemma DEF AwaitedAnswers, At
  <1>4. CASE ReconcileChildren \/ ShutdownNothing \/ ShutdownDone
    <2>1. PICK pc \in {"sub", "clear"} : Goto(pc)
      BY <1>4 DEF ReconcileChildren, ShutdownNothing, ShutdownDone
    <2> QED BY <1>0, <2>1, GotoLemma DEF AwaitedAnswers, At, PCs
  <1>5. CASE AddFinalizer
    <2>1. worker'.pc = "children"
      BY <1>0, <1>5 DEF AddFinalizer, Worker
    <2> QED BY <2>1 DEF AwaitedAnswers, At
  <1>6. CASE ClearFinalizer \/ ClearConflict \/ StatusUnchanged \/ StatusUpdate
             \/ StatusConflict \/ Crash
    BY <1>6, IdleLemma DEF ClearFinalizer, ClearConflict, StatusUnchanged,
       StatusUpdate, StatusConflict, Crash, Return, AwaitedAnswers, At
  <1>7. ASSUME NEW u \in UIDs, GoroutineStep(u)
        PROVE  AwaitedAnswers'
    <2>1. /\ UNCHANGED <<worker, cancelled>>
          /\ goroutine' = [goroutine EXCEPT ![u] = "returned"]
      BY <1>7 DEF GoroutineStep, SubManagerStops, SubManagerFails, ctrlVars
    <2>2. \A w \in UIDs : goroutine[w] # "none" => goroutine'[w] # "none"
      BY <2>1 DEF TypeOK
    <2> QED BY <2>1, <2>2 DEF AwaitedAnswers, At, TypeOK
  <1> QED BY <1>1, <1>2, <1>3, <1>4, <1>5, <1>6, <1>7 DEF Next, WorkerStep

\* The worker never blocks for a goroutine that is not there or was not cancelled,
\* for every number of DuckTypes and failures.
THEOREM AwaitIsAnswered == Spec => []AwaitedAnswers
  <1>1. Init => AwaitedAnswers
    BY IdleLemma DEF Init, AwaitedAnswers, At
  <1>2. IInv /\ AwaitedAnswers /\ [Next]_vars => AwaitedAnswers'
    <2>1. ASSUME AwaitedAnswers, UNCHANGED vars
          PROVE  AwaitedAnswers'
      BY <2>1 DEF vars, AwaitedAnswers, At
    <2> QED BY <2>1, AwaitStep DEF IInv
  <1> QED BY <1>1, <1>2, Invariance, PTL DEF Spec

-----------------------------------------------------------------------------
(* No DuckType is forgotten.                                               *)

\* A request whose name is not waiting again works on what the cache has now, or on
\* what it wrote itself since.
CopyInv ==
    ~At("idle") /\ worker.name \notin queue => seen[worker.name] <= worker.rv

\* A request that comes to the status without an error has left its object in the map.
StartedInv ==
    At("status") /\ ~worker.err =>
        /\ ~worker.obj.deleting /\ worker.obj.finalizer
        /\ worker.obj.uid \in managers

RestInv == CopyInv /\ StartedInv /\ NothingForgotten

\* The steps of the worker that stay with the request and write nothing.
Move ==
    \/ FinalizerConflict \/ ReconcileChildren \/ SkipStart \/ Start
    \/ ShutdownNothing \/ ShutdownCancel \/ ShutdownDone \/ StepFails

\* Such a step keeps the request and the queue.
LEMMA MoveLemma ==
    ASSUME TypeOK, Move
    PROVE  /\ UNCHANGED <<hist, seen, queue>>
           /\ ~At("idle") /\ ~At("idle")'
           /\ worker'.name = worker.name /\ worker'.rv = worker.rv
           /\ worker'.obj = worker.obj
  <1>0. worker \in Worker
    BY DEF TypeOK
  <1>1. UNCHANGED <<hist, seen, queue>> /\ ~At("idle")
    BY DEF Move, FinalizerConflict, ReconcileChildren, SkipStart, Start, ShutdownNothing,
       ShutdownCancel, ShutdownDone, StepFails, At
  <1>2. CASE FinalizerConflict \/ SkipStart \/ Start \/ StepFails
    <2>1. PICK e \in BOOLEAN : ToStatus(e)
      BY <1>2 DEF FinalizerConflict, SkipStart, Start, StepFails, TypeOK, Worker,
         Version, DuckType, Absent
    <2> QED BY <1>0, <1>1, <2>1, ToStatusLemma DEF At
  <1>3. CASE ReconcileChildren \/ ShutdownNothing \/ ShutdownCancel \/ ShutdownDone
    <2>1. PICK pc \in {"sub", "await", "clear"} : Goto(pc)
      BY <1>3 DEF ReconcileChildren, ShutdownNothing, ShutdownCancel, ShutdownDone
    <2> QED BY <1>0, <1>1, <2>1, GotoLemma DEF At, PCs
  <1> QED BY <1>2, <1>3 DEF Move

\* The steps that end the request.
End == ClearFinalizer \/ ClearConflict \/ StatusUnchanged \/ StatusUpdate \/ StatusConflict

\* They leave the worker idle and take no name from the queue.
LEMMA EndLemma ==
    ASSUME End
    PROVE  worker' = Idle /\ At("idle")' /\ seen' = seen /\ managers' = managers
           /\ queue \subseteq queue' /\ ~At("idle")
  BY IdleLemma DEF End, ClearFinalizer, ClearConflict, StatusUnchanged, StatusUpdate,
     StatusConflict, Return, At, subVars

\* The copy of the request is not older than the cache, unless the name waits again.
LEMMA CopyStep ==
    ASSUME TypeOK, CopyInv, Next
    PROVE  CopyInv'
  <1>1. ASSUME NEW n \in Names, NameStep(n)
        PROVE  CopyInv'
    <2>1. CASE Create(n) \/ Edit(n) \/ Delete(n) \/ Resync(n)
      BY <2>1 DEF Create, Edit, Delete, Resync, ctrlVars, CopyInv, At
    <2>2. CASE CacheSync(n)
      BY <2>2 DEF CacheSync, CopyInv, At, TypeOK
    <2>3. CASE Dequeue(n)
      <3>1. seen' = seen /\ seen[n] \in Nat
        BY <2>3 DEF Dequeue, TypeOK
      <3>2. worker' = Idle \/ (worker'.name = n /\ worker'.rv = seen[n])
        BY <2>3 DEF Dequeue
      <3> QED BY <3>1, <3>2, IdleLemma DEF CopyInv, At
    <2> QED BY <1>1, <2>1, <2>2, <2>3 DEF NameStep
  <1>2. CASE AddFinalizer
    <2>1. /\ worker'.name = worker.name /\ worker'.rv = worker.rv + 1
          /\ worker.rv \in Nat /\ ~At("idle")
          /\ seen' = seen /\ queue' = queue
      BY <1>2 DEF AddFinalizer, TypeOK, Worker, At
    <2>2. worker.name \in Names /\ seen[worker.name] \in Nat
      BY <2>1 DEF TypeOK
    <2> QED BY <2>1, <2>2 DEF CopyInv
  <1>3. CASE Move
    BY <1>3, MoveLemma DEF CopyInv
  <1>4. CASE End
    BY <1>4, EndLemma DEF CopyInv
  <1>5. CASE Crash
    BY <1>5, IdleLemma DEF Crash, CopyInv, At
  <1>6. ASSUME NEW u \in UIDs, GoroutineStep(u)
        PROVE  CopyInv'
    BY <1>6 DEF GoroutineStep, SubManagerStops, SubManagerFails, ctrlVars, CopyInv, At
  <1> QED BY <1>1, <1>2, <1>3, <1>4, <1>5, <1>6 DEF Next, WorkerStep, Move, End

\* start() has run, or had run before, when the status is reached without an error.
LEMMA StartedStep ==
    ASSUME TypeOK, StartedInv, Next
    PROVE  StartedInv'
  <1>0. worker \in Worker /\ worker.obj \in Version
    BY DEF TypeOK, Worker
  <1>1. ASSUME NEW n \in Names, NameStep(n)
        PROVE  StartedInv'
    BY <1>1, IdleLemma DEF NameStep, Create, Edit, Delete, CacheSync, Resync, Dequeue,
       ctrlVars, subVars, StartedInv, At
  <1>2. CASE FinalizerConflict \/ StepFails
    <2>1. worker'.err = TRUE
      BY <1>0, <1>2 DEF FinalizerConflict, StepFails, ToStatus, Worker
    <2> QED BY <2>1 DEF StartedInv
  <1>3. CASE SkipStart
    <2>1. worker'.err = ~worker.obj.finalizer /\ worker'.obj = worker.obj
      BY <1>0, <1>3 DEF SkipStart, ToStatus, Worker
    <2> QED BY <1>3, <2>1 DEF SkipStart, StartedInv, subVars
  <1>4. CASE Start
    <2>1. worker'.obj = worker.obj
      BY <1>0, <1>4 DEF Start, ToStatus, Worker
    <2> QED BY <1>4, <2>1 DEF Start, StartedInv
  <1>5. CASE ReconcileChildren \/ ShutdownNothing \/ ShutdownCancel \/ ShutdownDone
    <2>1. PICK pc \in {"sub", "await", "clear"} : Goto(pc)
      BY <1>5 DEF ReconcileChildren, ShutdownNothing, ShutdownCancel, ShutdownDone
    <2> QED BY <1>0, <2>1, GotoLemma DEF At, PCs, StartedInv
  <1>6. CASE AddFinalizer
    <2>1. worker'.pc = "children"
      BY <1>0, <1>6 DEF AddFinalizer, Worker
    <2> QED BY <2>1 DEF StartedInv, At
  <1>7. CASE End
    BY <1>7, EndLemma DEF StartedInv, At
  <1>8. CASE Crash
    BY <1>8, IdleLemma DEF Crash, StartedInv, At
  <1>9. ASSUME NEW u \in UIDs, GoroutineStep(u)
        PROVE  StartedInv'
    BY <1>9 DEF GoroutineStep, SubManagerStops, SubManagerFails, ctrlVars, StartedInv, At
  <1> QED BY <1>1, <1>2, <1>3, <1>4, <1>5, <1>6, <1>7, <1>8, <1>9
          DEF Next, WorkerStep, End

\* A DuckType for which nothing was under way stays served when nothing of it changes.
LEMMA StaysServed ==
    ASSUME NothingForgotten, NEW n \in Names, ~Pending(n), Latest(n)' = Latest(n),
           Latest(n) # Absent, Latest(n).uid \in managers => Latest(n)'.uid \in managers'
    PROVE  /\ ~Latest(n)'.deleting /\ Latest(n)'.finalizer
           /\ Latest(n)'.uid \in managers'
  BY DEF NothingForgotten

\* Whoever stops to work on a DuckType leaves it served, gone or in the queue.
LEMMA RestStep ==
    ASSUME IInv, RestInv, Next
    PROVE  NothingForgotten'
  <1> USE VersionLemma DEF IInv
  <1> SUFFICES ASSUME NEW n \in Names, ~Pending(n)', Latest(n)' # Absent
               PROVE  /\ ~Latest(n)'.deleting /\ Latest(n)'.finalizer
                      /\ Latest(n)'.uid \in managers'
    BY DEF NothingForgotten
  <1>0. /\ n \notin queue' /\ ~(seen'[n] < Len(hist'[n]))
        /\ At("idle")' \/ worker'.name # n
    BY DEF Pending
  <1>1. ASSUME seen'[n] = seen[n], UNCHANGED subVars
        PROVE  /\ hist'[n] = hist[n] /\ Latest(n)' = Latest(n)
               /\ seen[n] = Len(hist[n])
    <2>1. CASE hist' = hist
      BY <1>0, <1>1, <2>1 DEF Latest, TypeOK
    <2>2. ASSUME NEW m \in Names, NEW v \in Version, Store(m, v)
          PROVE  hist'[n] = hist[n]
      BY <1>0, <1>1, <2>2, StoreLemma DEF TypeOK
    <2>3. hist'[n] = hist[n]
      BY <2>1, <2>2, WriteLemma
    <2> QED BY <1>0, <1>1, <2>3 DEF Latest, TypeOK
  <1>2. ASSUME Latest(n)' = Latest(n), ~Pending(n), managers' = managers
        PROVE  /\ ~Latest(n)'.deleting /\ Latest(n)'.finalizer
               /\ Latest(n)'.uid \in managers'
    BY <1>2, StaysServed DEF RestInv
  <1>3. ASSUME NEW m \in Names, Create(m) \/ Edit(m) \/ Delete(m)
        PROVE  /\ ~Latest(n)'.deleting /\ Latest(n)'.finalizer
               /\ Latest(n)'.uid \in managers'
    <2>1. UNCHANGED <<seen, queue, worker, subVars>>
      BY <1>3 DEF Create, Edit, Delete, ctrlVars
    <2>2. ~Pending(n)
      BY <1>0, <1>1, <2>1 DEF Pending, At
    <2> QED BY <1>1, <1>2, <2>1, <2>2 DEF subVars
  <1>4. ASSUME NEW m \in Names, CacheSync(m) \/ Resync(m)
        PROVE  /\ ~Latest(n)'.deleting /\ Latest(n)'.finalizer
               /\ Latest(n)'.uid \in managers'
    <2>1. /\ UNCHANGED <<hist, worker, subVars>> /\ queue' = queue \cup {m}
          /\ m # n => seen'[n] = seen[n]
      BY <1>4 DEF CacheSync, Resync, TypeOK
    <2>2. ~Pending(n)
      BY <1>0, <1>1, <2>1 DEF Pending, At
    <2> QED BY <1>2, <2>1, <2>2 DEF subVars, Latest
  <1>5. ASSUME NEW m \in Names, Dequeue(m)
        PROVE  /\ ~Latest(n)'.deleting /\ Latest(n)'.finalizer
               /\ Latest(n)'.uid \in managers'
    <2>1. /\ UNCHANGED <<hist, seen, subVars>> /\ queue' = queue \ {m} /\ At("idle")
      BY <1>5 DEF Dequeue
    <2>2. m # n
      <3> SUFFICES ASSUME m = n
                   PROVE  FALSE
        OBVIOUS
      <3>1. Cached(n) = Latest(n)
        BY <1>1, <2>1 DEF Cached, Latest
      <3>2. Cached(n) # Absent
        BY <1>1, <2>1, <3>1
      <3>3. worker'.name = n /\ ~At("idle")'
        BY <1>5, <3>2 DEF Dequeue, At
      <3> QED BY <1>0, <3>3
    <2>3. ~Pending(n)
      BY <1>0, <1>1, <2>1, <2>2 DEF Pending
    <2> QED BY <1>1, <1>2, <2>1, <2>3 DEF subVars
  <1>6. CASE AddFinalizer
    <2>1. /\ UNCHANGED <<seen, queue, subVars>> /\ worker'.name = worker.name
          /\ worker'.pc = "children"
      BY <1>6 DEF AddFinalizer, TypeOK, Worker
    <2>2. ~Pending(n)
      BY <1>0, <1>1, <2>1 DEF Pending, At
    <2> QED BY <1>1, <1>2, <2>1, <2>2 DEF subVars
  <1>7. CASE Move
    <2>1. /\ UNCHANGED <<hist, seen, queue>> /\ worker.name # n /\ ~At("idle")
          /\ Latest(n)' = Latest(n)
      BY <1>0, <1>7, MoveLemma DEF Latest
    <2>2. ~Pending(n)
      BY <1>0, <2>1 DEF Pending
    <2>3. Latest(n).uid # worker.obj.uid
      <3>1. /\ worker.name \in Names /\ worker.rv \in 1 .. Len(hist[worker.name])
            /\ worker.obj = hist[worker.name][worker.rv] /\ worker.obj \in DuckType
        BY <2>1 DEF TypeOK, WorkerInv
      <3>2. Len(hist[n]) \in 1 .. Len(hist[n]) /\ worker.obj.uid # None
        BY <3>1, ConstantsAssumption DEF DuckType
      <3> QED BY <2>1, <3>1, <3>2 DEF HistInv, Latest
    <2>4. Latest(n).uid \in managers => Latest(n).uid \in managers'
      BY <1>7, <2>3 DEF Move, FinalizerConflict, ReconcileChildren, SkipStart, Start,
         ShutdownNothing, ShutdownCancel, ShutdownDone, StepFails, subVars
    <2> QED BY <2>1, <2>2, <2>4, StaysServed DEF RestInv
  <1>8. CASE End /\ worker.name # n
    <2>1. UNCHANGED <<seen, managers>> /\ queue \subseteq queue' /\ UNCHANGED subVars
      BY <1>8, EndLemma DEF End, ClearFinalizer, ClearConflict, StatusUnchanged,
         StatusUpdate, StatusConflict
    <2>2. ~Pending(n)
      BY <1>0, <1>1, <1>8, <2>1 DEF Pending
    <2> QED BY <1>1, <1>2, <2>1, <2>2
  <1>9. CASE ClearFinalizer /\ worker.name = n
    <2>1. Store(n, Absent) /\ Absent \in Version
      BY <1>9 DEF ClearFinalizer
    <2>2. Latest(n)' = Absent
      BY <2>1, StoreLemma DEF TypeOK
    <2> QED BY <2>2
  <1>10. CASE StatusUpdate /\ worker.name = n
    <2>1. Store(n, worker.obj) /\ worker.obj \in Version /\ seen' = seen
      BY <1>10 DEF StatusUpdate
    <2>2. Len(hist'[n]) = Len(hist[n]) + 1
      BY <2>1, StoreLemma DEF TypeOK
    <2>3. seen[n] \in 1 .. Len(hist[n]) /\ Len(hist[n]) \in Nat
      BY DEF TypeOK
    <2> QED BY <1>0, <2>1, <2>2, <2>3
  <1>11. CASE (ClearConflict \/ StatusConflict) /\ worker.name = n
    BY <1>0, <1>11 DEF ClearConflict, StatusConflict, Return
  <1>12. CASE StatusUnchanged /\ worker.name = n
    <2>1. /\ At("status") /\ ~worker.err /\ n \notin queue
          /\ UNCHANGED <<hist, seen, subVars>>
      BY <1>0, <1>12 DEF StatusUnchanged, Return, TypeOK, Worker
    <2>2. ~At("idle") /\ worker.rv \in 1 .. Len(hist[n])
      BY <1>12, <2>1 DEF At, TypeOK
    <2>3. worker.rv = Len(hist[n])
      BY <1>1, <1>12, <2>1, <2>2 DEF RestInv, CopyInv
    <2>4. worker.obj = Latest(n)
      BY <1>12, <2>2, <2>3 DEF WorkerInv, Latest
    <2>5. Latest(n)' = Latest(n) /\ managers' = managers
      BY <2>1 DEF Latest, subVars
    <2> QED BY <2>1, <2>4, <2>5 DEF RestInv, StartedInv
  <1>13. CASE Crash
    <2>1. n \in queue'
      BY <1>13 DEF Crash, Latest
    <2> QED BY <1>0, <2>1
  <1>14. ASSUME NEW u \in UIDs, GoroutineStep(u)
        PROVE  /\ ~Latest(n)'.deleting /\ Latest(n)'.finalizer
               /\ Latest(n)'.uid \in managers'
    <2>1. UNCHANGED <<hist, seen, queue, worker, managers>>
      BY <1>14 DEF GoroutineStep, SubManagerStops, SubManagerFails, ctrlVars
    <2>2. ~Pending(n) /\ Latest(n)' = Latest(n)
      BY <1>0, <2>1 DEF Pending, At, Latest
    <2> QED BY <1>2, <2>1, <2>2
  <1> QED BY <1>3, <1>4, <1>5, <1>6, <1>7, <1>8, <1>9, <1>10, <1>11, <1>12, <1>13, <1>14
          DEF Next, NameStep, WorkerStep, Move, End

\* The controller comes to rest only when every stored DuckType is served, for every
\* number of DuckTypes, versions and failures.
THEOREM NoneForgotten == Spec => []NothingForgotten
  <1>1. Init => RestInv
    <2> SUFFICES ASSUME Init
                 PROVE  RestInv
      OBVIOUS
    <2>1. \A n \in Names : Latest(n) = Absent
      BY DEF Init, Latest
    <2> QED BY <2>1, IdleLemma DEF Init, RestInv, CopyInv, StartedInv, NothingForgotten, At
  <1>2. IInv /\ RestInv /\ [Next]_vars => RestInv'
    <2>1. ASSUME RestInv, UNCHANGED vars
          PROVE  RestInv'
      BY <2>1 DEF vars, RestInv, CopyInv, StartedInv, NothingForgotten, Pending, At, Latest
    <2>2. ASSUME IInv, RestInv, Next
          PROVE  RestInv'
      BY <2>2, CopyStep, StartedStep, RestStep DEF IInv, RestInv
    <2> QED BY <2>1, <2>2
  <1> QED BY <1>1, <1>2, Invariance, PTL DEF Spec, RestInv

-----------------------------------------------------------------------------
(* Refinement of DuckTypeLifecycle.                                        *)

\* The controller starts where the life cycle starts.
LEMMA InitRefines == Init => Lifecycle!Init
  <1> SUFFICES ASSUME Init
               PROVE  Lifecycle!Init
    OBVIOUS
  <1>1. \A n \in Names : hist[n] = <<Absent>> /\ Latest(n) = Absent
    BY DEF Init, Latest
  <1>2. Owner = [n \in Names |-> None]
    BY <1>1 DEF Owner, Absent
  <1>3. UsedUIDs = {}
    BY <1>1, ConstantsAssumption DEF UsedUIDs, Absent
  <1>4. Serving = {}
    BY DEF Init, Serving
  <1> QED BY <1>2, <1>3, <1>4 DEF Lifecycle!Init

\* A write adds the written UID to the used ones and makes it the owner.
LEMMA WriteOwner ==
    ASSUME TypeOK, NEW n \in Names, NEW v \in Version, Store(n, v)
    PROVE  /\ Owner' = [Owner EXCEPT ![n] = v.uid]
           /\ UsedUIDs' = UsedUIDs \cup ({v.uid} \cap UIDs)
  <1>0. \A m \in Names : Len(hist[m]) \in Nat /\ 1 <= Len(hist[m])
    BY VersionLemma
  <1>1. /\ Len(hist'[n]) = Len(hist[n]) + 1
        /\ Latest(n)' = v /\ hist'[n][Len(hist[n]) + 1] = v
        /\ \A i \in 1 .. Len(hist[n]) : hist'[n][i] = hist[n][i]
        /\ \A m \in Names \ {n} : hist'[m] = hist[m] /\ Latest(m)' = Latest(m)
    BY <1>0, StoreLemma DEF TypeOK, Latest
  <1>2. Owner' = [Owner EXCEPT ![n] = v.uid]
    BY <1>1 DEF Owner
  <1>3. /\ \A m \in Names : DOMAIN hist[m] = 1 .. Len(hist[m])
        /\ \A m \in Names : DOMAIN hist'[m] = 1 .. Len(hist'[m])
    BY <1>0, StoreLemma DEF TypeOK
  <1>4. ASSUME NEW u \in UsedUIDs'
        PROVE  u \in UsedUIDs \cup ({v.uid} \cap UIDs)
    <2>0. PICK m \in Names : \E i \in 1 .. Len(hist'[m]) : hist'[m][i].uid = u
      BY <1>3 DEF UsedUIDs
    <2>1. PICK i \in 1 .. Len(hist'[m]) : hist'[m][i].uid = u
      BY <2>0
    <2>2. hist'[m][i] = v \/ (i \in 1 .. Len(hist[m]) /\ hist'[m][i] = hist[m][i])
      <3>1. CASE m # n
        <4>1. hist'[m] = hist[m]
          BY <1>1, <3>1
        <4> QED BY <4>1
      <3>2. CASE m = n
        <4>1. i \in 1 .. Len(hist[n]) \/ i = Len(hist[n]) + 1
          BY <1>0, <1>1, <3>2
        <4> QED BY <1>1, <3>2, <4>1
      <3> QED BY <3>1, <3>2
    <2> QED BY <1>3, <2>1, <2>2 DEF UsedUIDs
  <1>5. ASSUME NEW u \in UsedUIDs \cup ({v.uid} \cap UIDs)
        PROVE  u \in UsedUIDs'
    <2>1. CASE u \in UsedUIDs
      <3>0. PICK m \in Names : \E i \in 1 .. Len(hist[m]) : hist[m][i].uid = u
        BY <1>3, <2>1 DEF UsedUIDs
      <3>1. PICK i \in 1 .. Len(hist[m]) : hist[m][i].uid = u
        BY <3>0
      <3>2. i \in 1 .. Len(hist'[m]) /\ hist'[m][i] = hist[m][i]
        <4>1. CASE m # n
          <5>1. hist'[m] = hist[m]
            BY <1>1, <4>1
          <5> QED BY <5>1
        <4>2. CASE m = n
          BY <1>0, <1>1, <4>2
        <4> QED BY <4>1, <4>2
      <3> QED BY <1>3, <2>1, <3>1, <3>2 DEF UsedUIDs
    <2>2. CASE u = v.uid /\ u \in UIDs
      <3>1. Len(hist[n]) + 1 \in 1 .. Len(hist'[n])
        BY <1>0, <1>1
      <3> QED BY <1>1, <1>3, <2>2, <3>1 DEF UsedUIDs
    <2> QED BY <2>1, <2>2
  <1> QED BY <1>2, <1>4, <1>5

\* A legal write adds a DuckType, removes one that is not served, or changes
\* nothing the life cycle shows.
LEMMA WriteRefines ==
    ASSUME IInv, NEW n \in Names, NEW v \in Version,
           Store(n, v), Legal(n, v), UNCHANGED subVars
    PROVE  [Lifecycle!Next]_(Lifecycle!lifecycleVars)
  <1> USE VersionLemma DEF IInv
  <1>1. /\ Owner' = [Owner EXCEPT ![n] = v.uid]
        /\ UsedUIDs' = UsedUIDs \cup ({v.uid} \cap UIDs)
    BY WriteOwner
  <1>2. Serving' = Serving /\ \A u \in Serving : u \in managers
    BY DEF Serving, subVars, SubInv
  <1>3. Owner \in [Names -> UIDs \cup {None}] /\ Owner[n] = Latest(n).uid
    BY DEF Owner, Version, DuckType, Absent
  <1>4. CASE v = Absent /\ Latest(n) = Absent
    <2>1. Owner' = Owner /\ UsedUIDs' = UsedUIDs
      BY <1>1, <1>3, <1>4, ConstantsAssumption DEF Absent
    <2> QED BY <1>2, <2>1 DEF Lifecycle!lifecycleVars
  <1>5. CASE v = Absent /\ Latest(n) # Absent
    <2>1. Owner' = [Owner EXCEPT ![n] = None] /\ UsedUIDs' = UsedUIDs
      BY <1>1, <1>5, ConstantsAssumption DEF Absent
    <2>2. Latest(n) \in DuckType /\ Owner[n] \in UIDs /\ Owner[n] # None
      BY <1>3, <1>5, ConstantsAssumption DEF Version, DuckType
    <2>3. Owner[n] \notin Serving
      <3> SUFFICES ASSUME Owner[n] \in Serving
                   PROVE  FALSE
        OBVIOUS
      <3>1. PICK m \in Names : Latest(m).uid = Owner[n] /\ Latest(m).finalizer
        BY <1>2 DEF SubInv
      <3>2. m = n
        BY <1>3, <2>2, <3>1, OwnerLemma
      <3>3. Latest(n).uid \in managers
        BY <1>2, <1>3
      <3> QED BY <1>5, <3>1, <3>2, <3>3, ConstantsAssumption DEF Legal, DuckType, Absent
    <2>4. Lifecycle!Remove(n)
      BY <1>2, <2>1, <2>2, <2>3 DEF Lifecycle!Remove
    <2> QED BY <2>4 DEF Lifecycle!Next
  <1>6. CASE v # Absent /\ Latest(n) = Absent
    <2>1. v.uid \in UIDs \ UsedUIDs
      BY <1>6 DEF Legal
    <2>2. Owner[n] = None
      BY <1>3, <1>6 DEF Absent
    <2>3. Lifecycle!Add(n)
      BY <1>1, <1>2, <2>1, <2>2 DEF Lifecycle!Add
    <2> QED BY <2>3 DEF Lifecycle!Next
  <1>7. CASE v # Absent /\ Latest(n) # Absent
    <2>1. v.uid = Latest(n).uid
      BY <1>7 DEF Legal
    <2>2. Latest(n).uid \in UsedUIDs
      <3>1. Latest(n).uid \in UIDs
        BY <1>7 DEF Version, DuckType
      <3>2. Len(hist[n]) \in DOMAIN hist[n]
        BY DEF TypeOK
      <3> QED BY <3>1, <3>2 DEF UsedUIDs, Latest
    <2>3. Owner' = Owner /\ UsedUIDs' = UsedUIDs
      BY <1>1, <1>3, <2>1, <2>2
    <2> QED BY <1>2, <2>3 DEF Lifecycle!lifecycleVars
  <1> QED BY <1>4, <1>5, <1>6, <1>7

\* Every step of the controller is a step of the life cycle or leaves it alone.
LEMMA NextRefines ==
    IInv /\ [Next]_vars => [Lifecycle!Next]_(Lifecycle!lifecycleVars)
  <1> USE DEF IInv
  <1>1. ASSUME IInv, UNCHANGED vars
        PROVE  UNCHANGED Lifecycle!lifecycleVars
    BY <1>1 DEF vars, Lifecycle!lifecycleVars, Owner, UsedUIDs, Serving, Latest
  <1>2. ASSUME IInv, Next, hist' # hist
        PROVE  [Lifecycle!Next]_(Lifecycle!lifecycleVars)
    BY <1>2, WriteLemma, WriteRefines
  <1>3. ASSUME IInv, Next, hist' = hist
        PROVE  [Lifecycle!Next]_(Lifecycle!lifecycleVars)
    <2>1. Owner' = Owner /\ UsedUIDs' = UsedUIDs
      BY <1>3 DEF Owner, UsedUIDs, Latest
    <2>2. CASE Start
      <3>1. worker.name \in Names /\ worker.obj.uid \in UIDs
        BY <1>3, <2>2 DEF Start, At, TypeOK, DuckType
      <3>2. Owner[worker.name] = worker.obj.uid /\ worker.obj.uid # None
        BY <1>3, <2>2, <3>1, ConstantsAssumption DEF Start, At, WorkerInv, Owner
      <3>3. Serving' = Serving \cup {worker.obj.uid}
        BY <1>3, <2>2, <3>1 DEF Start, Serving, TypeOK
      <3>4. Lifecycle!Serve(worker.name)
        BY <2>1, <3>2, <3>3 DEF Lifecycle!Serve
      <3> QED BY <3>1, <3>4 DEF Lifecycle!Next
    <2>3. CASE ~Start
      <3>1. CASE goroutine' = goroutine
        BY <2>1, <3>1 DEF Serving, Lifecycle!lifecycleVars
      <3>2. CASE goroutine' # goroutine
        <4>1. Serving' \subseteq Serving
          <5>1. ShutdownDone \/ Crash \/ \E u \in UIDs : GoroutineStep(u)
            BY <1>3, <2>3, <3>2 DEF Next, NameStep, Create, Edit, Delete, CacheSync,
               Resync, Dequeue, WorkerStep, AddFinalizer, FinalizerConflict,
               ReconcileChildren, SkipStart, ShutdownNothing, ShutdownCancel,
               ClearFinalizer, ClearConflict, StepFails, StatusUnchanged,
               StatusUpdate, StatusConflict, subVars
          <5>2. \A u \in UIDs : goroutine'[u] # "none" => goroutine[u] # "none"
            BY <1>3, <5>1 DEF ShutdownDone, Crash, GoroutineStep, SubManagerStops,
               SubManagerFails, TypeOK
          <5> QED BY <5>2 DEF Serving
        <4>2. Serving' = Serving \ (Serving \ Serving')
          BY <4>1
        <4>3. Lifecycle!StopServing
          BY <2>1, <4>2 DEF Lifecycle!StopServing
        <4> QED BY <4>3 DEF Lifecycle!Next
      <3> QED BY <3>1, <3>2
    <2> QED BY <2>2, <2>3
  <1> QED BY <1>1, <1>2, <1>3

\* The controller implements the life cycle it promises, for every instance.
THEOREM Refinement == Spec => ImplementsLifecycle
  BY InitRefines, NextRefines, Invariance, PTL
  DEF Spec, ImplementsLifecycle, Lifecycle!Spec

\* Identities are taken from those never used, so that no two DuckTypes share one.
PromiseInv ==
    /\ DOMAIN Owner = Names
    /\ \A n \in Names : Owner[n] # None => Owner[n] \in UsedUIDs
    /\ \A m, n \in Names : Owner[m] = Owner[n] /\ Owner[n] # None => m = n
    /\ \A u \in Serving : u # None /\ \E n \in Names : Owner[n] = u

\* Every step of the life cycle keeps them so.
LEMMA PromiseStep ==
    ASSUME PromiseInv, Lifecycle!Next
    PROVE  PromiseInv'
  <1> DEFINE o == Owner
             p == Owner'
             v == Serving
             w == Serving'
  <1>0. DOMAIN p = Names
    BY DEF Owner
  <1>1. ASSUME NEW n \in Names, Lifecycle!Add(n)
        PROVE  PromiseInv'
    <2>1. PICK u \in UIDs \ UsedUIDs : p = [o EXCEPT ![n] = u] /\ UsedUIDs' = UsedUIDs \cup {u}
      BY <1>1 DEF Lifecycle!Add
    <2>2. w = v /\ o[n] = None
      BY <1>1 DEF Lifecycle!Add
    <2>3. p[n] = u /\ \A m \in Names \ {n} : p[m] = o[m]
      BY <2>1 DEF PromiseInv
    <2>4. \A x \in w : x # None /\ \E m \in Names : p[m] = x
      BY <2>2, <2>3 DEF PromiseInv
    <2>5. \A m \in Names : p[m] # None => p[m] \in UsedUIDs'
      BY <2>1, <2>3 DEF PromiseInv
    <2>6. \A m, x \in Names : p[m] = p[x] /\ p[x] # None => m = x
      BY <2>1, <2>3 DEF PromiseInv
    <2> QED BY <1>0, <2>4, <2>5, <2>6 DEF PromiseInv
  <1>2. ASSUME NEW n \in Names, Lifecycle!Serve(n)
        PROVE  PromiseInv'
    <2>1. o[n] # None /\ w = v \cup {o[n]} /\ p = o /\ UsedUIDs' = UsedUIDs
      BY <1>2 DEF Lifecycle!Serve
    <2> QED BY <2>1 DEF PromiseInv
  <1>3. ASSUME NEW n \in Names, Lifecycle!Remove(n)
        PROVE  PromiseInv'
    <2>1. o[n] \notin v /\ w = v /\ p = [o EXCEPT ![n] = None] /\ UsedUIDs' = UsedUIDs
      BY <1>3 DEF Lifecycle!Remove
    <2>2. p[n] = None /\ \A m \in Names \ {n} : p[m] = o[m]
      BY <2>1 DEF PromiseInv
    <2>3. \A x \in w : x # None /\ \E m \in Names : p[m] = x
      BY <2>1, <2>2 DEF PromiseInv
    <2> QED BY <1>0, <2>1, <2>2, <2>3 DEF PromiseInv
  <1>4. ASSUME Lifecycle!StopServing
        PROVE  PromiseInv'
    <2>1. w \subseteq v /\ p = o /\ UsedUIDs' = UsedUIDs
      BY <1>4 DEF Lifecycle!StopServing
    <2> QED BY <2>1 DEF PromiseInv
  <1> QED BY <1>1, <1>2, <1>3, <1>4 DEF Lifecycle!Next

\* Whatever implements the life cycle serves stored DuckTypes only, each identity that
\* of one of them.
THEOREM LifecyclePromise == Lifecycle!Spec => []Lifecycle!ServedIsStored
  <1>1. Lifecycle!Init => PromiseInv
    BY DEF Lifecycle!Init, PromiseInv
  <1>2. PromiseInv /\ [Lifecycle!Next]_(Lifecycle!lifecycleVars) => PromiseInv'
    <2>1. ASSUME PromiseInv, UNCHANGED Lifecycle!lifecycleVars
          PROVE  PromiseInv'
      BY <2>1 DEF Lifecycle!lifecycleVars, PromiseInv
    <2> QED BY <2>1, PromiseStep
  <1>3. PromiseInv => Lifecycle!ServedIsStored
    BY DEF PromiseInv, Lifecycle!ServedIsStored
  <1> QED BY <1>1, <1>2, <1>3, PTL DEF Lifecycle!Spec

\* So does the DuckType controller: no sub-manager serves an identity that is not
\* stored, and no two DuckTypes share one (SubManagerReconciler.start, shutdown).
THEOREM ServesStored == Spec => []Lifecycle!ServedIsStored
  BY Refinement, LifecyclePromise, PTL DEF ImplementsLifecycle

=============================================================================
