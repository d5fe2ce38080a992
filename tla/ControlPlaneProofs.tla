------------------------- MODULE ControlPlaneProofs -------------------------
(***************************************************************************)
(* Proofs about ControlPlane: the types, what sub-managers read and which  *)
(* kinds they were made for, for any number of DuckTypes, kinds, command   *)
(* lines and restarts; what the webhook admits again, what a sub-manager   *)
(* waits for.  Then what validation of Ducks and the check of              *)
(* their readiness have in common, and the options of the servers.         *)
(***************************************************************************)
EXTENDS ControlPlane, SequenceTheorems, TLAPS

-----------------------------------------------------------------------------
(* Names and groups.                                                       *)

\* What is put together with a dot ends with its second part.
LEMMA NameEnds ==
    ASSUME NEW p \in String, NEW g \in String
    PROVE  HasSuffix(p \o g, g) /\ Len(p \o g) = Len(p) + Len(g)
  <1> DEFINE n == p \o g
             t == SubSeq(n, Len(n) - Len(g) + 1, Len(n))
  <1>1. /\ p \in Seq(Labels) /\ g \in Seq(Labels)
        /\ Len(p) \in Nat /\ Len(g) \in Nat /\ Len(p) > 0
    BY DEF String
  <1>2. n \in Seq(Labels) /\ Len(n) = Len(p) + Len(g)
    BY <1>1
  <1>3. \A i \in 1 .. Len(g) : n[Len(p) + i] = g[i]
    BY <1>1
  <1>4. Len(n) - Len(g) + 1 = Len(p) + 1
    BY <1>1, <1>2
  <1> HIDE DEF n
  <1>5. t \in Seq(Labels) /\ Len(t) = Len(g)
    BY <1>1, <1>2, <1>4
  <1>6. \A i \in 1 .. Len(g) : t[i] = g[i]
    BY <1>1, <1>2, <1>3, <1>4
  <1>7. t = g
    <2> HIDE DEF t
    <2> QED BY <1>1, <1>5, <1>6
  <1>8. HasSuffix(n, g)
    BY <1>1, <1>2, <1>7 DEF HasSuffix
  <1> QED BY <1>2, <1>8 DEF n

\* Defaults leave the group and are a spec; a valid one names its kinds.
LEMMA DefaultSpec ==
    ASSUME NEW spec \in Specs
    PROVE  /\ Default(spec) \in DuckTypeSpec
           /\ Default(spec).group = spec.group /\ Default(spec).plural = spec.plural
           /\ Default(spec).kind = spec.kind
  BY AdmissionAssumption DEF Default, DuckTypeSpec

\* The name of an admitted DuckType ends with its group.
LEMMA AdmittedName ==
    ASSUME NEW n, NEW spec \in Specs, Validate(n, Default(spec))
    PROVE  /\ spec.plural \in String /\ spec.group \in String
           /\ HasSuffix(n, spec.group) /\ Len(n) = Len(spec.plural) + Len(spec.group)
  <1>1. spec.plural \in String /\ spec.group \in String
    BY AdmissionAssumption DEF DuckTypeSpec
  <1>2. n = spec.plural \o spec.group
    BY DefaultSpec DEF Validate
  <1> QED BY <1>1, <1>2, NameEnds

-----------------------------------------------------------------------------
(* The inductive invariant.                                                *)

\* The types of what the process, users and the API server change.
Types ==
    /\ stored \in [Names -> Specs \cup {None}]
    /\ api \in [DuckKinds -> [live : BOOLEAN, incarnation : 0 .. MaxIncarnations]]
    /\ shared \in [Kinds -> Informer]
    /\ sub \in [Names -> Manager \cup {NoManager}]

\* The first incarnation that is not over.
FirstAlive(a) == IF a.live THEN a.incarnation ELSE a.incarnation + 1

\* Sub-manager m reads Ducks from an informer of its own, that has no dead ones.
Clean(m, a) ==
    /\ m.kind \in m.types /\ m.list \in m.types
    /\ m.since <= FirstAlive(a[m.kind])
    /\ Synced(m.local[m.kind]) => m.local[m.kind].holds >= m.since
    /\ m.read = 0 \/ m.read >= m.since

AllClean == \A n \in Names : sub[n] # NoManager => Clean(sub[n], api)

Admitted == \A n \in Names : stored[n] # None => Validate(n, Default(stored[n]))

\* Sub-manager m was made for kinds of one group, with which name n ends.
FitsName(n, m) ==
    /\ m.kind[2] # Empty /\ m.list[2] # Empty
    /\ m.kind[1] = m.list[1] /\ m.kind[1] \in String
    /\ HasSuffix(n, m.kind[1])

AllFit == \A n \in Names : sub[n] # NoManager => stored[n] # None /\ FitsName(n, sub[n])

IInv == Types /\ AllClean /\ Admitted /\ AllFit

\* A sub-manager in the hands of a step.
LEMMA SubType ==
    ASSUME Types, NEW n \in Names, sub[n] # NoManager
    PROVE  /\ sub[n] \in Manager
           /\ sub[n].kind \in DuckKinds /\ sub[n].since \in Nat /\ sub[n].read \in Nat
           /\ sub[n].local \in [Kinds -> Informer] /\ sub[n].kind \in Kinds
           /\ sub[n].kind \notin SharedKinds
           /\ api[sub[n].kind].live \in BOOLEAN
           /\ api[sub[n].kind].incarnation \in Nat
  BY CacheAssumption DEF Types, Manager, Kinds

\* The fields of an informer.
LEMMA InformerType ==
    ASSUME NEW i \in Informer
    PROVE  /\ Added(i) \in Informer
           /\ Synced(i) => i.holds \in Nat
           /\ Synced(Added(i)) <=> Synced(i)
           /\ Synced(i) => Added(i) = i
  BY CacheAssumption DEF Informer, Added, Synced

\* What an informer has that lists its kind.
LEMMA CurrentType ==
    ASSUME Types, NEW k \in Kinds
    PROVE  Current(k) \in Informer
  BY CacheAssumption DEF Types, Kinds, Current, Informer

\* A step of one sub-manager that keeps what it was made for.
LEMMA SubStep ==
    ASSUME IInv, NEW n \in Names, NEW m \in Manager, sub[n] # NoManager,
           sub' = [sub EXCEPT ![n] = m], api' = api, stored' = stored,
           shared' \in [Kinds -> Informer],
           Clean(m, api), m.kind = sub[n].kind, m.list = sub[n].list
    PROVE  IInv'
  <1>1. Types'
    BY DEF IInv, Types
  <1>2. ASSUME NEW x \in Names, sub'[x] # NoManager
        PROVE  Clean(sub'[x], api')
    BY <1>2 DEF IInv, AllClean, Types
  <1>3. Admitted'
    BY DEF IInv, Admitted
  <1>4. AllFit'
    BY DEF IInv, AllFit, FitsName, Types
  <1> QED BY <1>1, <1>2, <1>3, <1>4 DEF IInv, AllClean

-----------------------------------------------------------------------------
(* The steps.                                                              *)

\* WaitForCacheSync, Run and SyncTimeout change the phase only.
LEMMA PhaseStep ==
    ASSUME IInv, NEW n \in Names, NEW phase \in Phases, sub[n] # NoManager,
           sub' = [sub EXCEPT ![n].phase = phase],
           UNCHANGED <<api, shared, stored>>
    PROVE  IInv'
  <1> DEFINE m == [sub[n] EXCEPT !.phase = phase]
  <1>1. sub[n] \in Manager /\ Clean(sub[n], api)
    BY SubType DEF IInv, AllClean
  <1>2. /\ m \in Manager /\ m.kind = sub[n].kind /\ m.list = sub[n].list
        /\ m.types = sub[n].types /\ m.since = sub[n].since /\ m.read = sub[n].read
        /\ m.local = sub[n].local
    BY <1>1 DEF Manager
  <1>3. sub' = [sub EXCEPT ![n] = m]
    BY DEF IInv, Types
  <1> HIDE DEF m
  <1>4. Clean(m, api)
    BY <1>1, <1>2 DEF Clean
  <1>5. shared' \in [Kinds -> Informer]
    BY DEF IInv, Types
  <1> QED BY <1>2, <1>3, <1>4, <1>5, SubStep

\* GetInformer: an informer that is added has nothing yet.
LEMMA GetInformerStep ==
    ASSUME IInv, NEW n \in Names, GetInformer(n), stored' = stored
    PROVE  IInv'
  <1> DEFINE local == [k \in Kinds |-> IF k \in Watched(n) /\ IsLocal(n, k)
                                       THEN Added(sub[n].local[k]) ELSE sub[n].local[k]]
             m == [sub[n] EXCEPT !.phase = "watching", !.local = local]
  <1>0. sub[n] # NoManager
    BY DEF GetInformer, Is
  <1>1. sub[n] \in Manager /\ Clean(sub[n], api) /\ sub[n].local \in [Kinds -> Informer]
        /\ sub[n].kind \in Kinds
    BY <1>0, SubType DEF IInv, AllClean
  <1>2. local \in [Kinds -> Informer]
    BY <1>1, InformerType
  <1>3. Synced(local[sub[n].kind]) => local[sub[n].kind] = sub[n].local[sub[n].kind]
    BY <1>1, InformerType
  <1>4. sub' = [sub EXCEPT ![n] = m]
    BY DEF GetInformer, IInv, Types
  <1> HIDE DEF local
  <1>5. /\ m \in Manager /\ m.kind = sub[n].kind /\ m.list = sub[n].list
        /\ m.types = sub[n].types /\ m.since = sub[n].since /\ m.read = sub[n].read
        /\ m.local = local
    BY <1>1, <1>2 DEF Manager, Phases
  <1> HIDE DEF m
  <1>6. Clean(m, api)
    BY <1>1, <1>3, <1>5 DEF Clean
  <1>7. shared' \in [Kinds -> Informer]
    BY InformerType DEF GetInformer, IInv, Types
  <1>8. api' = api
    BY DEF GetInformer
  <1> QED BY <1>0, <1>4, <1>5, <1>6, <1>7, <1>8, SubStep

\* SyncLocal: what is served now had not ceased to exist.
LEMMA SyncLocalStep ==
    ASSUME IInv, NEW n \in Names, NEW k \in Kinds, SyncLocal(n, k), stored' = stored
    PROVE  IInv'
  <1> DEFINE local == [sub[n].local EXCEPT ![k] = Current(k)]
             m == [sub[n] EXCEPT !.local = local]
  <1>0. sub[n] # NoManager /\ Served(k)
    BY DEF SyncLocal
  <1>1. /\ sub[n] \in Manager /\ Clean(sub[n], api)
        /\ sub[n].local \in [Kinds -> Informer] /\ sub[n].kind \in Kinds
        /\ sub[n].kind \in DuckKinds /\ sub[n].kind \notin SharedKinds
    BY <1>0, SubType DEF IInv, AllClean
  <1>2. local \in [Kinds -> Informer]
    BY <1>1, CurrentType DEF IInv
  <1>3. Synced(local[sub[n].kind]) => local[sub[n].kind].holds >= sub[n].since
    <2>1. CASE k = sub[n].kind
      <3>1. local[k].holds = api[k].incarnation /\ api[k].live
        BY <1>0, <1>1, <2>1 DEF Current, Served
      <3> QED BY <1>1, <2>1, <3>1, <1>0, SubType DEF Clean, FirstAlive, IInv
    <2>2. CASE k # sub[n].kind
      BY <1>1, <2>2 DEF Clean
    <2> QED BY <2>1, <2>2
  <1>4. sub' = [sub EXCEPT ![n] = m]
    BY DEF SyncLocal, IInv, Types
  <1> HIDE DEF local
  <1>5. /\ m \in Manager /\ m.kind = sub[n].kind /\ m.list = sub[n].list
        /\ m.types = sub[n].types /\ m.since = sub[n].since /\ m.read = sub[n].read
        /\ m.local = local
    BY <1>1, <1>2 DEF Manager
  <1> HIDE DEF m
  <1>6. Clean(m, api)
    BY <1>1, <1>3, <1>5 DEF Clean
  <1>7. shared' \in [Kinds -> Informer] /\ api' = api
    BY DEF SyncLocal, IInv, Types
  <1> QED BY <1>0, <1>4, <1>5, <1>6, <1>7, SubStep

\* Get and List: both kinds are local, so the sub-manager's own informer answers.
LEMMA ReadStep ==
    ASSUME IInv, NEW n \in Names, Get(n) \/ List(n), stored' = stored
    PROVE  IInv'
  <1> DEFINE i == sub[n].local[sub[n].kind]
             read == IF Synced(i) /\ (sub[n].read = 0 \/ i.holds < sub[n].read)
                     THEN i.holds ELSE sub[n].read
             m == [sub[n] EXCEPT !.read = read]
  <1>0. sub[n] # NoManager
    BY DEF Get, List, Read, Is
  <1>1. /\ sub[n] \in Manager /\ Clean(sub[n], api)
        /\ i \in Informer /\ sub[n].read \in Nat /\ sub[n].since \in Nat
    BY <1>0, SubType DEF IInv, AllClean
  <1>2. IsLocal(n, sub[n].kind) /\ IsLocal(n, sub[n].list)
    BY <1>1 DEF IsLocal, Clean
  <1>3. sub' = [sub EXCEPT ![n] = m] /\ shared' = shared /\ api' = api
    <2>1. Read(n, sub[n].kind) \/ Read(n, sub[n].list)
      BY DEF Get, List
    <2>2. ASSUME NEW k, Read(n, k), IsLocal(n, k)
          PROVE  sub' = [sub EXCEPT ![n] = m] /\ shared' = shared /\ api' = api
      BY <2>2 DEF Read, IInv, Types
    <2> QED BY <1>2, <2>1, <2>2
  <1>4. read \in Nat /\ (read = 0 \/ read >= sub[n].since)
    BY <1>1, InformerType DEF Clean
  <1> HIDE DEF i, read
  <1>5. /\ m \in Manager /\ m.kind = sub[n].kind /\ m.list = sub[n].list
        /\ m.types = sub[n].types /\ m.since = sub[n].since /\ m.read = read
        /\ m.local = sub[n].local
    BY <1>1, <1>4 DEF Manager
  <1> HIDE DEF m
  <1>6. Clean(m, api)
    BY <1>1, <1>4, <1>5 DEF Clean
  <1>7. shared' \in [Kinds -> Informer]
    BY <1>3 DEF IInv, Types
  <1> QED BY <1>0, <1>3, <1>5, <1>6, <1>7, SubStep

\* StartSubManager: the sub-manager is made for the kinds of a valid DuckType.
LEMMA StartStep ==
    ASSUME IInv, NEW n \in Names, StartSubManager(n)
    PROVE  IInv'
  <1> DEFINE spec == Default(stored[n])
             kind == GroupKind(spec)
             list == GroupListKind(spec)
             since == IF api[kind].live THEN api[kind].incarnation
                      ELSE api[kind].incarnation + 1
             local == [k \in Kinds |-> NoInformer]
             m == [phase |-> "starting", kind |-> kind, list |-> list,
                   types |-> LocalTypes(spec), since |-> since, read |-> 0,
                   local |-> local]
  <1>1. /\ stored[n] # None /\ sub' = [sub EXCEPT ![n] = m]
        /\ UNCHANGED <<api, shared, stored>>
    BY DEF StartSubManager, New
  <1>2. stored[n] \in Specs /\ Validate(n, spec)
    BY <1>1 DEF IInv, Types, Admitted
  <1>3. kind \in DuckKinds /\ list \in ListKinds
    BY <1>2, ControlPlaneAssumption DEF Validate
  <1>4. /\ kind[1] = stored[n].group /\ list[1] = stored[n].group
        /\ kind[2] # Empty /\ list[2] # Empty
        /\ stored[n].group \in String /\ HasSuffix(n, stored[n].group)
    <2>1. /\ kind[1] = stored[n].group /\ list[1] = stored[n].group
          /\ kind[2] # Empty /\ list[2] # Empty
      BY <1>2, DefaultSpec DEF Validate, SpecValid, GroupKind, GroupListKind
    <2> QED BY <1>2, <2>1, AdmittedName
  <1>5. LocalTypes(spec) = {kind, list}
    BY DEF LocalTypes
  <1>6. api[kind].live \in BOOLEAN /\ api[kind].incarnation \in Nat
    BY <1>3, CacheAssumption DEF IInv, Types
  <1>7. since \in Nat /\ since = FirstAlive(api[kind])
    BY <1>6 DEF FirstAlive
  <1>8. local \in [Kinds -> Informer] /\ \A k \in Kinds : ~Synced(local[k])
    BY DEF Informer, Synced
  <1> HIDE DEF spec, kind, list, since, local
  <1>9. /\ m \in Manager /\ m.kind = kind /\ m.list = list /\ m.types = {kind, list}
        /\ m.since = since /\ m.read = 0 /\ m.local = local
    BY <1>3, <1>5, <1>7, <1>8 DEF Manager, Phases
  <1> HIDE DEF m
  <1>10. kind \in Kinds
    BY <1>3 DEF Kinds
  <1>11. Clean(m, api)
    BY <1>7, <1>8, <1>9, <1>10 DEF Clean
  <1>12. Types'
    BY <1>1, <1>9 DEF IInv, Types
  <1>13. AllClean'
    BY <1>1, <1>11 DEF IInv, AllClean, Types
  <1>14. Admitted'
    BY <1>1 DEF IInv, Admitted
  <1>15. FitsName(n, m)
    BY <1>4, <1>9 DEF FitsName
  <1>16. AllFit'
    BY <1>1, <1>15 DEF IInv, AllFit, Types
  <1> QED BY <1>12, <1>13, <1>14, <1>16 DEF IInv

\* Finalized: the sub-manager ends with its DuckType.
LEMMA FinalizedStep ==
    ASSUME IInv, NEW n \in Names, Finalized(n)
    PROVE  IInv'
  <1>1. /\ stored' = [stored EXCEPT ![n] = None] /\ sub' = [sub EXCEPT ![n] = NoManager]
        /\ UNCHANGED <<api, shared>>
    BY DEF Finalized, Delete, Stop
  <1>2. Types'
    BY <1>1 DEF IInv, Types
  <1>3. AllClean'
    BY <1>1 DEF IInv, AllClean, Types
  <1>4. Admitted'
    BY <1>1 DEF IInv, Admitted, Types
  <1>5. AllFit'
    BY <1>1 DEF IInv, AllFit, Types
  <1> QED BY <1>2, <1>3, <1>4, <1>5 DEF IInv

\* Create and Update: a spec is admitted, and no sub-manager notices.
LEMMA RequestStep ==
    ASSUME IInv, Requests
    PROVE  IInv'
  <1>1. PICK n \in Names : Create(n) \/ Update(n)
    BY DEF Requests
  <1>2. PICK spec \in Specs :
          Validate(n, Default(spec)) /\ stored' = [stored EXCEPT ![n] = spec]
    BY <1>1 DEF Create, Update, ValidateCreate, ValidateUpdate
  <1>3. UNCHANGED <<api, shared, sub>>
    BY DEF Requests, cacheVars
  <1>4. spec # None
    BY AdmissionAssumption
  <1>5. Types'
    BY <1>2, <1>3 DEF IInv, Types
  <1>6. AllClean'
    BY <1>3 DEF IInv, AllClean
  <1>7. Admitted'
    BY <1>2 DEF IInv, Admitted, Types
  <1>8. AllFit'
    BY <1>2, <1>3, <1>4 DEF IInv, AllFit, Types
  <1> QED BY <1>5, <1>6, <1>7, <1>8 DEF IInv

\* A step of the API server that only ends or begins incarnations.
LEMMA ApiStep ==
    ASSUME IInv, NEW k \in DuckKinds, Define(k) \/ Undefine(k), stored' = stored
    PROVE  IInv'
  <1>1. api[k].live \in BOOLEAN /\ api[k].incarnation \in 0 .. MaxIncarnations
        /\ MaxIncarnations \in Nat
    BY CacheAssumption DEF IInv, Types
  <1>2. PICK a \in [live : BOOLEAN, incarnation : 0 .. MaxIncarnations] :
          api' = [api EXCEPT ![k] = a] /\ FirstAlive(a) >= FirstAlive(api[k])
    <2>1. CASE Define(k)
      <3> DEFINE a == [live |-> TRUE, incarnation |-> api[k].incarnation + 1]
      <3>1. a \in [live : BOOLEAN, incarnation : 0 .. MaxIncarnations]
        BY <1>1, <2>1 DEF Define
      <3>2. api' = [api EXCEPT ![k] = a] /\ ~api[k].live
        BY <2>1 DEF Define
      <3>3. FirstAlive(a) >= FirstAlive(api[k])
        BY <1>1, <3>2 DEF FirstAlive
      <3> QED BY <3>1, <3>2, <3>3
    <2>2. CASE Undefine(k)
      <3> DEFINE a == [api[k] EXCEPT !.live = FALSE]
      <3>0. api[k] \in [live : BOOLEAN, incarnation : 0 .. MaxIncarnations]
        BY DEF IInv, Types
      <3>1. /\ a \in [live : BOOLEAN, incarnation : 0 .. MaxIncarnations]
            /\ ~a.live /\ a.incarnation = api[k].incarnation
        BY <1>1, <3>0
      <3>2. api' = [api EXCEPT ![k] = a] /\ api[k].live
        BY <2>2 DEF Undefine
      <3> HIDE DEF a
      <3>3. FirstAlive(a) >= FirstAlive(api[k])
        BY <1>1, <3>1, <3>2 DEF FirstAlive
      <3> QED BY <3>1, <3>2, <3>3
    <2> QED BY <2>1, <2>2
  <1>3. UNCHANGED <<shared, sub, stored>>
    BY DEF Define, Undefine
  <1>4. Types'
    BY <1>2, <1>3 DEF IInv, Types
  <1>5. ASSUME NEW n \in Names, sub[n] # NoManager
        PROVE  Clean(sub[n], api')
    <2>1. Clean(sub[n], api) /\ sub[n].kind \in DuckKinds /\ sub[n].since \in Nat
      BY <1>5, SubType DEF IInv, AllClean
    <2>2. /\ FirstAlive(api'[sub[n].kind]) >= FirstAlive(api[sub[n].kind])
          /\ FirstAlive(api'[sub[n].kind]) \in Nat /\ FirstAlive(api[sub[n].kind]) \in Nat
      <3>1. ASSUME NEW x \in DuckKinds
            PROVE  /\ api[x].incarnation \in Nat /\ api[x].live \in BOOLEAN
                   /\ api'[x].incarnation \in Nat /\ api'[x].live \in BOOLEAN
        BY <1>1, <1>4 DEF IInv, Types
      <3>2. \A x \in DuckKinds : FirstAlive(api[x]) \in Nat /\ FirstAlive(api'[x]) \in Nat
        BY <3>1 DEF FirstAlive
      <3>3. api'[sub[n].kind] = IF sub[n].kind = k THEN a ELSE api[sub[n].kind]
        BY <1>2, <2>1 DEF IInv, Types
      <3> QED BY <1>2, <2>1, <3>2, <3>3
    <2>3. sub[n].since <= FirstAlive(api'[sub[n].kind])
      BY <2>1, <2>2 DEF Clean
    <2> QED BY <2>1, <2>3 DEF Clean
  <1>6. AllClean'
    BY <1>3, <1>5 DEF AllClean
  <1>7. Admitted' /\ AllFit'
    BY <1>3 DEF IInv, Admitted, AllFit
  <1> QED BY <1>4, <1>6, <1>7 DEF IInv

\* Steps that leave DuckTypes, kinds and sub-managers alone.
LEMMA SharedStep ==
    ASSUME IInv, UNCHANGED <<stored, api, sub>>, shared' \in [Kinds -> Informer]
    PROVE  IInv'
  BY DEF IInv, Types, AllClean, Admitted, AllFit

\* Exits: no cache is left, all DuckTypes are.
LEMMA ExitsStep ==
    ASSUME IInv, Exits
    PROVE  IInv'
  <1>1. /\ shared' = [k \in Kinds |-> NoInformer] /\ sub' = [n \in Names |-> NoManager]
        /\ UNCHANGED <<api, stored>>
    BY ControlPlaneAssumption DEF Exits, LoseCaches
  <1>2. Types'
    BY <1>1 DEF IInv, Types, Informer
  <1>3. AllClean' /\ AllFit'
    BY <1>1 DEF AllClean, AllFit
  <1>4. Admitted'
    BY <1>1 DEF IInv, Admitted
  <1> QED BY <1>2, <1>3, <1>4 DEF IInv

\* What informers and sub-managers do.
LEMMA CacheStep ==
    ASSUME IInv, CacheSteps
    PROVE  IInv'
  <1>1. stored' = stored
    BY DEF CacheSteps
  <1>2. ASSUME NEW k \in Kinds, SyncShared(k)
        PROVE  IInv'
    <2>1. UNCHANGED <<stored, api, sub>> /\ shared' \in [Kinds -> Informer]
      BY <1>1, <1>2, CurrentType DEF SyncShared, IInv, Types
    <2> QED BY <2>1, SharedStep
  <1>3. ASSUME NEW n \in Names, ManagerSteps(n)
        PROVE  IInv'
    <2>1. CASE GetInformer(n)
      BY <1>1, <2>1, GetInformerStep
    <2>2. CASE WaitForCacheSync(n)
      BY <1>1, <2>2, PhaseStep DEF WaitForCacheSync, Is, Phases
    <2>3. CASE Run(n)
      BY <1>1, <2>3, PhaseStep DEF Run, Is, Phases
    <2>4. CASE SyncTimeout(n)
      BY <1>1, <2>4, PhaseStep DEF SyncTimeout, Is, Phases
    <2> QED BY <1>3, <2>1, <2>2, <2>3, <2>4 DEF ManagerSteps
  <1> QED BY <1>1, <1>2, <1>3, SyncLocalStep, ReadStep DEF CacheSteps

\* Before any DuckType there is nothing to read.
LEMMA InitInv == Init => IInv
  <1> SUFFICES ASSUME Init PROVE IInv
    OBVIOUS
  <1>1. /\ stored = [n \in Names |-> None] /\ sub = [n \in Names |-> NoManager]
        /\ shared = [k \in Kinds |-> NoInformer]
        /\ api = [k \in DuckKinds |-> [live |-> FALSE, incarnation |-> 0]]
    BY ControlPlaneAssumption DEF Init, AdmissionInit, CacheInit
  <1>2. Types
    BY <1>1, CacheAssumption DEF Types, Informer
  <1> QED BY <1>1, <1>2 DEF IInv, AllClean, Admitted, AllFit

\* Every step of the control plane.
LEMMA NextStep ==
    ASSUME IInv, [Next]_vars
    PROVE  IInv'
  <1>0. shared \in [Kinds -> Informer]
    BY DEF IInv, Types
  <1>1. CASE UNCHANGED vars
    BY <1>0, <1>1, SharedStep DEF vars, cacheVars
  <1>2. CASE ProcessSteps \/ IsElected
    BY <1>0, <1>2, SharedStep DEF ProcessSteps, IsElected, cacheVars
  <1>3. CASE Exits
    BY <1>3, ExitsStep
  <1>4. CASE Requests
    BY <1>4, RequestStep
  <1>5. CASE \E n \in Names : Finalized(n) \/ StartSubManager(n)
    BY <1>5, FinalizedStep, StartStep
  <1>6. CASE \E k \in DuckKinds : Established(k) \/ Removed(k)
    BY <1>6, ApiStep DEF Established, Removed
  <1>7. CASE CacheSteps
    BY <1>7, CacheStep
  <1> QED BY <1>1, <1>2, <1>3, <1>4, <1>5, <1>6, <1>7 DEF Next

\* The invariant holds throughout.
LEMMA Invariant == Spec => []IInv
  BY InitInv, NextStep, PTL DEF Spec

\* For any DuckTypes, kinds and number of incarnations, no read of a sub-manager
\* returns a Duck that had ceased to exist before it was made (Cache.Get, Cache.List).
THEOREM SubManagersReadFresh == Spec => []FreshReads
  <1>1. IInv => FreshReads
    BY DEF IInv, AllClean, Clean, FreshReads
  <1> QED BY <1>1, Invariant, PTL

\* For any specs that users ask for, a sub-manager has kinds that are not empty, of a
\* group with which the name of its DuckType ends; it is the group of the DuckType unless
\* an update moved a part of the name between plural and group (Validate,
\* ValidateUpdate, Default).
THEOREM SubManagersFit == Spec => []KindsFitName
  <1>1. ASSUME IInv, NEW n \in Names, sub[n] # NoManager,
               Len(sub[n].kind[1]) + Len(stored[n].plural) = Len(n)
        PROVE  sub[n].kind[1] = stored[n].group
    <2> DEFINE k == sub[n].kind[1]
               g == stored[n].group
    <2>1. stored[n] # None /\ k \in String /\ HasSuffix(n, k)
      BY <1>1 DEF IInv, AllFit, FitsName
    <2>2. /\ g \in String /\ HasSuffix(n, g)
          /\ stored[n].plural \in String /\ Len(n) = Len(stored[n].plural) + Len(g)
      BY <1>1, <2>1, AdmittedName DEF IInv, Types, Admitted
    <2>3. Len(k) \in Nat /\ Len(g) \in Nat /\ Len(stored[n].plural) \in Nat
      <3>1. \A x \in String : Len(x) \in Nat
        BY DEF String
      <3> QED BY <2>1, <2>2, <3>1
    <2>4. Len(k) = Len(g)
      <3>1. Len(k) + Len(stored[n].plural) = Len(stored[n].plural) + Len(g)
        BY <1>1, <2>2
      <3> HIDE DEF k, g
      <3> QED BY <2>3, <3>1
    <2> QED BY <2>1, <2>2, <2>4 DEF HasSuffix
  <1>2. IInv => KindsFitName
    BY <1>1 DEF IInv, AllFit, FitsName, KindsFitName
  <1> QED BY <1>2, Invariant, PTL

\* Defaults are filled in once: a second time there is nothing left to fill in.
LEMMA DefaultTwice ==
    ASSUME NEW spec \in Specs
    PROVE  Default(Default(spec)) = Default(spec)
  <1> DEFINE d == Default(spec)
  <1>1. /\ d \in DuckTypeSpec /\ d.kind = spec.kind
        /\ d.singular = IF spec.singular = Empty THEN lower[spec.kind] ELSE spec.singular
        /\ d.listKind = IF spec.listKind = Empty THEN listKind[spec.kind] ELSE spec.listKind
    BY AdmissionAssumption DEF Default, DuckTypeSpec
  <1>2. d.singular = Empty => d.singular = lower[d.kind]
    BY <1>1
  <1>3. d.listKind # Empty
    BY <1>1, AdmissionAssumption DEF DuckTypeSpec
  <1> HIDE DEF d
  <1>4. [d EXCEPT !.singular = IF @ = Empty THEN lower[d.kind] ELSE @,
                  !.listKind = IF @ = Empty THEN listKind[d.kind] ELSE @] = d
    BY <1>1, <1>2, <1>3 DEF DuckTypeSpec
  <1>5. Default(d) = d
    BY <1>4 DEF Default
  <1> QED BY <1>5 DEF d

\* For any specs that users ask for, the webhook admits a stored DuckType once more, as
\* it is and with its defaults: it refuses no update of the finalizer (ValidateCreate,
\* ValidateUpdate, Default).
THEOREM AdmittedAgain == Spec => []StaysAdmitted
  <1>1. ASSUME IInv, NEW n \in Names, stored[n] # None
        PROVE  ValidateUpdate(n, stored[n]) /\ ValidateUpdate(n, Default(stored[n]))
    <2>1. stored[n] \in Specs /\ Validate(n, Default(stored[n]))
      BY <1>1 DEF IInv, Types, Admitted
    <2> QED BY <2>1, DefaultTwice DEF ValidateUpdate
  <1>2. IInv => StaysAdmitted
    BY <1>1 DEF StaysAdmitted
  <1> QED BY <1>2, Invariant, PTL

-----------------------------------------------------------------------------
(* What a sub-manager waits for.                                           *)

\* The manager's cache has no informer of a kind of Ducks; a sub-manager asks for its
\* own once it has started.
WaitInv ==
    /\ \A k \in Kinds : shared[k] # NoInformer => k \in SharedKinds
    /\ \A n \in Names : Is(n, "starting") => \A k \in Kinds : sub[n].local[k] = NoInformer

\* A step that leaves the manager's informers and those of sub-managers that start.
LEMMA WaitKept ==
    ASSUME WaitInv, shared' = shared,
           \A n \in Names : Is(n, "starting")' => Is(n, "starting") /\ sub'[n].local = sub[n].local
    PROVE  WaitInv'
  BY DEF WaitInv, Is

\* Every step of the caches, of users and of the process.
LEMMA WaitStep ==
    ASSUME IInv, WaitInv, [Next]_vars
    PROVE  WaitInv'
  <1>0. /\ sub \in [Names -> Manager \cup {NoManager}] /\ shared \in [Kinds -> Informer]
        /\ NoManager \notin Manager
    BY CacheAssumption DEF IInv, Types
  <1>1. CASE UNCHANGED <<shared, sub>>
    BY <1>1 DEF WaitInv, Is
  <1>2. CASE Exits
    BY <1>2, ControlPlaneAssumption DEF Exits, LoseCaches, WaitInv, Is
  <1>3. ASSUME NEW n \in Names, Finalized(n)
        PROVE  WaitInv'
    BY <1>0, <1>3, WaitKept DEF Finalized, Stop, Is
  <1>4. ASSUME NEW n \in Names, StartSubManager(n)
        PROVE  WaitInv'
    <2> DEFINE spec == Default(stored[n])
               kind == GroupKind(spec)
               m == [phase |-> "starting", kind |-> kind, list |-> GroupListKind(spec),
                     types |-> LocalTypes(spec),
                     since |-> IF api[kind].live THEN api[kind].incarnation
                               ELSE api[kind].incarnation + 1,
                     read |-> 0, local |-> [k \in Kinds |-> NoInformer]]
    <2>1. sub' = [sub EXCEPT ![n] = m] /\ shared' = shared
      BY <1>4 DEF StartSubManager, New
    <2>2. m.local = [k \in Kinds |-> NoInformer]
      OBVIOUS
    <2> HIDE DEF m
    <2> QED BY <1>0, <2>1, <2>2 DEF WaitInv, Is
  <1>5. ASSUME NEW k \in Kinds, SyncShared(k)
        PROVE  WaitInv'
    BY <1>0, <1>5 DEF SyncShared, WaitInv, Is
  <1>6. ASSUME NEW n \in Names, NEW k \in Kinds, SyncLocal(n, k)
        PROVE  WaitInv'
    <2>1. sub[n] # NoManager /\ sub[n].local[k] # NoInformer
      BY <1>6 DEF SyncLocal
    <2>2. sub[n] \in Manager /\ sub[n].phase # "starting"
      BY <1>0, <2>1 DEF WaitInv, Is
    <2>3. shared' = shared /\ \A x \in Names : x # n => sub'[x] = sub[x]
      BY <1>0, <1>6 DEF SyncLocal
    <2>4. sub'[n].phase = sub[n].phase
      BY <1>0, <1>6, <2>2 DEF SyncLocal, Manager
    <2> QED BY <2>2, <2>3, <2>4, WaitKept DEF Is
  <1>7. ASSUME NEW n \in Names, GetInformer(n)
        PROVE  WaitInv'
    <2>1. sub[n] # NoManager /\ sub[n] \in Manager /\ sub[n].kind \in sub[n].types
      BY <1>0, <1>7 DEF GetInformer, Is, IInv, AllClean, Clean
    <2>2. ASSUME NEW k \in Kinds, shared'[k] # NoInformer
          PROVE  k \in SharedKinds
      BY <1>7, <2>1, <2>2 DEF GetInformer, Watched, IsLocal, WaitInv
    <2>3. /\ sub'[n].phase = "watching"
          /\ \A x \in Names : x # n => sub'[x] = sub[x]
      BY <1>0, <1>7, <2>1 DEF GetInformer, Manager
    <2> QED BY <2>2, <2>3 DEF WaitInv, Is
  <1>8. ASSUME NEW n \in Names, WaitForCacheSync(n) \/ Run(n) \/ SyncTimeout(n)
        PROVE  WaitInv'
    <2>1. sub[n] # NoManager /\ sub[n] \in Manager /\ shared' = shared
      BY <1>0, <1>8 DEF WaitForCacheSync, Run, SyncTimeout, Is
    <2>2. /\ sub'[n].phase # "starting"
          /\ \A x \in Names : x # n => sub'[x] = sub[x]
      BY <1>0, <1>8, <2>1 DEF WaitForCacheSync, Run, SyncTimeout, Manager
    <2> QED BY <2>1, <2>2, WaitKept DEF Is
  <1>9. ASSUME NEW n \in Names, Get(n) \/ List(n)
        PROVE  WaitInv'
    <2>1. PICK k \in {sub[n].kind, sub[n].list} : Read(n, k)
      BY <1>9 DEF Get, List
    <2>2. sub[n] # NoManager /\ sub[n] \in Manager /\ sub[n].phase = "running"
      BY <1>0, <2>1 DEF Read, Is
    <2>3. IsLocal(n, k)
      BY <2>2 DEF IInv, AllClean, Clean, IsLocal
    <2>4. shared' = shared
      BY <2>1, <2>3 DEF Read
    <2>5. /\ sub'[n].phase = "running"
          /\ \A x \in Names : x # n => sub'[x] = sub[x]
      BY <1>0, <2>1, <2>2 DEF Read, Manager
    <2> QED BY <2>4, <2>5, WaitKept DEF Is
  <1>10. CASE CacheSteps
    BY <1>5, <1>6, <1>7, <1>8, <1>9, <1>10 DEF CacheSteps, ManagerSteps
  <1>11. CASE ProcessSteps \/ IsElected \/ Requests
                \/ \E k \in DuckKinds : Established(k) \/ Removed(k)
    BY <1>1, <1>11 DEF ProcessSteps, IsElected, Requests, Established, Removed, Define,
                       Undefine, cacheVars
  <1> QED BY <1>1, <1>2, <1>3, <1>4, <1>10, <1>11 DEF Next, vars, cacheVars

\* For any DuckTypes and kinds, the caches that a sub-manager waits for when it starts
\* have informers of served kinds only, so that a kind which is not served holds up no
\* other sub-manager (Cache.WaitForCacheSync, Cache.GetInformer, Cache.List).
THEOREM WaitsAreServed == Spec => []WaitsForServedOnly
  <1>1. Init => WaitInv
    BY ControlPlaneAssumption DEF Init, CacheInit, WaitInv, Is
  <1>2. IInv /\ WaitInv /\ [Next]_vars => WaitInv'
    BY WaitStep
  <1>3. WaitInv => WaitsForServedOnly
    BY CacheAssumption DEF WaitInv, WaitsForServedOnly, Served
  <1> QED BY <1>1, <1>2, <1>3, Invariant, PTL DEF Spec

-----------------------------------------------------------------------------
(* The process.                                                            *)

\* The types of what main changes.
MainTypes ==
    /\ pc \in {"flags", "webhookServer", "metricsServer", "manager", "controller", "webhook",
               "metricsWatcher", "webhookWatcher", "checks", "start", "serving", "leading",
               "exited"}
    /\ flags \in FlagSets /\ exits \in 0 .. MaxExits
    /\ watchers \in SUBSET Servers /\ runnables \in SUBSET watchers

\* Watchers are added after the servers that they are made with.
LEMMA MainStep ==
    ASSUME MainTypes, [Next]_vars
    PROVE  MainTypes'
  <1>1. CASE UNCHANGED processVars
    BY <1>1 DEF processVars, mainVars, MainTypes
  <1>2. CASE SetUp \/ Restart \/ Elected
    <2>1. CASE ParseFlags
      BY <2>1 DEF ParseFlags, Step, MainTypes
    <2>2. CASE NewWebhookServer \/ NewMetricsServer
      <3>1. watchers' \in SUBSET Servers /\ watchers \subseteq watchers'
        BY <2>2 DEF NewWebhookServer, NewMetricsServer, ServerOptions, Servers, MainTypes
      <3> QED BY <2>2, <3>1 DEF NewWebhookServer, NewMetricsServer, Step, MainTypes
    <2>3. CASE AddMetricsWatcher \/ AddWebhookWatcher
      <3>1. watchers' = watchers /\ runnables' \in SUBSET watchers
        BY <2>3 DEF AddMetricsWatcher, AddWebhookWatcher, AddWatcher, MainTypes
      <3> QED BY <2>3, <3>1 DEF AddMetricsWatcher, AddWebhookWatcher, Step, MainTypes
    <2>4. CASE NewManager \/ SetupController \/ SetupWebhook \/ AddChecks \/ Start
                 \/ Restart \/ Elected
      BY <2>4 DEF NewManager, SetupController, SetupWebhook, AddChecks, Start, Restart,
                  Elected, Step, mainVars, MainTypes
    <2> QED BY <1>2, <2>1, <2>2, <2>3, <2>4 DEF SetUp
  <1>3. CASE Exit
    BY <1>3, ProcessAssumption DEF Exit, MainTypes
  <1>4. UNCHANGED processVars \/ SetUp \/ Restart \/ Elected \/ Exit
    BY DEF Next, vars, ProcessSteps, IsElected, Exits, Requests, Finalized,
           StartSubManager, Established, Removed, CacheSteps
  <1> QED BY <1>1, <1>2, <1>3, <1>4

\* All variables keep their types, for any command lines and bounds, and the manager
\* runs no watcher that main did not make (cmd/main.go).
THEOREM TypeCorrect == Spec => []TypeOK
  <1>1. Init => MainTypes
    BY ProcessAssumption DEF Init, ProcessInit, MainTypes
  <1>2. MainTypes /\ [Next]_vars => MainTypes'
    BY MainStep
  <1>3. MainTypes /\ IInv => TypeOK
    BY DEF MainTypes, IInv, Types, TypeOK
  <1> QED BY <1>1, <1>2, <1>3, Invariant, PTL DEF Spec

-----------------------------------------------------------------------------
(* Ducks.                                                                  *)

\* A Duck that the Duck controller finds Available is one that its webhook would have
\* let pass, had anyone registered it: the name ends with the group of the spec, which
\* is not empty, for any name and whatever resource discovery lists, provided that
\* versions and kinds of resources are not empty (DuckReconciler, Duck.Validate).
THEOREM AvailableDucksAreValid ==
    ASSUME NEW name \in String, NEW spec \in DuckSpec,
           NEW resource \in Labels, NEW kind \in Labels \ {Empty},
           spec.version # Empty, ReadyCheck(name, spec, resource, kind)
    PROVE  DuckValidateCreate(name, spec) /\ DuckValidateUpdate(name, spec)
  <1> DEFINE g == spec.group
  <1>1. g \in Seq(Labels) /\ Len(g) \in Nat /\ Len(g) > 0
    BY DEF DuckSpec, String
  <1>2. name = <<resource>> \o g /\ Len(name) = Len(g) + 1
    BY <1>1 DEF ReadyCheck
  <1>3. GroupResource(name).group = Tail(name)
    BY <1>1, <1>2 DEF GroupResource
  <1>4. g # <<Empty>>
    <2> SUFFICES ASSUME g = <<Empty>> PROVE FALSE
      OBVIOUS
    <2>1. name \in Seq(Labels) /\ Len(name) = 2 /\ name[2] = Empty
      BY <1>1, <1>2
    <2> DEFINE t == Tail(name)
    <2>2. t \in Seq(Labels) /\ Len(t) = 1 /\ t[1] = Empty
      <3>1. name # <<>>
        BY DEF String
      <3>2. t \in Seq(Labels)
        BY <2>1, <3>1
      <3>3. Len(t) = 1
        BY <2>1, <3>1
      <3>4. t[1] = name[2]
        BY <2>1, <3>1, <3>3
      <3> QED BY <2>1, <3>2, <3>3, <3>4
    <2> HIDE DEF t
    <2>3. t = <<Empty>>
      BY <2>2
    <2>4. name = <<resource>>
      BY <1>3, <2>3 DEF t, ReadyCheck, GroupResourceString
    <2> QED BY <2>1, <2>4
  <1>5. SubSeq(name, Len(name) - Len(g) + 1, Len(name)) = g
    <2>1. Len(name) - Len(g) + 1 = 2 /\ name \in Seq(Labels)
      BY <1>1, <1>2
    <2> DEFINE t == SubSeq(name, 2, Len(name))
    <2>2. t \in Seq(Labels) /\ Len(t) = Len(g)
      BY <1>1, <1>2, <2>1
    <2>3. \A i \in 1 .. Len(g) : t[i] = g[i]
      BY <1>1, <1>2, <2>1
    <2>4. t = g
      <3> HIDE DEF t, g
      <3> QED BY <1>1, <2>2, <2>3
    <2> QED BY <2>1, <2>4
  <1>6. HasSuffix(name, g)
    BY <1>1, <1>2, <1>5 DEF HasSuffix
  <1>7. DuckSpecValid(spec)
    BY <1>4 DEF DuckSpecValid, ReadyCheck
  <1> QED BY <1>6, <1>7 DEF DuckValidateCreate, DuckValidateUpdate, DuckValidate, DuckDefault

-----------------------------------------------------------------------------
(* The options of the servers.                                             *)

\* The slice has options to the array that append moved it to.
Slice(s, options, a) ==
    IF options = <<>> THEN s = Nil
    ELSE /\ s.len = Len(options) /\ s.array \in 1 .. Len(a)
         /\ a[s.array] = options

\* tlsOpts, and what a server is to have.
TLSOptions == IF flags.http2 THEN <<>> ELSE <<"disableHTTP2">>

OptionsOf(server) ==
    IF server \in flags.certs THEN Append(TLSOptions, server) ELSE TLSOptions

\* The steps of main after which the options of a server stand.
Has(server) ==
    pc \notin {"flags", "exited", "webhookServer"}
        /\ (server = "metrics" => pc # "metricsServer")

ProcessInv ==
    /\ flags \in FlagSets
    /\ pc \in {"flags", "exited"} =>
        /\ arrays = <<>> /\ slices = [s \in {"tls"} \cup Servers |-> Nil]
        /\ watchers = {} /\ runnables = {}
    /\ arrays \in Seq(Seq(Options))
    /\ slices \in [{"tls"} \cup Servers -> [array : Nat, len : Nat]]
    /\ pc \notin {"flags", "exited"} => Slice(slices["tls"], TLSOptions, arrays)
    /\ \A server \in Servers : Has(server) =>
        /\ Slice(slices[server], OptionsOf(server), arrays)
        /\ server \in flags.certs => server \in watchers
    /\ pc \in {"webhookWatcher", "checks", "start", "serving", "leading"} =>
        ("metrics" \in flags.certs => "metrics" \in runnables)
    /\ pc \in {"checks", "start", "serving", "leading"} =>
        ("webhook" \in flags.certs => "webhook" \in runnables)

\* append to a slice whose array is full leaves all arrays there are.
LEMMA AppendMoves ==
    ASSUME NEW to \in {"tls"} \cup Servers, NEW from \in {"tls"} \cup Servers,
           NEW option \in Options, NEW old \in Seq(Options),
           arrays \in Seq(Seq(Options)),
           slices \in [{"tls"} \cup Servers -> [array : Nat, len : Nat]],
           Len(old) \in {0, 1},
           Slice(slices[from], old, arrays), AppendTo(to, from, option)
    PROVE  /\ arrays' \in Seq(Seq(Options))
           /\ slices' \in [{"tls"} \cup Servers -> [array : Nat, len : Nat]]
           /\ Slice(slices'[to], Append(old, option), arrays')
           /\ \A x \in {"tls"} \cup Servers : x # to => slices'[x] = slices[x]
           /\ \A s \in [array : Nat, len : Nat], o \in Seq(Options) :
                 Slice(s, o, arrays) => Slice(s, o, arrays')
  <1> DEFINE s == slices[from]
             n == s.len + 1
             moved == [i \in 1 .. GrowSlice(Capacity(s), n) |->
                        IF i <= s.len THEN Contents(s)[i] ELSE IF i = n THEN option ELSE "nil"]
  <1>1. s.len = Len(old) /\ Capacity(s) = Len(old) /\ (s.len = 1 => Contents(s) = old)
    <2>1. CASE old = <<>>
      BY <2>1 DEF Slice, Nil, Capacity
    <2>2. CASE old # <<>>
      <3>1. s.len = Len(old) /\ s.array \in 1 .. Len(arrays) /\ arrays[s.array] = old
        BY <2>2 DEF Slice
      <3>2. s.array # 0
        BY <3>1
      <3>3. Capacity(s) = Len(old)
        BY <3>1, <3>2 DEF Capacity
      <3>4. Contents(s) = SubSeq(old, 1, Len(old))
        BY <3>1, <3>2 DEF Contents
      <3>5. SubSeq(old, 1, Len(old)) = old
        OBVIOUS
      <3> QED BY <3>1, <3>3, <3>4, <3>5
    <2> QED BY <2>1, <2>2
  <1>2. GrowSlice(Capacity(s), n) = n /\ n \in {1, 2} /\ ~(n <= Capacity(s))
    <2> HIDE DEF s
    <2>1. CASE Len(old) = 0
      BY <1>1, <2>1 DEF GrowSlice
    <2>2. CASE Len(old) = 1
      BY <1>1, <2>2 DEF GrowSlice
    <2> QED BY <2>1, <2>2
  <1>3. moved = Append(old, option)
    <2>1. \A i \in 1 .. n : moved[i] = Append(old, option)[i]
      BY <1>1, <1>2
    <2>2. Append(old, option) \in Seq(Options) /\ Len(Append(old, option)) = n
      BY <1>1
    <2>3. Append(old, option) \in [1 .. n -> Options]
      BY <2>2, LenProperties
    <2>4. DOMAIN moved = 1 .. n /\ moved = [i \in DOMAIN moved |-> moved[i]]
      BY <1>2
    <2> HIDE DEF moved, n
    <2> QED BY <2>1, <2>3, <2>4
  <1>4. /\ arrays' = Append(arrays, moved)
        /\ slices' = [slices EXCEPT ![to] = [array |-> Len(arrays) + 1, len |-> n]]
    BY <1>2 DEF AppendTo
  <1> HIDE DEF moved
  <1>5. Append(old, option) \in Seq(Options) /\ Len(Append(old, option)) = n /\ Append(old, option) # <<>>
    BY <1>1
  <1>6. /\ arrays' \in Seq(Seq(Options)) /\ Len(arrays') = Len(arrays) + 1
        /\ arrays'[Len(arrays) + 1] = Append(old, option)
        /\ \A i \in 1 .. Len(arrays) : arrays'[i] = arrays[i]
    BY <1>3, <1>4, <1>5
  <1>7. n \in Nat
    BY <1>2
  <1> HIDE DEF s, n
  <1>8. Slice(slices'[to], Append(old, option), arrays')
    <2>1. slices'[to].len = n /\ slices'[to].array = Len(arrays) + 1
      BY <1>4
    <2> QED BY <2>1, <1>5, <1>6 DEF Slice
  <1>9. \A x \in [array : Nat, len : Nat], o \in Seq(Options) :
            Slice(x, o, arrays) => Slice(x, o, arrays')
    BY <1>6 DEF Slice
  <1> QED BY <1>4, <1>6, <1>7, <1>8, <1>9

\* What options there are.
LEMMA OptionTypes ==
    ASSUME ProcessInv
    PROVE  /\ TLSOptions \in Seq(Options) /\ Len(TLSOptions) \in {0, 1}
           /\ \A server \in Servers : OptionsOf(server) \in Seq(Options)
  <1>1. "disableHTTP2" \in Options /\ Servers \subseteq Options
    BY DEF Options
  <1>2. TLSOptions \in Seq(Options) /\ Len(TLSOptions) \in {0, 1}
    BY <1>1 DEF TLSOptions
  <1> QED BY <1>1, <1>2 DEF OptionsOf

\* The flags are read.
LEMMA ParseFlagsStep ==
    ASSUME ProcessInv, ParseFlags
    PROVE  ProcessInv'
  <1>1. /\ pc = "flags" /\ pc' = "webhookServer" /\ flags' = flags
        /\ arrays = <<>> /\ slices = [s \in {"tls"} \cup Servers |-> Nil]
        /\ watchers' = watchers /\ runnables' = runnables
    BY DEF ParseFlags, Step, ProcessInv
  <1>2. TLSOptions' = TLSOptions
    BY <1>1 DEF TLSOptions
  <1>3. CASE flags.http2
    BY <1>1, <1>2, <1>3 DEF ParseFlags, ProcessInv, Has, Slice, TLSOptions, Servers
  <1>4. CASE ~flags.http2
    <2>1. AppendTo("tls", "tls", "disableHTTP2")
      BY <1>4 DEF ParseFlags
    <2>2. Slice(slices["tls"], <<>>, arrays)
      BY <1>1 DEF Slice
    <2> DEFINE o == "disableHTTP2"
               e == <<>>
    <2>3. /\ arrays' \in Seq(Seq(Options))
          /\ slices' \in [{"tls"} \cup Servers -> [array : Nat, len : Nat]]
          /\ Slice(slices'["tls"], Append(<<>>, "disableHTTP2"), arrays')
      <3>1. o \in Options /\ e \in Seq(Options) /\ Len(e) \in {0, 1}
        BY DEF Options
      <3>2. /\ arrays \in Seq(Seq(Options))
            /\ slices \in [{"tls"} \cup Servers -> [array : Nat, len : Nat]]
        BY DEF ProcessInv
      <3>3. AppendTo("tls", "tls", o) /\ Slice(slices["tls"], e, arrays)
        BY <2>1, <2>2
      <3> HIDE DEF o, e
      <3>4. /\ arrays' \in Seq(Seq(Options))
            /\ slices' \in [{"tls"} \cup Servers -> [array : Nat, len : Nat]]
            /\ Slice(slices'["tls"], Append(e, o), arrays')
        BY <3>1, <3>2, <3>3, AppendMoves
      <3> QED BY <3>4 DEF o, e
    <2>4. Append(<<>>, "disableHTTP2") = <<"disableHTTP2">>
      OBVIOUS
    <2>5. TLSOptions = <<"disableHTTP2">>
      BY <1>4 DEF TLSOptions
    <2> HIDE DEF Slice
    <2> QED BY <1>1, <1>2, <2>3, <2>4, <2>5 DEF ProcessInv, Has
  <1> QED BY <1>3, <1>4

\* The options of a server are put together, which leaves those of the other.
LEMMA ServerOptionsStep ==
    ASSUME ProcessInv, NEW server \in Servers, ServerOptions(server),
           pc \notin {"flags", "exited"}
    PROVE  /\ arrays' \in Seq(Seq(Options))
           /\ slices' \in [{"tls"} \cup Servers -> [array : Nat, len : Nat]]
           /\ Slice(slices'["tls"], TLSOptions, arrays')
           /\ Slice(slices'[server], OptionsOf(server), arrays')
           /\ server \in flags.certs => server \in watchers'
           /\ watchers \subseteq watchers'
           /\ \A x \in Servers \ {server} : Slice(slices[x], OptionsOf(x), arrays) =>
                Slice(slices'[x], OptionsOf(x), arrays')
  <1>1. /\ arrays \in Seq(Seq(Options)) /\ Slice(slices["tls"], TLSOptions, arrays)
        /\ slices \in [{"tls"} \cup Servers -> [array : Nat, len : Nat]]
    BY DEF ProcessInv
  <1>2. server # "tls" /\ server \in Options
    BY DEF Servers, Options
  <1>3. CASE server \in flags.certs
    <2>1. AppendTo(server, "tls", server) /\ watchers' = watchers \cup {server}
      BY <1>3 DEF ServerOptions
    <2>2. /\ arrays' \in Seq(Seq(Options))
          /\ slices' \in [{"tls"} \cup Servers -> [array : Nat, len : Nat]]
          /\ Slice(slices'[server], Append(TLSOptions, server), arrays')
          /\ \A x \in {"tls"} \cup Servers : x # server => slices'[x] = slices[x]
          /\ \A s \in [array : Nat, len : Nat], o \in Seq(Options) :
                 Slice(s, o, arrays) => Slice(s, o, arrays')
      <3> HIDE DEF Slice, TLSOptions, AppendTo
      <3> QED BY <1>1, <1>2, <2>1, OptionTypes, AppendMoves
    <2>3. OptionsOf(server) = Append(TLSOptions, server)
      BY <1>3 DEF OptionsOf
    <2>4. Slice(slices'["tls"], TLSOptions, arrays')
      BY <1>1, <1>2, <2>2, OptionTypes
    <2>5. \A x \in Servers \ {server} : Slice(slices[x], OptionsOf(x), arrays) =>
                Slice(slices'[x], OptionsOf(x), arrays')
      BY <1>1, <2>2, OptionTypes
    <2> QED BY <2>1, <2>2, <2>3, <2>4, <2>5
  <1>4. CASE server \notin flags.certs
    <2>1. slices' = [slices EXCEPT ![server] = slices["tls"]] /\ UNCHANGED <<arrays, watchers>>
      BY <1>4 DEF ServerOptions
    <2>2. OptionsOf(server) = TLSOptions
      BY <1>4 DEF OptionsOf
    <2>3. /\ slices'[server] = slices["tls"] /\ slices'["tls"] = slices["tls"]
          /\ \A x \in Servers \ {server} : slices'[x] = slices[x]
      BY <1>1, <1>2, <2>1
    <2>4. slices' \in [{"tls"} \cup Servers -> [array : Nat, len : Nat]]
      BY <1>1, <2>1
    <2> QED BY <1>1, <1>4, <2>1, <2>2, <2>3, <2>4
  <1> QED BY <1>3, <1>4

\* What a step does not do to memory and flags.
LEMMA SameOptions ==
    ASSUME flags' = flags
    PROVE  TLSOptions' = TLSOptions /\ \A x \in Servers : OptionsOf(x)' = OptionsOf(x)
  BY DEF TLSOptions, OptionsOf

\* The servers are made.
LEMMA ServersStep ==
    ASSUME ProcessInv, NewWebhookServer \/ NewMetricsServer
    PROVE  ProcessInv'
  <1> USE DEF Step
  <1>1. flags' = flags /\ runnables' = runnables
    BY DEF NewWebhookServer, NewMetricsServer
  <1>2. CASE NewWebhookServer
    <2>1. pc = "webhookServer" /\ pc' = "metricsServer" /\ ServerOptions("webhook")
      BY <1>2 DEF NewWebhookServer
    <2> HIDE DEF Step
    <2>2. "webhook" \in Servers
      BY DEF Servers
    <2>3. /\ arrays' \in Seq(Seq(Options))
          /\ slices' \in [{"tls"} \cup Servers -> [array : Nat, len : Nat]]
          /\ Slice(slices'["tls"], TLSOptions, arrays')
          /\ Slice(slices'["webhook"], OptionsOf("webhook"), arrays')
          /\ "webhook" \in flags.certs => "webhook" \in watchers'
      BY <2>1, <2>2, ServerOptionsStep
    <2> QED BY <1>1, <2>1, <2>2, <2>3, SameOptions DEF ProcessInv, Has, Servers
  <1>3. CASE NewMetricsServer
    <2>1. pc = "metricsServer" /\ pc' = "manager" /\ ServerOptions("metrics")
      BY <1>3 DEF NewMetricsServer
    <2> HIDE DEF Step
    <2>2. "metrics" \in Servers /\ "webhook" \in Servers \ {"metrics"} /\ Has("webhook")
      BY <2>1 DEF Servers, Has
    <2>3. Slice(slices["webhook"], OptionsOf("webhook"), arrays)
          /\ ("webhook" \in flags.certs => "webhook" \in watchers)
      BY <2>2 DEF ProcessInv
    <2>4. /\ arrays' \in Seq(Seq(Options))
          /\ slices' \in [{"tls"} \cup Servers -> [array : Nat, len : Nat]]
          /\ Slice(slices'["tls"], TLSOptions, arrays')
          /\ Slice(slices'["metrics"], OptionsOf("metrics"), arrays')
          /\ Slice(slices'["webhook"], OptionsOf("webhook"), arrays')
          /\ "metrics" \in flags.certs => "metrics" \in watchers'
          /\ watchers \subseteq watchers'
      BY <2>1, <2>2, <2>3, ServerOptionsStep
    <2> QED BY <1>1, <2>1, <2>2, <2>3, <2>4, SameOptions DEF ProcessInv, Has, Servers
  <1> QED BY <1>2, <1>3

\* The rest of main makes no options.
LEMMA RestOfMain ==
    ASSUME ProcessInv,
           \/ NewManager \/ SetupController \/ SetupWebhook \/ AddMetricsWatcher
           \/ AddWebhookWatcher \/ AddChecks \/ Start \/ Elected \/ Restart
    PROVE  ProcessInv'
  <1>1. /\ flags' = flags /\ arrays' = arrays /\ slices' = slices /\ watchers' = watchers
        /\ runnables \subseteq runnables'
    BY DEF NewManager, SetupController, SetupWebhook, AddMetricsWatcher, AddWebhookWatcher,
           AddChecks, Start, Elected, Restart, Step, mainVars, AddWatcher
  <1>2. CASE Restart
    BY <1>1, <1>2, SameOptions DEF Restart, Step, mainVars, ProcessInv, Has
  <1>3. CASE ~Restart
    <2>1. /\ pc \notin {"flags", "exited", "webhookServer", "metricsServer"}
          /\ pc' \notin {"flags", "exited", "webhookServer", "metricsServer"}
      BY <1>3 DEF NewManager, SetupController, SetupWebhook, AddMetricsWatcher,
           AddWebhookWatcher, AddChecks, Start, Elected, Step
    <2>2. /\ Slice(slices["tls"], TLSOptions, arrays)
          /\ \A server \in Servers : /\ Slice(slices[server], OptionsOf(server), arrays)
                                     /\ server \in flags.certs => server \in watchers
      BY <2>1 DEF ProcessInv, Has
    <2>3. "metrics" \in Servers /\ "webhook" \in Servers
      BY DEF Servers
    <2>4. pc' \in {"webhookWatcher", "checks", "start", "serving", "leading"} =>
            ("metrics" \in flags.certs => "metrics" \in runnables')
      BY <1>1, <1>3, <2>2, <2>3 DEF NewManager, SetupController, SetupWebhook,
           AddMetricsWatcher, AddWebhookWatcher, AddChecks, Start, Elected, Step, AddWatcher,
           ProcessInv
    <2>5. pc' \in {"checks", "start", "serving", "leading"} =>
            ("webhook" \in flags.certs => "webhook" \in runnables')
      BY <1>1, <1>3, <2>2, <2>3 DEF NewManager, SetupController, SetupWebhook,
           AddMetricsWatcher, AddWebhookWatcher, AddChecks, Start, Elected, Step, AddWatcher,
           ProcessInv
    <2>6. /\ Slice(slices'["tls"], TLSOptions', arrays')
          /\ \A server \in Servers : /\ Slice(slices'[server], OptionsOf(server)', arrays')
                                     /\ server \in flags.certs => server \in watchers'
      BY <1>1, <2>2, SameOptions
    <2> QED BY <1>1, <2>1, <2>4, <2>5, <2>6 DEF ProcessInv
  <1> QED BY <1>2, <1>3

\* The process ends.
LEMMA ExitStep ==
    ASSUME ProcessInv, Exit
    PROVE  ProcessInv'
  <1>1. /\ pc' = "exited" /\ flags' = flags
        /\ arrays' = <<>> /\ slices' = [s \in {"tls"} \cup Servers |-> Nil]
        /\ watchers' = {} /\ runnables' = {}
    BY DEF Exit
  <1>2. /\ arrays' \in Seq(Seq(Options))
        /\ slices' \in [{"tls"} \cup Servers -> [array : Nat, len : Nat]]
    BY <1>1 DEF Nil
  <1> QED BY <1>1, <1>2 DEF ProcessInv, Has

\* The invariant of the process, whatever else the control plane does.
LEMMA ProcessInvHolds == Spec => []ProcessInv
  <1>1. Init => ProcessInv
    <2> SUFFICES ASSUME Init PROVE ProcessInv
      OBVIOUS
    <2>1. /\ pc = "flags" /\ flags \in FlagSets
          /\ arrays = <<>> /\ slices = [s \in {"tls"} \cup Servers |-> Nil]
          /\ watchers = {} /\ runnables = {}
      BY DEF Init, ProcessInit
    <2>2. /\ arrays \in Seq(Seq(Options))
          /\ slices \in [{"tls"} \cup Servers -> [array : Nat, len : Nat]]
      BY <2>1 DEF Nil
    <2> QED BY <2>1, <2>2 DEF ProcessInv, Has
  <1>2. ProcessInv /\ [Next]_vars => ProcessInv'
    <2> SUFFICES ASSUME ProcessInv, [Next]_vars PROVE ProcessInv'
      OBVIOUS
    <2>1. CASE UNCHANGED processVars
      <3>1. /\ pc' = pc /\ flags' = flags /\ arrays' = arrays /\ slices' = slices
            /\ watchers' = watchers /\ runnables' = runnables
        BY <2>1 DEF processVars, mainVars
      <3>2. \A server \in Servers : Has(server)' = Has(server)
        BY <3>1 DEF Has
      <3> QED BY <3>1, <3>2, SameOptions DEF ProcessInv
    <2>2. CASE SetUp \/ Elected \/ Restart
      BY <2>2, ParseFlagsStep, ServersStep, RestOfMain DEF SetUp
    <2>3. CASE Exit
      BY <2>3, ExitStep
    <2>4. SetUp \/ Elected \/ Restart \/ Exit \/ UNCHANGED processVars
      BY DEF Next, vars, ProcessSteps, IsElected, Exits, Requests, Finalized, StartSubManager,
             Established, Removed, CacheSteps
    <2> QED BY <2>1, <2>2, <2>3, <2>4
  <1> QED BY <1>1, <1>2, PTL DEF Spec

\* Each server uses the certificate that its own flag names, and takes HTTP/2 only if
\* asked to, for every command line (cmd/main.go): append moves the options of a server
\* off the array they share.
THEOREM OwnOptions == Spec => []ServersUseOwnOptions
  <1>1. ProcessInv => ServersUseOwnOptions
    <2> SUFFICES ASSUME ProcessInv, Serving, NEW server \in Servers
                 PROVE  /\ Certificate(server) =
                             IF server \in flags.certs THEN server ELSE "generated"
                        /\ server \in flags.certs => server \in runnables
                        /\ flags.http2 <=> \A i \in 1 .. slices[server].len :
                               Contents(slices[server])[i] # "disableHTTP2"
      BY DEF ServersUseOwnOptions
    <2>1. Slice(slices[server], OptionsOf(server), arrays)
      BY DEF ProcessInv, Serving, Has
    <2>2. server \in flags.certs => server \in runnables
      BY DEF ProcessInv, Serving, Servers
    <2> DEFINE c == Contents(slices[server])
               n == slices[server].len
    <2>3. c = OptionsOf(server) /\ n = Len(OptionsOf(server))
      <3>1. CASE OptionsOf(server) = <<>>
        BY <2>1, <3>1 DEF Slice, Contents, Nil
      <3>2. CASE OptionsOf(server) # <<>>
        <4>1. /\ n = Len(OptionsOf(server)) /\ slices[server].array \in 1 .. Len(arrays)
              /\ arrays[slices[server].array] = OptionsOf(server)
          BY <2>1, <3>2 DEF Slice
        <4>2. slices[server].array # 0
          BY <4>1
        <4>3. c = SubSeq(OptionsOf(server), 1, Len(OptionsOf(server)))
          BY <4>1, <4>2 DEF Contents
        <4>4. OptionsOf(server) \in Seq(Options)
          BY OptionTypes
        <4> HIDE DEF c, n
        <4> QED BY <4>1, <4>3, <4>4
      <3> QED BY <3>1, <3>2
    <2>4. Certificate(server) = IF \A i \in 1 .. n : c[i] \notin Servers THEN "generated"
            ELSE c[CHOOSE i \in {k \in 1 .. n : c[k] \in Servers} :
                     \A j \in {k \in 1 .. n : c[k] \in Servers} : j <= i]
      BY DEF Certificate
    <2> HIDE DEF c, n
    <2>5. "disableHTTP2" \notin Servers /\ server # "disableHTTP2"
      BY DEF Servers
    <2>6. CASE flags.http2 /\ server \notin flags.certs
      <3>1. n = 0
        BY <2>3, <2>6 DEF OptionsOf, TLSOptions
      <3> QED BY <2>2, <2>4, <2>6, <3>1 DEF c, n
    <2>7. CASE ~flags.http2 /\ server \notin flags.certs
      <3>1. n = 1 /\ c[1] = "disableHTTP2"
        BY <2>3, <2>7 DEF OptionsOf, TLSOptions
      <3> QED BY <2>2, <2>4, <2>5, <2>7, <3>1 DEF c, n
    <2>8. CASE flags.http2 /\ server \in flags.certs
      <3>1. n = 1 /\ c[1] = server
        BY <2>3, <2>8 DEF OptionsOf, TLSOptions
      <3>2. {k \in 1 .. n : c[k] \in Servers} = {1}
        BY <3>1
      <3>3. Certificate(server) = server
        BY <2>4, <3>1, <3>2
      <3> QED BY <2>2, <2>5, <2>8, <3>1, <3>3 DEF c, n
    <2>9. CASE ~flags.http2 /\ server \in flags.certs
      <3>1. n = 2 /\ c[1] = "disableHTTP2" /\ c[2] = server
        BY <2>3, <2>9 DEF OptionsOf, TLSOptions
      <3>2. {k \in 1 .. n : c[k] \in Servers} = {2}
        BY <2>5, <3>1
      <3>3. Certificate(server) = server
        BY <2>4, <3>1, <3>2
      <3> QED BY <2>2, <2>5, <2>9, <3>1, <3>3 DEF c, n
    <2> QED BY <2>6, <2>7, <2>8, <2>9
  <1> QED BY <1>1, ProcessInvHolds, PTL

=============================================================================
