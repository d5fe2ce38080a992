-------------------------- MODULE DuckClientProofs --------------------------
(***************************************************************************)
(* Proofs about DuckClient: what a call covers and when its caller is      *)
(* woken, for any Ducks, kinds, versions, resources and number of changes. *)
(***************************************************************************)
EXTENDS DuckClient, FiniteSetTheorems, TLAPS

Goal == [duck : Ducks, kind : Kinds, version : Versions]

Item == [duck : Ducks, kind : Kinds, version : Versions, name : Objects]

\* Item i is found under its Duck as that is now.
About(i) == i.kind = ducks[i.duck].kind /\ i.version = ducks[i.duck].version

\* The call asks for object o.
Asked(o) == call.op = "get" => o = call.key

Working == call.pc \in {"each", "ok"}

-----------------------------------------------------------------------------
(* The inductive invariant.                                                *)

\* How far the call is.
CallInv ==
    /\ call.op = "delete" => ~call.track
    /\ call.pc \in {"begin", "ducks"} => todo = {} /\ result = {}
    /\ call.pc = "ok" => todo = {}

\* Everything that was read was there.
PassingInv == \A i \in result : i.name \in passing[i.kind]

\* A Duck that did not change is still to be worked on, or was.
ListInv ==
    call.op = "list" /\ Working =>
        \A d \in Covered : Target(d) \notin todo =>
            \A i \in Item : i.duck = d /\ About(i) /\ i.name \in lasting[i.kind] => i \in result

DeleteInv ==
    call.op = "delete" /\ Working =>
        \A d \in Covered : Target(d) \notin todo => lasting[ducks[d].kind] = {}

\* A Duck that did not change is the one that was found.
GetInv ==
    call.op = "get" /\ Working =>
        \A d \in Covered :
            /\ \A e \in Covered : e = d
            /\ \A t \in todo : t = Target(d)
            /\ \A i \in result : i.duck = d /\ About(i)

\* Unless the caller was woken, the call knows the Ducks as they are now, and what it
\* read is there and tracked.
TrackInv ==
    call.track /\ Working /\ ~woken =>
        /\ tracked.ducks
        /\ Resolves(call, Matching(call.kind))
        /\ \A t \in todo : t.duck \in Matching(call.kind) /\ t = Target(t.duck)
        /\ \A i \in Item : i \in result <=>
              /\ i.duck \in Matching(call.kind) /\ Target(i.duck) \notin todo
              /\ About(i) /\ Asked(i.name) /\ i.name \in objects[i.kind]
        /\ \A d \in Matching(call.kind) : Target(d) \notin todo =>
              \A o \in Objects : Asked(o) => <<ducks[d].kind, o>> \in tracked.objects

IInv == TypeOK /\ CallInv /\ PassingInv /\ ListInv /\ DeleteInv /\ GetInv /\ TrackInv

-----------------------------------------------------------------------------
(* Ducks and items.                                                        *)

\* A Duck that is ready has a spec.
LEMMA ReadyDuck ==
    ASSUME TypeOK, NEW d \in Ducks, ducks[d].ready
    PROVE  ducks[d] \in Duck /\ Target(d) \in Goal
  BY DEF TypeOK, Duck, Absent, Target, Goal

\* Ducks that did not change and match the call are among those it would find.
LEMMA CoveredMatch ==
    ASSUME TypeOK
    PROVE  Covered \subseteq Matching(call.kind)
  BY DEF TypeOK, Covered, Matching

\* The items of a Duck.
LEMMA ItemsLemma ==
    ASSUME TypeOK, NEW t \in Goal
    PROVE  \A i : i \in Items(t) <=>
              /\ i \in Item
              /\ i.duck = t.duck /\ i.kind = t.kind /\ i.version = t.version
              /\ i.name \in objects[t.kind]
  <1>1. objects[t.kind] \subseteq Objects
    BY DEF TypeOK, Goal
  <1> QED BY <1>1 DEF Items, Item, Goal

\* A set of one Duck.
LEMMA OneDuck ==
    ASSUME NEW S \in SUBSET Ducks, Cardinality(S) = 1
    PROVE  \E d \in S : S = {d}
  <1>1. IsFiniteSet(S)
    BY FS_Subset, ClientAssumption
  <1> QED BY <1>1, FS_Singleton

-----------------------------------------------------------------------------
(* Types.                                                                  *)

LEMMA TypeStep ==
    ASSUME TypeOK, Next
    PROVE  TypeOK'
  <1>1. CASE ChangeType
    BY <1>1, ClientAssumption DEF ChangeType, Change, ghostVars, TypeOK
  <1>2. ASSUME NEW d \in Ducks, ChangeDuck(d) PROVE TypeOK'
    BY <1>2, ClientAssumption DEF ChangeDuck, Change, TypeOK
  <1>3. ASSUME NEW k \in Kinds, ChangeObjects(k) PROVE TypeOK'
    BY <1>3, ClientAssumption DEF ChangeObjects, Change, TypeOK
  <1>4. CASE ReadType \/ Finish \/ Fails
    BY <1>4 DEF ReadType, Finish, Fails, Goto, worldVars, ghostVars, TypeOK, Call
  <1>5. CASE ReadDucks
    <2>1. todo' \subseteq Goal
      <3>1. {Target(d) : d \in Matching(call.kind)} \subseteq Goal
        BY ReadyDuck DEF Matching
      <3> QED BY <1>5, <3>1 DEF ReadDucks, TypeOK, Goal
    <2>2. call' \in Call
      BY <1>5 DEF ReadDucks, Goto, TypeOK, Call
    <2>3. tracked' \in [ducks : BOOLEAN, objects : SUBSET (Kinds \X Objects)]
      BY <1>5 DEF ReadDucks, Tracks, TypeOK, Call
    <2> QED BY <1>5, <2>1, <2>2, <2>3 DEF ReadDucks, worldVars, ghostVars, TypeOK, Goal
  <1>6. ASSUME NEW t \in todo, WorkOn(t) PROVE TypeOK'
    <2>1. t \in Goal /\ t.kind \in Kinds
      BY DEF TypeOK, Goal
    <2>2. result' \subseteq Item
      BY <1>6, <2>1, ItemsLemma DEF WorkOn, Get, List, DeleteAllOf, TypeOK, Item
    <2>3. tracked' \in [ducks : BOOLEAN, objects : SUBSET (Kinds \X Objects)]
      BY <1>6, <2>1 DEF WorkOn, TypeOK, Call
    <2>4. /\ objects' \in [Kinds -> SUBSET Objects] /\ lasting' \in [Kinds -> SUBSET Objects]
          /\ \A k \in Kinds : lasting'[k] \subseteq objects'[k] /\ objects'[k] \subseteq passing[k]
      BY <1>6, <2>1 DEF WorkOn, Get, List, DeleteAllOf, TypeOK
    <2> QED BY <1>6, <2>2, <2>3, <2>4 DEF WorkOn, TypeOK, Item
  <1> QED BY <1>1, <1>2, <1>3, <1>4, <1>5, <1>6 DEF Next

-----------------------------------------------------------------------------
(* The rest of the invariant, action by action.                            *)

\* A change of the DuckType, a step of the call that reads no Duck or a failure.
LEMMA CallStep ==
    ASSUME IInv, ChangeType \/ ReadType \/ Finish \/ Fails
    PROVE  CallInv' /\ PassingInv' /\ ListInv' /\ DeleteInv' /\ GetInv' /\ TrackInv'
  <1>1. /\ UNCHANGED <<ducks, objects, todo, result, tracked, woken, steady, lasting, passing>>
        /\ UNCHANGED <<call.op, call.kind, call.key, call.track>>
        /\ Working' => Working
    BY DEF IInv, TypeOK, Call, ChangeType, ReadType, Finish, Fails, Goto, worldVars,
           ghostVars, Working
  <1>2. CallInv'
    BY <1>1 DEF IInv, TypeOK, Call, CallInv, ChangeType, ReadType, Finish, Fails, Goto
  <1>3. /\ Covered' = Covered /\ \A d : Target(d)' = Target(d)
        /\ Matching(call.kind)' = Matching(call.kind)
    BY <1>1 DEF Covered, Target, Matching
  <1>4. PassingInv' /\ ListInv' /\ DeleteInv' /\ GetInv'
    BY <1>1, <1>3 DEF IInv, PassingInv, ListInv, DeleteInv, GetInv, About
  <1>5. Resolves(call, Matching(call.kind))' <=> Resolves(call, Matching(call.kind))
    BY <1>1, <1>3 DEF Resolves
  <1>6. TrackInv'
    BY <1>1, <1>3, <1>5 DEF IInv, TrackInv, About, Asked
  <1> QED BY <1>2, <1>4, <1>6

\* A Duck changes: it is no longer covered, and wakes whoever tracks the Ducks.
LEMMA DuckStep ==
    ASSUME IInv, NEW c \in Ducks, ChangeDuck(c)
    PROVE  CallInv' /\ PassingInv' /\ ListInv' /\ DeleteInv' /\ GetInv' /\ TrackInv'
  <1>1. /\ UNCHANGED <<objects, call, todo, result, tracked, lasting, passing>>
        /\ woken' = (woken \/ tracked.ducks) /\ steady' = steady \ {c}
        /\ \A d \in Ducks \ {c} : ducks'[d] = ducks[d]
    BY DEF ChangeDuck, IInv, TypeOK
  <1>2. Working' = Working
    BY <1>1 DEF Working
  <1>3. \A d \in Covered' : d \in Ducks \ {c} /\ d \in Covered /\ Target(d)' = Target(d)
    BY <1>1 DEF Covered, Target, IInv, TypeOK
  <1>4. CallInv' /\ PassingInv'
    BY <1>1 DEF IInv, CallInv, PassingInv
  <1>5. ListInv'
    BY <1>1, <1>2, <1>3 DEF IInv, ListInv, About
  <1>6. DeleteInv'
    BY <1>1, <1>2, <1>3 DEF IInv, DeleteInv
  <1>7. GetInv'
    BY <1>1, <1>2, <1>3 DEF IInv, GetInv, About
  <1>8. TrackInv'
    BY <1>1, <1>2 DEF IInv, TrackInv
  <1> QED BY <1>4, <1>5, <1>6, <1>7, <1>8

\* Resources of a kind change: what was there all the time is still there, and a change
\* of a tracked one wakes the caller.
LEMMA ObjectsStep ==
    ASSUME IInv, NEW k \in Kinds, ChangeObjects(k)
    PROVE  CallInv' /\ PassingInv' /\ ListInv' /\ DeleteInv' /\ GetInv' /\ TrackInv'
  <1>1. PICK s \in SUBSET Objects :
          /\ objects' = [objects EXCEPT ![k] = s]
          /\ lasting' = [lasting EXCEPT ![k] = @ \cap s]
          /\ passing' = [passing EXCEPT ![k] = @ \cup s]
          /\ woken' = (woken \/ \E o \in Objects : /\ <<k, o>> \in tracked.objects
                                                    /\ (o \in s) # (o \in objects[k]))
          /\ UNCHANGED <<type, ducks, call, todo, result, tracked, steady>>
    BY DEF ChangeObjects
  <1>2. \A l \in Kinds : lasting'[l] \subseteq lasting[l] /\ passing[l] \subseteq passing'[l]
    BY <1>1 DEF IInv, TypeOK
  <1>3. /\ Working' = Working /\ Covered' = Covered /\ \A d : Target(d)' = Target(d)
        /\ Matching(call.kind)' = Matching(call.kind)
    BY <1>1 DEF Working, Covered, Target, Matching
  <1>4. CallInv'
    BY <1>1 DEF IInv, CallInv
  <1>5. PassingInv'
    BY <1>1, <1>2 DEF IInv, TypeOK, PassingInv
  <1>6. ListInv'
    BY <1>1, <1>2, <1>3 DEF IInv, ListInv, About, Item
  <1>7. DeleteInv'
    <2>1. \A d \in Covered : ducks[d].kind \in Kinds
      BY ReadyDuck DEF IInv, TypeOK, Covered, Duck
    <2> QED BY <1>1, <1>2, <1>3, <2>1 DEF IInv, DeleteInv
  <1>8. GetInv'
    BY <1>1, <1>3 DEF IInv, GetInv, About
  <1>9. TrackInv'
    <2> SUFFICES ASSUME call.track, Working, ~woken'
                 PROVE  TrackInv'
      BY <1>1, <1>3 DEF TrackInv
    <2>1. TrackInv /\ ~woken
      BY <1>1 DEF IInv
    <2>2. \A d \in Matching(call.kind) : Target(d) \notin todo =>
             \A o \in Objects : Asked(o) =>
                (o \in objects'[ducks[d].kind] <=> o \in objects[ducks[d].kind])
      <3> SUFFICES ASSUME NEW d \in Matching(call.kind), Target(d) \notin todo,
                          NEW o \in Objects, Asked(o)
                   PROVE  o \in objects'[ducks[d].kind] <=> o \in objects[ducks[d].kind]
        OBVIOUS
      <3>1. <<ducks[d].kind, o>> \in tracked.objects
        BY <2>1 DEF TrackInv
      <3>2. ducks[d].kind \in Kinds
        BY ReadyDuck DEF IInv, Matching, Duck
      <3>3. CASE ducks[d].kind = k
        BY <1>1, <3>1, <3>3 DEF IInv, TypeOK
      <3>4. CASE ducks[d].kind # k
        BY <1>1, <3>2, <3>4 DEF IInv, TypeOK
      <3> QED BY <3>3, <3>4
    <2>3. \A i \in Item : i \in result <=>
              /\ i.duck \in Matching(call.kind) /\ Target(i.duck) \notin todo
              /\ About(i) /\ Asked(i.name) /\ i.name \in objects'[i.kind]
      <3> SUFFICES ASSUME NEW i \in Item
                   PROVE  i \in result <=>
                            /\ i.duck \in Matching(call.kind) /\ Target(i.duck) \notin todo
                            /\ About(i) /\ Asked(i.name) /\ i.name \in objects'[i.kind]
        OBVIOUS
      <3>1. i.name \in Objects
        BY DEF Item
      <3>2. i \in result <=>
              /\ i.duck \in Matching(call.kind) /\ Target(i.duck) \notin todo
              /\ About(i) /\ Asked(i.name) /\ i.name \in objects[i.kind]
        BY <2>1 DEF TrackInv
      <3>3. i.duck \in Matching(call.kind) /\ Target(i.duck) \notin todo /\ About(i) /\ Asked(i.name)
              => (i.name \in objects'[i.kind] <=> i.name \in objects[i.kind])
        BY <2>2, <3>1 DEF About
      <3> QED BY <3>2, <3>3
    <2>4. Resolves(call, Matching(call.kind))'
      BY <1>1, <1>3, <2>1 DEF TrackInv, Resolves
    <2> QED BY <1>1, <1>3, <2>1, <2>3, <2>4 DEF TrackInv, About, Asked
  <1> QED BY <1>4, <1>5, <1>6, <1>7, <1>8, <1>9

\* The Ducks are read, and tracked with the same step.
LEMMA ReadDucksStep ==
    ASSUME IInv, ReadDucks
    PROVE  CallInv' /\ PassingInv' /\ ListInv' /\ DeleteInv' /\ GetInv' /\ TrackInv'
  <1>1. /\ UNCHANGED <<type, ducks, objects, result, woken, steady, lasting, passing>>
        /\ UNCHANGED <<call.op, call.kind, call.key, call.track>>
        /\ result = {} /\ tracked'.ducks = call.track
        /\ \/ /\ Resolves(call, Matching(call.kind))
              /\ call'.pc = "each" /\ todo' = {Target(d) : d \in Matching(call.kind)}
           \/ call'.pc = "error"
    BY DEF IInv, TypeOK, Call, CallInv, ReadDucks, Goto, Tracks, worldVars, ghostVars
  <1>2. CallInv' /\ PassingInv'
    BY <1>1 DEF IInv, CallInv, PassingInv
  <1>3. CASE call'.pc = "error"
    BY <1>1, <1>2, <1>3 DEF Working, ListInv, DeleteInv, GetInv, TrackInv
  <1>4. CASE call'.pc # "error"
    <2>1. /\ Resolves(call, Matching(call.kind))
          /\ todo' = {Target(d) : d \in Matching(call.kind)}
      BY <1>1, <1>4
    <2>2. /\ Covered' = Covered /\ \A d : Target(d)' = Target(d)
          /\ Matching(call.kind)' = Matching(call.kind)
      BY <1>1 DEF Covered, Target, Matching
    <2>3. Covered \subseteq Matching(call.kind)
      BY CoveredMatch DEF IInv
    <2>4. ListInv' /\ DeleteInv'
      BY <2>1, <2>2, <2>3 DEF ListInv, DeleteInv
    <2>5. GetInv'
      <3> SUFFICES ASSUME call.op = "get"
                   PROVE  \A d \in Covered : /\ \A e \in Covered : e = d
                                             /\ \A t \in todo' : t = Target(d)
        BY <1>1, <2>2 DEF GetInv
      <3>1. Cardinality(Matching(call.kind)) = 1
        BY <2>1 DEF Resolves
      <3>2. \E d \in Matching(call.kind) : Matching(call.kind) = {d}
        BY <3>1, OneDuck DEF Matching
      <3> QED BY <2>1, <2>3, <3>2
    <2>6. TrackInv'
      <3>1. Resolves(call, Matching(call.kind))'
        BY <1>1, <2>1, <2>2 DEF Resolves
      <3>2. \A t \in todo' : t.duck \in Matching(call.kind) /\ t = Target(t.duck)
        BY <2>1 DEF Target
      <3>3. \A d \in Matching(call.kind) : Target(d) \in todo'
        BY <2>1
      <3> QED BY <1>1, <2>2, <3>1, <3>2, <3>3 DEF TrackInv
    <2> QED BY <1>2, <2>4, <2>5, <2>6
  <1> QED BY <1>3, <1>4

\* The resources of one Duck are read or removed.
LEMMA WorkOnStep ==
    ASSUME IInv, NEW t \in todo, WorkOn(t)
    PROVE  CallInv' /\ PassingInv' /\ ListInv' /\ DeleteInv' /\ GetInv' /\ TrackInv'
  <1>1. /\ UNCHANGED <<type, ducks, call, woken, steady, passing>>
        /\ call.pc = "each" /\ todo' = todo \ {t}
        /\ Get(t) \/ List(t) \/ DeleteAllOf(t)
    BY DEF WorkOn
  <1>2. t \in Goal /\ t.kind \in Kinds
    BY DEF IInv, TypeOK, Goal
  <1>3. \A i : i \in Items(t) <=> /\ i \in Item
                                  /\ i.duck = t.duck /\ i.kind = t.kind /\ i.version = t.version
                                  /\ i.name \in objects[t.kind]
    BY <1>2, ItemsLemma DEF IInv
  <1>4. /\ Working /\ Working' /\ Covered' = Covered /\ \A d : Target(d)' = Target(d)
        /\ Matching(call.kind)' = Matching(call.kind)
    BY <1>1 DEF Working, Covered, Target, Matching
  <1>5. CallInv'
    BY <1>1 DEF IInv, CallInv
  <1>6. PassingInv'
    BY <1>1, <1>2, <1>3 DEF IInv, TypeOK, PassingInv, Get, List, DeleteAllOf
  <1>7. ListInv'
    <2> SUFFICES ASSUME call.op = "list", NEW d \in Covered, Target(d) \notin todo',
                        NEW i \in Item, i.duck = d, About(i), i.name \in lasting'[i.kind]
                 PROVE  i \in result'
      BY <1>1, <1>4 DEF ListInv, About
    <2>1. result' = result \cup Items(t) /\ lasting' = lasting
      BY <1>1 DEF Get, List, DeleteAllOf
    <2>2. CASE Target(d) # t
      BY <1>1, <1>4, <2>1, <2>2 DEF IInv, ListInv
    <2>3. CASE Target(d) = t
      <3>1. i.duck = t.duck /\ i.kind = t.kind /\ i.version = t.version
        BY <2>3 DEF Target, About
      <3>2. i.name \in objects[t.kind]
        BY <1>2, <2>1, <3>1 DEF IInv, TypeOK
      <3> QED BY <1>3, <2>1, <3>1, <3>2
    <2> QED BY <2>2, <2>3
  <1>8. DeleteInv'
    <2> SUFFICES ASSUME call.op = "delete", NEW d \in Covered, Target(d) \notin todo'
                 PROVE  lasting'[ducks[d].kind] = {}
      BY <1>1, <1>4 DEF DeleteInv
    <2>1. lasting' = [lasting EXCEPT ![t.kind] = {}]
      BY <1>1 DEF Get, List, DeleteAllOf
    <2>2. ducks[d].kind \in Kinds
      BY ReadyDuck DEF IInv, TypeOK, Covered, Duck
    <2>3. CASE Target(d) # t
      <3>1. lasting[ducks[d].kind] = {}
        BY <1>1, <1>4, <2>3 DEF IInv, DeleteInv
      <3> QED BY <2>1, <2>2, <3>1 DEF IInv, TypeOK
    <2>4. CASE Target(d) = t
      <3>1. t.kind = ducks[d].kind
        BY <2>4 DEF Target
      <3> QED BY <2>1, <2>2, <3>1 DEF IInv, TypeOK
    <2> QED BY <2>3, <2>4
  <1>9. GetInv'
    <2> SUFFICES ASSUME call.op = "get", NEW d \in Covered
                 PROVE  /\ \A e \in Covered : e = d
                        /\ \A u \in todo' : u = Target(d)
                        /\ \A i \in result' : i.duck = d /\ About(i)
      BY <1>1, <1>4 DEF GetInv, About
    <2>1. /\ \A e \in Covered : e = d
          /\ \A u \in todo : u = Target(d)
      BY <1>4 DEF IInv, GetInv
    <2>2. result' \subseteq Items(t)
      BY <1>1 DEF Get, List, DeleteAllOf
    <2>3. t.duck = d /\ t.kind = ducks[d].kind /\ t.version = ducks[d].version
      BY <2>1 DEF Target
    <2> QED BY <1>1, <1>3, <2>1, <2>2, <2>3 DEF About
  <1>10. TrackInv'
    <2> SUFFICES ASSUME call.track, ~woken
                 PROVE  TrackInv'
      BY <1>1 DEF TrackInv
    <2>1. call.op \in {"get", "list"}
      BY DEF IInv, TypeOK, Call, CallInv
    <2> DEFINE ds == Matching(call.kind)
    <2>2. /\ tracked.ducks /\ Resolves(call, ds)
          /\ \A u \in todo : u.duck \in ds /\ u = Target(u.duck)
          /\ \A i \in Item : i \in result <=>
                /\ i.duck \in ds /\ Target(i.duck) \notin todo
                /\ About(i) /\ Asked(i.name) /\ i.name \in objects[i.kind]
          /\ \A d \in ds : Target(d) \notin todo =>
                \A o \in Objects : Asked(o) => <<ducks[d].kind, o>> \in tracked.objects
      BY <1>4 DEF IInv, TrackInv
    <2>3. /\ objects' = objects
          /\ tracked'.ducks = tracked.ducks
          /\ tracked.objects \subseteq tracked'.objects
          /\ \A o \in Objects : Asked(o) => <<t.kind, o>> \in tracked'.objects
      <3>1. objects' = objects
        BY <1>1, <2>1 DEF Get, List, DeleteAllOf
      <3>2. tracked' = [tracked EXCEPT !.objects =
                          @ \cup ({t.kind} \X (IF call.op = "get" THEN {call.key} ELSE Objects))]
        BY DEF WorkOn
      <3> QED BY <3>1, <3>2 DEF IInv, TypeOK, Asked
    <2>4. t.duck \in ds /\ t = Target(t.duck)
      BY <2>2
    <2>5. \A d \in ds : Target(d) = t <=> d = t.duck
      BY <2>4 DEF Target
    <2>6. ASSUME NEW i \in Item
          PROVE  i \in result' <=>
                   /\ i.duck \in ds /\ Target(i.duck) \notin todo'
                   /\ About(i) /\ Asked(i.name) /\ i.name \in objects[i.kind]
      <3>1. i \in Items(t) <=> i.duck = t.duck /\ About(i) /\ i.name \in objects[i.kind]
        BY <1>3, <2>4 DEF About, Target
      <3>2. CASE call.op = "list"
        <4>1. i \in result' <=> i \in result \/ i \in Items(t)
          BY <1>1, <3>2 DEF Get, List, DeleteAllOf
        <4>2. Asked(i.name)
          BY <3>2 DEF Asked
        <4> QED BY <1>1, <2>2, <2>4, <2>5, <3>1, <4>1, <4>2
      <3>3. CASE call.op = "get"
        <4>1. i \in result' <=> i \in Items(t) /\ Asked(i.name)
          BY <1>1, <3>3 DEF Get, List, DeleteAllOf, Asked
        <4>2. Cardinality(ds) = 1
          BY <2>2, <3>3 DEF Resolves
        <4>3. \E d \in ds : ds = {d}
          BY <4>2, OneDuck DEF Matching
        <4>4. ds = {t.duck}
          BY <2>4, <4>3
        <4> QED BY <1>1, <2>4, <3>1, <4>1, <4>4
      <3> QED BY <2>1, <3>2, <3>3
    <2>7. \A d \in ds : Target(d) \notin todo' =>
             \A o \in Objects : Asked(o) => <<ducks[d].kind, o>> \in tracked'.objects
      <3>1. t.kind = ducks[t.duck].kind
        BY <2>4 DEF Target
      <3> QED BY <1>1, <2>2, <2>3, <2>5, <3>1
    <2>8. Resolves(call, ds)'
      BY <1>1, <1>4, <2>2 DEF Resolves
    <2>9. /\ ds' = ds /\ call' = call /\ ducks' = ducks /\ objects' = objects
          /\ \A i : About(i)' = About(i)
          /\ \A o : Asked(o)' = Asked(o)
          /\ \A d : Target(d)' = Target(d)
      BY <1>1, <1>4, <2>3 DEF About, Asked
    <2> HIDE DEF ds
    <2>10. \A u \in todo' : u.duck \in ds' /\ u = Target(u.duck)'
      BY <1>1, <2>2, <2>9
    <2>11. \A i \in Item : i \in result' <=>
              /\ i.duck \in ds' /\ Target(i.duck)' \notin todo'
              /\ About(i)' /\ Asked(i.name)' /\ i.name \in objects'[i.kind]
      BY <2>6, <2>9
    <2>12. \A d \in ds' : Target(d)' \notin todo' =>
              \A o \in Objects : Asked(o)' => <<ducks'[d].kind, o>> \in tracked'.objects
      BY <2>7, <2>9
    <2>13. tracked'.ducks
      BY <2>2, <2>3
    <2> QED BY <2>8, <2>10, <2>11, <2>12, <2>13 DEF TrackInv, ds
  <1> QED BY <1>5, <1>6, <1>7, <1>8, <1>9, <1>10

-----------------------------------------------------------------------------
(* The theorems.                                                           *)

\* Before its first read a call has nothing to cover and nothing to wake.
LEMMA InitInv ==
    ASSUME Init
    PROVE  IInv
  <1>1. TypeOK
    <2>1. call \in Call
      BY DEF Init, Call
    <2>2. tracked \in [ducks : BOOLEAN, objects : SUBSET (Kinds \X Objects)]
      BY DEF Init
    <2>3. changes \in 0 .. MaxChanges
      BY ClientAssumption DEF Init
    <2> QED BY <2>1, <2>2, <2>3 DEF Init, TypeOK
  <1>2. ~Working
    BY DEF Init, Working
  <1>3. CallInv /\ PassingInv
    BY DEF Init, CallInv, PassingInv
  <1> QED BY <1>1, <1>2, <1>3 DEF IInv, ListInv, DeleteInv, GetInv, TrackInv

\* Nothing changes.
LEMMA StutterInv ==
    ASSUME IInv, UNCHANGED vars
    PROVE  IInv'
  <1>1. TypeOK' /\ CallInv' /\ PassingInv'
    BY DEF IInv, vars, TypeOK, CallInv, PassingInv
  <1>2. /\ Working' = Working /\ Covered' = Covered /\ \A d : Target(d)' = Target(d)
        /\ Matching(call.kind)' = Matching(call.kind)
    BY DEF vars, Working, Covered, Target, Matching
  <1>3. ListInv' /\ DeleteInv' /\ GetInv'
    BY <1>2 DEF IInv, vars, ListInv, DeleteInv, GetInv, About
  <1>4. Resolves(call, Matching(call.kind))' <=> Resolves(call, Matching(call.kind))
    BY <1>2 DEF vars, Resolves
  <1>5. TrackInv'
    BY <1>2, <1>4 DEF IInv, vars, TrackInv, About, Asked
  <1> QED BY <1>1, <1>3, <1>5 DEF IInv

\* The invariant holds: every step of the call and of others keeps it.
THEOREM ClientInv == Spec => []IInv
  <1>1. Init => IInv
    BY InitInv
  <1>2. IInv /\ [Next]_vars => IInv'
    <2> SUFFICES ASSUME IInv, [Next]_vars PROVE IInv'
      OBVIOUS
    <2>1. CASE UNCHANGED vars
      BY <2>1, StutterInv
    <2>2. CASE Next
      <3>1. TypeOK'
        BY <2>2, TypeStep DEF IInv
      <3>2. CallInv' /\ PassingInv' /\ ListInv' /\ DeleteInv' /\ GetInv' /\ TrackInv'
        <4>1. CASE ChangeType \/ ReadType \/ Finish \/ Fails
          BY <4>1, CallStep
        <4>2. CASE \E d \in Ducks : ChangeDuck(d)
          BY <4>2, DuckStep
        <4>3. CASE \E k \in Kinds : ChangeObjects(k)
          BY <4>3, ObjectsStep
        <4>4. CASE ReadDucks
          BY <4>4, ReadDucksStep
        <4>5. CASE \E t \in todo : WorkOn(t)
          BY <4>5, WorkOnStep
        <4> QED BY <2>2, <4>1, <4>2, <4>3, <4>4, <4>5 DEF Next
      <3> QED BY <3>1, <3>2 DEF IInv
    <2> QED BY <2>1, <2>2
  <1> QED BY <1>1, <1>2, PTL DEF Spec

\* The variables keep their types: whatever a call still has to do or has found is
\* made of Ducks with a spec, and what lasts is there.
THEOREM TypeCorrect == Spec => []TypeOK
  <1>1. IInv => TypeOK
    BY DEF IInv
  <1> QED BY <1>1, ClientInv, PTL

\* A List of the duck client has all that lasted of every Duck that was ready all the
\* time, whatever changes while it is under way.
THEOREM ListsCover == Spec => []ListCovers
  <1>1. IInv => ListCovers
    <2> SUFFICES ASSUME IInv, call.op = "list", call.pc = "ok" PROVE ListCovers
      BY DEF ListCovers
    <2>1. Working /\ todo = {}
      BY DEF IInv, CallInv, Working
    <2>2. ASSUME NEW d \in Covered, NEW o \in lasting[ducks[d].kind]
          PROVE  \E i \in result : /\ i.duck = d /\ i.name = o
                                   /\ i.kind = ducks[d].kind /\ i.version = ducks[d].version
      <3> DEFINE i == [duck |-> d, kind |-> ducks[d].kind, version |-> ducks[d].version,
                       name |-> o]
      <3>1. d \in Ducks /\ ducks[d].ready
        BY DEF IInv, TypeOK, Covered
      <3>2. ducks[d].kind \in Kinds /\ ducks[d].version \in Versions
        BY <3>1, ReadyDuck DEF IInv, Duck
      <3>3. o \in Objects
        BY <3>2 DEF IInv, TypeOK
      <3>4. i \in Item /\ About(i)
        BY <3>1, <3>2, <3>3 DEF Item, About
      <3>5. i \in result
        BY <2>1, <3>4 DEF IInv, ListInv
      <3> QED BY <3>5
    <2> QED BY <2>2 DEF ListCovers, IInv, PassingInv
  <1> QED BY <1>1, ClientInv, PTL

\* A DeleteAllOf of the duck client leaves nothing that lasted of any Duck that was
\* ready all the time.
THEOREM DeletesCover == Spec => []DeleteCovers
  <1>1. IInv => DeleteCovers
    BY DEF IInv, CallInv, DeleteInv, DeleteCovers, Working
  <1> QED BY <1>1, ClientInv, PTL

\* A Get of the duck client never guesses among several Ducks of a kind.
THEOREM GetsAreUnambiguous == Spec => []GetIsUnambiguous
  <1>1. IInv => GetIsUnambiguous
    <2> SUFFICES ASSUME IInv, call.op = "get", call.pc = "ok" PROVE GetIsUnambiguous
      BY DEF GetIsUnambiguous
    <2>1. \A d \in Covered : /\ \A e \in Covered : e = d
                             /\ \A i \in result : i.duck = d /\ About(i)
      BY DEF IInv, GetInv, Working
    <2>2. Cardinality(Covered) <= 1
      <3>1. CASE Covered = {}
        BY <3>1, FS_EmptySet
      <3>2. CASE Covered # {}
        <4>1. PICK d \in Covered : Covered = {d}
          BY <2>1, <3>2
        <4>2. Cardinality(Covered) = 1
          BY <4>1, FS_Singleton
        <4> QED BY <4>2
      <3> QED BY <3>1, <3>2
    <2> QED BY <2>1, <2>2 DEF GetIsUnambiguous, About
  <1> QED BY <1>1, ClientInv, PTL

\* The caller of TrackAndGet or TrackAndList is woken before its answer is stale.
THEOREM StaleAnswersWake == Spec => []StaleAnswerWakes
  <1>1. IInv => StaleAnswerWakes
    <2> SUFFICES ASSUME IInv, call.track, call.pc = "ok", ~woken PROVE StaleAnswerWakes
      BY DEF StaleAnswerWakes
    <2> DEFINE ds == Matching(call.kind)
               all == UNION {Items(Target(d)) : d \in ds}
    <2>1. /\ Resolves(call, ds)
          /\ \A i \in Item : i \in result <=>
                i.duck \in ds /\ About(i) /\ Asked(i.name) /\ i.name \in objects[i.kind]
      BY DEF IInv, CallInv, TrackInv, Working
    <2>2. \A i : i \in all <=>
             i \in Item /\ i.duck \in ds /\ About(i) /\ i.name \in objects[i.kind]
      <3>1. ASSUME NEW d \in ds
            PROVE  \A i : i \in Items(Target(d)) <=>
                      i \in Item /\ i.duck = d /\ About(i) /\ i.name \in objects[i.kind]
        <4>1. Target(d) \in Goal
          BY ReadyDuck DEF IInv, Matching
        <4>2. /\ Target(d).duck = d /\ Target(d).kind = ducks[d].kind
              /\ Target(d).version = ducks[d].version
          BY DEF Target
        <4> QED BY <4>1, <4>2, ItemsLemma DEF IInv, About
      <3> QED BY <3>1
    <2>3. result \subseteq Item
      BY DEF IInv, TypeOK, Item
    <2>4. result = IF call.op = "get" THEN {i \in all : i.name = call.key} ELSE all
      <3> HIDE DEF all, ds
      <3>1. \A i : i \in result <=> i \in all /\ Asked(i.name)
        BY <2>1, <2>2, <2>3
      <3> QED BY <3>1 DEF Asked
    <2> QED BY <2>1, <2>4 DEF StaleAnswerWakes
  <1> QED BY <1>1, ClientInv, PTL

=============================================================================
