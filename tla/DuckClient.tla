----------------------------- MODULE DuckClient -----------------------------
(***************************************************************************)
(* A call of the duck client (client/client.go).  It reads the DuckType,   *)
(* then its Ducks, then works on the resources of the ready Ducks one Duck *)
(* after the other, while all of these change.  The client keeps nothing   *)
(* between calls, so the module follows one.                               *)
(*                                                                         *)
(* The state is what the reads return: each of them may come from a cache  *)
(* of its own, and their changes come in any order.                        *)
(***************************************************************************)
EXTENDS Naturals, FiniteSets

CONSTANTS
    Ducks,       \* names of Ducks
    Kinds,       \* kinds that a Duck may name
    Versions,    \* versions that a Duck may name
    Objects,     \* names of resources
    None,        \* no kind: the empty GroupKind
    MaxChanges   \* bound on what others do

ASSUME ClientAssumption ==
    /\ None \notin Kinds
    /\ MaxChanges \in Nat
    /\ IsFiniteSet(Ducks)

VARIABLES
    type,     \* the DuckType: "absent", "unready" or "ready"
    ducks,    \* the Ducks
    objects,  \* objects[k]: the resources of kind k
    call,     \* the call and how far it is
    todo,     \* Ducks the call has still to work on
    result,   \* what the call has collected, with the Duck it was found under
    tracked,  \* what the caller is tracked on: the Ducks, and single resources
    woken,    \* something tracked has changed
    steady,   \* Ducks that were ready and did not change since the call began
    lasting,  \* lasting[k]: resources that are there since the call began
    passing,  \* passing[k]: resources that were there at some time since
    changes

worldVars == <<type, ducks, objects>>
ghostVars == <<steady, lasting, passing>>
vars == <<type, ducks, objects, call, todo, result, tracked, woken, steady, lasting,
          passing, changes>>

Duck == [kind : Kinds, version : Versions, ready : BOOLEAN]

Absent == [kind |-> None, version |-> None, ready |-> FALSE]

\* Get reads one object of a kind, which the caller may have left out; List reads and
\* DeleteAllOf removes all of a kind or, without one, of the duck type.
Call == [op : {"get", "list", "delete"}, kind : Kinds \cup {None}, key : Objects,
         track : BOOLEAN, pc : {"begin", "ducks", "each", "ok", "error"}]

Change == changes < MaxChanges /\ changes' = changes + 1

Init ==
    /\ type \in {"absent", "unready", "ready"}
    /\ ducks \in [Ducks -> Duck \cup {Absent}]
    /\ objects \in [Kinds -> SUBSET Objects]
    /\ call \in [op : {"get", "list", "delete"}, kind : Kinds \cup {None}, key : Objects,
                 track : BOOLEAN, pc : {"begin"}]
    /\ call.op = "delete" => ~call.track
    /\ todo = {} /\ result = {}
    /\ tracked = [ducks |-> FALSE, objects |-> {}] /\ woken = FALSE
    /\ steady = {d \in Ducks : ducks[d].ready}
    /\ lasting = objects /\ passing = objects
    /\ changes = 0

-----------------------------------------------------------------------------
(* Others change what the call reads.                                      *)

ChangeType ==
    /\ Change
    /\ \E t \in {"absent", "unready", "ready"} \ {type} : type' = t
    /\ UNCHANGED <<ducks, objects, call, todo, result, tracked, woken, ghostVars>>

ChangeDuck(d) ==
    /\ Change
    /\ \E r \in (Duck \cup {Absent}) \ {ducks[d]} : ducks' = [ducks EXCEPT ![d] = r]
    /\ steady' = steady \ {d}
    /\ woken' = (woken \/ tracked.ducks)
    /\ UNCHANGED <<type, objects, call, todo, result, tracked, lasting, passing>>

ChangeObjects(k) ==
    /\ Change
    /\ \E s \in SUBSET Objects \ {objects[k]} :
          /\ objects' = [objects EXCEPT ![k] = s]
          /\ lasting' = [lasting EXCEPT ![k] = @ \cap s]
          /\ passing' = [passing EXCEPT ![k] = @ \cup s]
          /\ woken' = (woken \/ \E o \in Objects :
                                  /\ <<k, o>> \in tracked.objects
                                  /\ (o \in s) # (o \in objects[k]))
    /\ UNCHANGED <<type, ducks, call, todo, result, tracked, steady>>

-----------------------------------------------------------------------------
(* ducks(), duck() and setDuckVersion().                                   *)

Goto(pc) == call' = [call EXCEPT !.pc = pc]

ReadType ==
    /\ call.pc = "begin"
    /\ Goto(IF type = "ready" THEN "ducks" ELSE "error")
    /\ UNCHANGED <<worldVars, todo, result, tracked, woken, ghostVars, changes>>

\* Ready Ducks of the kind, or all of them when no kind is given.
Matching(kind) == {d \in Ducks : ducks[d].ready /\ kind \in {None, ducks[d].kind}}

\* Faulty variant of Resolves: any of several Ducks serves a Get.
ResolvesAny(c, ds) == c.kind # None => ds # {}

\* ErrUnknownDuck otherwise.
Resolves(c, ds) ==
    /\ c.kind # None => ds # {}
    /\ c.op = "get" => Cardinality(ds) = 1

\* Faulty variant of Tracks: only resources are tracked.
TracksResources == FALSE

\* TrackAndList of the Ducks, or List.
Tracks == call.track

Target(d) == [duck |-> d, kind |-> ducks[d].kind, version |-> ducks[d].version]

ReadDucks ==
    /\ call.pc = "ducks"
    /\ tracked' = [tracked EXCEPT !.ducks = Tracks]
    /\ LET ds == Matching(call.kind) IN
          IF Resolves(call, ds)
          THEN Goto("each") /\ todo' = {Target(d) : d \in ds}
          ELSE Goto("error") /\ UNCHANGED todo
    /\ UNCHANGED <<worldVars, result, woken, ghostVars, changes>>

-----------------------------------------------------------------------------
(* Get, List and their tracking forms, and DeleteAllOf.                    *)

\* Several Ducks may name one kind; each has its items.
Items(t) == {[duck |-> t.duck, kind |-> t.kind, version |-> t.version, name |-> o] :
                 o \in objects[t.kind]}

\* Get and TrackAndGet; an object that is not there leaves result empty.  The Duck gives
\* the object a version only: one without a kind cannot be read, and the call fails.
Get(t) ==
    /\ call.op = "get"
    /\ call.kind # None
    /\ result' = {i \in Items(t) : i.name = call.key}
    /\ UNCHANGED <<objects, lasting>>

\* Faulty variant of List: the items replace those of earlier Ducks.
ListReplaces(t) ==
    /\ call.op = "list"
    /\ result' = Items(t)
    /\ UNCHANGED <<objects, lasting>>

List(t) ==
    /\ call.op = "list"
    /\ result' = result \cup Items(t)
    /\ UNCHANGED <<objects, lasting>>

DeleteAllOf(t) ==
    /\ call.op = "delete"
    /\ objects' = [objects EXCEPT ![t.kind] = {}]
    /\ lasting' = [lasting EXCEPT ![t.kind] = {}]
    /\ UNCHANGED result

WorkOn(t) ==
    /\ call.pc = "each"
    /\ t \in todo
    /\ Get(t) \/ List(t) \/ DeleteAllOf(t)
    /\ todo' = todo \ {t}
    /\ LET read == IF call.op = "get" THEN {call.key} ELSE Objects IN
          tracked' = IF call.track
                     THEN [tracked EXCEPT !.objects = @ \cup ({t.kind} \X read)]
                     ELSE tracked
    /\ UNCHANGED <<type, ducks, call, woken, steady, passing, changes>>

\* Faulty variant of Finish: Ducks may be left out.
FinishEarly ==
    /\ call.pc = "each"
    /\ Goto("ok")
    /\ UNCHANGED <<worldVars, todo, result, tracked, woken, ghostVars, changes>>

Finish ==
    /\ call.pc = "each"
    /\ todo = {}
    /\ Goto("ok")
    /\ UNCHANGED <<worldVars, todo, result, tracked, woken, ghostVars, changes>>

\* A call to the API fails, and the whole call with it.
Fails ==
    /\ call.pc \in {"begin", "ducks", "each"}
    /\ Goto("error")
    /\ UNCHANGED <<worldVars, todo, result, tracked, woken, ghostVars, changes>>

-----------------------------------------------------------------------------
Next ==
    \/ ChangeType
    \/ \E d \in Ducks : ChangeDuck(d)
    \/ \E k \in Kinds : ChangeObjects(k)
    \/ ReadType \/ ReadDucks \/ Finish \/ Fails
    \/ \E t \in todo : WorkOn(t)

Spec == Init /\ [][Next]_vars

-----------------------------------------------------------------------------
(* Every variable has its type.                                            *)
TypeOK ==
    /\ type \in {"absent", "unready", "ready"}
    /\ ducks \in [Ducks -> Duck \cup {Absent}]
    /\ objects \in [Kinds -> SUBSET Objects]
    /\ call \in Call
    /\ todo \subseteq [duck : Ducks, kind : Kinds, version : Versions]
    /\ result \subseteq [duck : Ducks, kind : Kinds, version : Versions, name : Objects]
    /\ tracked \in [ducks : BOOLEAN, objects : SUBSET (Kinds \X Objects)]
    /\ woken \in BOOLEAN
    /\ steady \subseteq {d \in Ducks : ducks[d].ready}
    /\ lasting \in [Kinds -> SUBSET Objects] /\ passing \in [Kinds -> SUBSET Objects]
    /\ \A k \in Kinds : lasting[k] \subseteq objects[k] /\ objects[k] \subseteq passing[k]
    /\ changes \in 0 .. MaxChanges

\* What a call is to cover whatever else changes while it runs: the Ducks that
\* were ready all the time and match it.
Covered == {d \in steady : call.kind \in {None, ducks[d].kind}}

\* A List that returns without an error has every resource that was there all the
\* time under a Duck that was ready all the time, and nothing that never was.
ListCovers ==
    call.op = "list" /\ call.pc = "ok" =>
        /\ \A d \in Covered : \A o \in lasting[ducks[d].kind] :
              \E i \in result : /\ i.duck = d /\ i.name = o
                                /\ i.kind = ducks[d].kind /\ i.version = ducks[d].version
        /\ \A i \in result : i.name \in passing[i.kind]

\* After a DeleteAllOf without an error no resource is left that was there all the
\* time under a Duck that was ready all the time.
DeleteCovers ==
    call.op = "delete" /\ call.pc = "ok" =>
        \A d \in Covered : lasting[ducks[d].kind] = {}

\* A Get that returns reads the version its one Duck names: with another Duck of
\* the kind ready all the time it returns ErrUnknownDuck instead of a guess.
GetIsUnambiguous ==
    call.op = "get" /\ call.pc = "ok" =>
        /\ Cardinality(Covered) <= 1
        /\ \A d \in Covered, i \in result :
              i.duck = d /\ i.kind = ducks[d].kind /\ i.version = ducks[d].version

\* Whoever made a tracking call is woken when the answer is no longer what the
\* call would answer now, as long as the DuckType is ready: Ducks and resources
\* are tracked no later than they are read.
StaleAnswerWakes ==
    call.track /\ call.pc = "ok" /\ ~woken =>
        LET ds == Matching(call.kind)
            all == UNION {Items(Target(d)) : d \in ds} IN
        /\ Resolves(call, ds)
        /\ result = IF call.op = "get" THEN {i \in all : i.name = call.key} ELSE all

=============================================================================
