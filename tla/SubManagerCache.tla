--------------------------- MODULE SubManagerCache ---------------------------
(***************************************************************************)
(* The cache of a sub-manager (internal/submanager/submanager.go): objects *)
(* of the kinds it is made for come from informers of its own, which end   *)
(* with it, all others from the cache of the manager, which all            *)
(* sub-managers share.                                                     *)
(*                                                                         *)
(* A kind of Ducks comes and goes with its CustomResourceDefinition; what  *)
(* counts of an object is in which of the kind's incarnations it lived.    *)
(* An informer lists what is served and keeps what it has while nothing    *)
(* is, so after a kind was removed its informer still holds the dead.      *)
(***************************************************************************)
EXTENDS Naturals

CONSTANTS
    Owners,         \* DuckTypes, each with at most one sub-manager
    DuckKinds,      \* group and kind of Ducks
    ListKinds,      \* group and kind of lists of Ducks
    SharedKinds,    \* kinds that the API server always serves
    NoManager, NoInformer,
    MaxIncarnations \* bound on the times a kind is defined

VARIABLES
    api,    \* whether the API server serves a kind of Ducks, and its incarnation
    shared, \* informers of the manager's cache
    sub     \* the sub-managers

cacheVars == <<api, shared, sub>>

Kinds == DuckKinds \cup SharedKinds

Informer == [synced : BOOLEAN, holds : Nat] \cup {NoInformer}

Phases == {"starting", "started", "watching", "running", "failed"}

\* since: the first incarnation not over when the sub-manager was made;
\* read: the oldest that a read of its kind returned, 0 if none did.
Manager == [phase : Phases, kind : DuckKinds, list : ListKinds,
            types : SUBSET (DuckKinds \cup ListKinds), since : Nat, read : Nat,
            local : [Kinds -> Informer]]

ASSUME CacheAssumption ==
    /\ MaxIncarnations \in Nat
    /\ DuckKinds \cap SharedKinds = {}
    /\ NoInformer \notin [synced : BOOLEAN, holds : Nat]
    /\ NoManager \notin Manager

CacheInit ==
    /\ api = [k \in DuckKinds |-> [live |-> FALSE, incarnation |-> 0]]
    /\ shared = [k \in Kinds |-> NoInformer]
    /\ sub = [d \in Owners |-> NoManager]

Is(d, phase) == sub[d] # NoManager /\ sub[d].phase = phase

Served(k) == k \in DuckKinds => api[k].live

Current(k) ==
    [synced |-> TRUE, holds |-> IF k \in SharedKinds THEN 0 ELSE api[k].incarnation]

Added(i) == IF i = NoInformer THEN [synced |-> FALSE, holds |-> 0] ELSE i

Synced(i) == i # NoInformer /\ i.synced

-----------------------------------------------------------------------------
(* The API server.                                                         *)

Define(k) ==
    /\ ~api[k].live /\ api[k].incarnation < MaxIncarnations
    /\ api' = [api EXCEPT ![k] = [live |-> TRUE, incarnation |-> @.incarnation + 1]]
    /\ UNCHANGED <<shared, sub>>

Undefine(k) ==
    /\ api[k].live
    /\ api' = [api EXCEPT ![k].live = FALSE]
    /\ UNCHANGED <<shared, sub>>

\* An informer lists its kind, the first time or once more after its watch ended.
SyncShared(k) ==
    /\ shared[k] \notin {NoInformer, Current(k)} /\ Served(k)
    /\ shared' = [shared EXCEPT ![k] = Current(k)]
    /\ UNCHANGED <<api, sub>>

SyncLocal(d, k) ==
    /\ sub[d] # NoManager /\ sub[d].phase # "failed"
    /\ sub[d].local[k] \notin {NoInformer, Current(k)} /\ Served(k)
    /\ sub' = [sub EXCEPT ![d].local[k] = Current(k)]
    /\ UNCHANGED <<api, shared>>

-----------------------------------------------------------------------------
(* Sub-managers.                                                           *)

IsLocal(d, k) == k \in sub[d].types

\* Faulty variant of New: the local cache is one that an earlier sub-manager used.
NewWithUsedCache(d, kind, list, types) ==
    /\ sub[d] = NoManager
    /\ sub' = [sub EXCEPT ![d] =
                [phase |-> "starting", kind |-> kind, list |-> list, types |-> types,
                 since |-> IF api[kind].live THEN api[kind].incarnation
                           ELSE api[kind].incarnation + 1,
                 read |-> 0,
                 local |-> [k \in Kinds |-> IF k = kind /\ api[k].incarnation > 0
                                            THEN Current(k) ELSE NoInformer]]]
    /\ UNCHANGED <<api, shared>>

\* New and the goroutine that starts what it made.
New(d, kind, list, types) ==
    /\ sub[d] = NoManager
    /\ sub' = [sub EXCEPT ![d] =
                [phase |-> "starting", kind |-> kind, list |-> list, types |-> types,
                 since |-> IF api[kind].live THEN api[kind].incarnation
                           ELSE api[kind].incarnation + 1,
                 read |-> 0, local |-> [k \in Kinds |-> NoInformer]]]
    /\ UNCHANGED <<api, shared>>

\* Informers that are asked for later are waited for by those who ask.
WaitForCacheSync(d) ==
    /\ Is(d, "starting")
    /\ \A k \in Kinds : shared[k] # NoInformer => Synced(shared[k])
    /\ \A k \in Kinds : sub[d].local[k] # NoInformer => Synced(sub[d].local[k])
    /\ sub' = [sub EXCEPT ![d].phase = "started"]
    /\ UNCHANGED <<api, shared>>

\* What the Duck controller watches.
Watched(d) == {sub[d].kind} \cup SharedKinds

InformerOf(d, k) == IF IsLocal(d, k) THEN sub[d].local[k] ELSE shared[k]

\* Faulty variant of GetInformer: the manager's cache is asked for every kind.
GetInformerOfBoth(d) ==
    /\ Is(d, "started")
    /\ shared' = [k \in Kinds |-> IF k \in Watched(d) THEN Added(shared[k]) ELSE shared[k]]
    /\ sub' = [sub EXCEPT
                ![d].phase = "watching",
                ![d].local = [k \in Kinds |-> IF k \in Watched(d) /\ IsLocal(d, k)
                                              THEN Added(@[k]) ELSE @[k]]]
    /\ UNCHANGED api

\* The controller starts its sources, each of which asks for its informer.
GetInformer(d) ==
    /\ Is(d, "started")
    /\ shared' = [k \in Kinds |-> IF k \in Watched(d) /\ ~IsLocal(d, k)
                                  THEN Added(shared[k]) ELSE shared[k]]
    /\ sub' = [sub EXCEPT
                ![d].phase = "watching",
                ![d].local = [k \in Kinds |-> IF k \in Watched(d) /\ IsLocal(d, k)
                                              THEN Added(@[k]) ELSE @[k]]]
    /\ UNCHANGED api

Run(d) ==
    /\ Is(d, "watching")
    /\ \A k \in Watched(d) : Synced(InformerOf(d, k))
    /\ sub' = [sub EXCEPT ![d].phase = "running"]
    /\ UNCHANGED <<api, shared>>

\* A kind is not served for as long as a source waits, and the manager gives up.
SyncTimeout(d) ==
    /\ Is(d, "watching")
    /\ \E k \in Watched(d) : ~Synced(InformerOf(d, k)) /\ ~Served(k)
    /\ sub' = [sub EXCEPT ![d].phase = "failed"]
    /\ UNCHANGED <<api, shared>>

\* A read of Ducks through kind or list kind k.  The manager's cache makes the
\* informer it lacks; the sub-manager's own refuses the read.
Read(d, k) ==
    LET i == IF IsLocal(d, k) THEN sub[d].local[sub[d].kind] ELSE shared[sub[d].kind]
    IN  /\ Is(d, "running")
        /\ sub' = [sub EXCEPT ![d].read = IF Synced(i) /\ (@ = 0 \/ i.holds < @)
                                           THEN i.holds ELSE @]
        /\ shared' = IF IsLocal(d, k) THEN shared
                     ELSE [shared EXCEPT ![sub[d].kind] = Added(@)]
        /\ UNCHANGED api

Get(d) == Read(d, sub[d].kind)

List(d) == Read(d, sub[d].list)

\* The context is cancelled: what the sub-manager started ends, and nothing else.
Stop(d) ==
    /\ sub' = [sub EXCEPT ![d] = NoManager]
    /\ UNCHANGED <<api, shared>>

\* The process ends.
LoseCaches ==
    /\ shared' = [k \in Kinds |-> NoInformer]
    /\ sub' = [d \in Owners |-> NoManager]
    /\ UNCHANGED api

=============================================================================
