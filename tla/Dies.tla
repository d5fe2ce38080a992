-------------------------------- MODULE Dies --------------------------------
(***************************************************************************)
(* Who may write to what memory: the resources of the API, their deep      *)
(* copies (api/v1/zz_generated.deepcopy.go) and the dies that build them   *)
(* (api/v1/zz_generated.die.go).  A resource is a Go value; what counts of *)
(* it are the parts that refer to memory other values may refer to as well *)
(* (labels, conditions).  An immutable die promises that the die itself    *)
(* never changes, a seal that it stays what it was, an informer's store    *)
(* that its objects do.  All three rest on copying in the right places.    *)
(*                                                                         *)
(* The dies of Duck and DuckType, their specs and statuses are generated   *)
(* from one template; a die here is any of them.  A callback keeps nothing *)
(* of what it is passed.                                                   *)
(***************************************************************************)
EXTENDS Naturals

CONSTANTS
    Parts,   \* fields of a resource that refer to memory
    Cells,   \* pieces of memory
    Values,  \* what a piece may hold
    Nil,     \* refers to no memory
    Dies,    \* variables of a program that hold dies
    Vars     \* variables of a program that hold resources

\* TypeMeta and Spec hold nothing but strings.
ASSUME DiesAssumption ==
    /\ Nil \notin Cells
    /\ Parts \subseteq {"ObjectMeta", "Status"}

VARIABLES
    heap,   \* contents of the memory
    die,    \* the dies
    held,   \* the resources that the program holds, and may write to
    cached, \* a resource in the store of an informer
    given   \* history: memory of its own that the program put into immutable dies

vars == <<heap, die, held, cached, given>>

Resource == [Parts -> Cells \cup {Nil}]

Die == [mutable : BOOLEAN, r : Resource, seal : Resource]

Memory(r) == {r[p] : p \in Parts} \ {Nil}

\* Nothing refers to the rest; the garbage collector hands it out again.
Used ==
    Memory(cached) \cup (UNION {Memory(held[v]) : v \in Vars})
      \cup (UNION {Memory(die[d].r) \cup Memory(die[d].seal) : d \in Dies})

Free == Cells \ Used

Blank == [p \in Parts |-> Nil]

\* A program begins with blank dies, such as DuckBlank, and empty resources.
Init ==
    /\ heap \in [Cells -> Values]
    /\ die = [d \in Dies |-> [mutable |-> FALSE, r |-> Blank, seal |-> Blank]]
    /\ held = [v \in Vars |-> Blank]
    /\ cached = Blank
    /\ given = {}

-----------------------------------------------------------------------------
(* Deep copies.                                                            *)

\* Part p of c is in fresh memory and apart from the others, or nil if that of r is.
Anew(c, r, p) ==
    /\ c[p] = Nil <=> r[p] = Nil
    /\ c[p] # Nil => c[p] \in Free /\ \A q \in Parts \ {p} : c[p] # c[q]

\* Resources in fresh memory that are nil where r is.
Fresh(r) == {c \in Resource : \A p \in Parts : Anew(c, r, p)}

\* Faulty variant of DeepCopyInto: the status is not copied.
DeepCopyIntoButStatus(r) ==
    {c \in Resource : \A p \in Parts :
        IF p = "ObjectMeta" THEN Anew(c, r, p) ELSE c[p] = r[p]}

\* The assignment *out = *in shares all memory; two fields have a DeepCopyInto of their
\* own, which replaces what was assigned.
DeepCopyInto(r) ==
    {c \in Resource : \A p \in Parts :
        IF p \in {"ObjectMeta", "Status"} THEN Anew(c, r, p) ELSE c[p] = r[p]}

\* The memory once r is copied to c.
Copied(c, r) ==
    [x \in Cells |-> IF x \in Memory(c) THEN heap[r[CHOOSE p \in Parts : c[p] = x]]
                     ELSE heap[x]]

\* What DeepCopy may return.
DeepCopies(r) == {[r |-> c, heap |-> Copied(c, r)] : c \in DeepCopyInto(r)}

\* What a callback may make of resource r in memory h: it writes to the memory of a
\* part (ConditionDie finds the condition),
Written(r, h) ==
    {[r |-> r, heap |-> [h EXCEPT ![r[p]] = x], given |-> {}] :
        p \in {p \in Parts : r[p] # Nil}, x \in Values}

\* makes a part anew (ConditionDie appends, InitializeConditions),
Renewed(r, h) ==
    {[r |-> [r EXCEPT ![p] = c], heap |-> [h EXCEPT ![c] = x], given |-> {}] :
        p \in Parts, c \in Free \ Memory(r), x \in Values}

\* or gives it memory that the program holds already (Metadata, Status, Conditions).
Assigned(r, h) ==
    {[r |-> [r EXCEPT ![p] = held[v][p]], heap |-> h, given |-> {held[v][p]} \ {Nil}] :
        p \in Parts, v \in Vars}

Changes(r, h) == Written(r, h) \cup Renewed(r, h) \cup Assigned(r, h)

-----------------------------------------------------------------------------
(* The operations of a die.  A mutable die is changed and returned; of an  *)
(* immutable one a new die is returned, which the program puts in t.       *)

\* Memory that is handed out again is nobody's.
Kept == given \ Free

\* What the program puts into a die stays its own, which matters if the die is immutable.
Handed(d, memory) == IF die[d].mutable THEN {} ELSE memory

Returned(d, t) == die[d].mutable => t = d

DieFeed(d, v, t) ==
    /\ Returned(d, t)
    /\ die' = [die EXCEPT ![t] = [die[d] EXCEPT !.r = held[v]]]
    /\ given' = Kept \cup Handed(d, Memory(held[v]))
    /\ UNCHANGED <<heap, held, cached>>

\* DieFeedJSON, DieFeedYAML and others: the resource is decoded to fresh memory.
DieFeedJSON(d, t) ==
    /\ Returned(d, t)
    /\ \E r \in Resource : \E c \in Fresh(r) : \E h \in [Memory(c) -> Values] :
        /\ die' = [die EXCEPT ![t] = [die[d] EXCEPT !.r = c]]
        /\ heap' = [x \in Cells |-> IF x \in Memory(c) THEN h[x] ELSE heap[x]]
    /\ given' = Kept
    /\ UNCHANGED <<held, cached>>

\* Into an immutable die nothing is decoded.
UnmarshalJSON(d) == die[d].mutable /\ DieFeedJSON(d, d)

\* Faulty variant of Released: of an immutable die no copy is made either.
ReleasedAsIs(x) == {[r |-> x.r, heap |-> heap]}

\* What DieRelease may return of die x.
Released(x) == IF x.mutable THEN {[r |-> x.r, heap |-> heap]} ELSE DeepCopies(x.r)

DieRelease(d, v) ==
    /\ \E c \in Released(die[d]) :
        /\ held' = [held EXCEPT ![v] = c.r]
        /\ heap' = c.heap
    /\ given' = Kept
    /\ UNCHANGED <<die, cached>>

\* DieStamp, and the methods that stamp one field or one nested die.
DieStamp(d, t) ==
    /\ Returned(d, t)
    /\ \E c \in Released(die[d]) : \E o \in Changes(c.r, c.heap) :
        /\ die' = [die EXCEPT ![t] = [die[d] EXCEPT !.r = o.r]]
        /\ heap' = o.heap
        /\ given' = Kept \cup Handed(d, o.given)
    /\ UNCHANGED <<held, cached>>

\* The callback gets a mutable die of a copy, of a mutable die as well.
DieWith(d, t) ==
    /\ Returned(d, t)
    /\ \E c \in DeepCopies(die[d].r) : \E o \in Changes(c.r, c.heap) :
        /\ die' = [die EXCEPT ![t] = [die[d] EXCEPT !.r = o.r]]
        /\ heap' = o.heap
        /\ given' = Kept \cup Handed(d, o.given)
    /\ UNCHANGED <<held, cached>>

\* DeepCopy with the other mutability, if m is the other.
DieCopy(d, t, m) ==
    /\ \E c \in DeepCopies(die[d].r) :
        /\ die' = [die EXCEPT ![t] = [die[d] EXCEPT !.mutable = m, !.r = c.r]]
        /\ heap' = c.heap
    /\ given' = Kept
    /\ UNCHANGED <<held, cached>>

DeepCopy(d, t) == DieCopy(d, t, die[d].mutable)

\* Of a die that is as asked for already, DieImmutable returns the die itself.
DieImmutable(d, t) == DieCopy(d, t, ~die[d].mutable)

\* Faulty variant of DieSealFeed: the resource is not copied.
DieSealFeedAsIs(d, t, sealed) ==
    /\ Returned(d, t)
    /\ \E c \in Released(die[d]) :
        /\ die' = [die EXCEPT ![t] = [die[d] EXCEPT !.r = c.r, !.seal = sealed]]
        /\ heap' = c.heap
    /\ given' = Kept
    /\ UNCHANGED <<held, cached>>

\* The sealed resource is that of the die itself, or one the program holds.
DieSealFeed(d, t, sealed) ==
    /\ Returned(d, t)
    /\ \E c \in Released(die[d]) : \E s \in DeepCopyInto(sealed) :
        /\ Memory(s) \cap Memory(c.r) = {}
        /\ die' = [die EXCEPT ![t] = [die[d] EXCEPT !.r = c.r, !.seal = s]]
        /\ heap' = [x \in Cells |-> IF x \in Memory(s) THEN Copied(s, sealed)[x] ELSE c.heap[x]]
    /\ given' = Kept
    /\ UNCHANGED <<held, cached>>

DieSeal(d, t) == DieSealFeed(d, t, die[d].r)

\* What a die holds or is sealed with is handed out in fresh memory.  So is what is
\* released as JSON, YAML or an unstructured object.
HandOut(r, v) ==
    /\ \E c \in DeepCopies(r) : held' = [held EXCEPT ![v] = c.r] /\ heap' = c.heap
    /\ given' = Kept
    /\ UNCHANGED <<die, cached>>

DeepCopyObject(d, v) == HandOut(die[d].r, v)

DieSealRelease(d, v) == HandOut(die[d].seal, v)

-----------------------------------------------------------------------------
(* The program and the informer.                                           *)

\* What is read from the store of an informer is a copy (DeepCopyObject).
ReadCached(v) == HandOut(cached, v)

\* The program writes to a resource it holds or makes a new part.
Write(v) ==
    /\ \E o \in Changes(held[v], heap) :
        /\ held' = [held EXCEPT ![v] = o.r]
        /\ heap' = o.heap
    /\ given' = Kept
    /\ UNCHANGED <<die, cached>>

\* The informer gets another version of the object.
UpdateCached ==
    /\ \E r \in Resource : \E c \in Fresh(r) : \E h \in [Memory(c) -> Values] :
        /\ cached' = c
        /\ heap' = [x \in Cells |-> IF x \in Memory(c) THEN h[x] ELSE heap[x]]
    /\ given' = Kept
    /\ UNCHANGED <<die, held>>

Next ==
    \/ \E d, t \in Dies :
        \/ \E v \in Vars : DieFeed(d, v, t) \/ DieSealFeed(d, t, held[v])
        \/ DieFeedJSON(d, t) \/ DieStamp(d, t) \/ DieWith(d, t)
        \/ DeepCopy(d, t) \/ DieImmutable(d, t) \/ DieSeal(d, t)
    \/ \E d \in Dies : \/ UnmarshalJSON(d)
                       \/ \E v \in Vars : \/ DieRelease(d, v) \/ DeepCopyObject(d, v)
                                          \/ DieSealRelease(d, v)
    \/ \E v \in Vars : ReadCached(v) \/ Write(v)
    \/ UpdateCached

Spec == Init /\ [][Next]_vars

-----------------------------------------------------------------------------

\* All variables hold what the code may put there.
TypeOK ==
    /\ heap \in [Cells -> Values]
    /\ die \in [Dies -> Die]
    /\ held \in [Vars -> Resource]
    /\ cached \in Resource
    /\ given \subseteq Cells

\* Memory that a program or a mutable die may write to.
Writable ==
    (UNION {Memory(held[v]) : v \in Vars})
      \cup (UNION {Memory(die[d].r) : d \in {d \in Dies : die[d].mutable}})

\* Nothing that may be written to is sealed or in the store of an informer, and of
\* what is in an immutable die only memory the program fed to one itself.
Ownership ==
    /\ \A d \in Dies : Memory(die[d].seal) \cap Writable = {}
    /\ Memory(cached) \cap Writable = {}
    /\ \A d \in Dies : ~die[d].mutable => Memory(die[d].r) \cap Writable \subseteq given

\* A step leaves what r refers to.
Unchanged(r) == \A p \in Parts : r[p] # Nil => heap'[r[p]] = heap[r[p]]

\* An immutable die says what it said for as long as the program has it, whatever is
\* done to dies made from it, to resources released from it and to resources it was
\* made from, unless the program writes to memory that it fed to the die itself
\* (DieFeed keeps the resource it is given, DieStamp what the callback assigns).
ImmutableDiesStay ==
    [][\A d \in Dies : ~die[d].mutable /\ die'[d] = die[d] =>
        \A p \in Parts : die[d].r[p] \notin given \cup {Nil} =>
            heap'[die[d].r[p]] = heap[die[d].r[p]]]_vars

\* What a die is sealed with never changes, for mutable dies as well and whatever
\* was written to the resource it was sealed with (DieSealFeed, DieSealRelease).
SealsStay ==
    [][\A d \in Dies : die'[d].seal = die[d].seal => Unchanged(die[d].seal)]_vars

\* Readers of the store of an informer write to what they read, feed it to dies and
\* release it again: none of them changes the object in the store, since DeepCopyInto
\* leaves no field that refers to memory as the assignment *out = *in made it.
CachedStays == [][cached' = cached => Unchanged(cached)]_vars

=============================================================================
