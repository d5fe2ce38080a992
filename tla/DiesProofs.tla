----------------------------- MODULE DiesProofs -----------------------------
(***************************************************************************)
(* Proofs about Dies: the ownership of memory is an inductive invariant,   *)
(* and what no one may write to stays.                                     *)
(***************************************************************************)
EXTENDS Dies, TLAPS

IInv == TypeOK /\ Ownership

\* The memory of a resource: none of it is Nil, all of it is a cell.
LEMMA MemoryLemma ==
    ASSUME NEW r \in Resource
    PROVE  /\ Memory(r) \subseteq Cells
           /\ \A p \in Parts : r[p] # Nil => r[p] \in Memory(r)
  BY DiesAssumption DEF Memory, Resource

\* What a variable, a die or the store refers to is in use.
LEMMA UsedLemma ==
    /\ Memory(cached) \subseteq Used
    /\ \A v \in Vars : Memory(held[v]) \subseteq Used
    /\ \A d \in Dies : Memory(die[d].r) \subseteq Used /\ Memory(die[d].seal) \subseteq Used
  BY DEF Used

\* Who may write to a cell.
LEMMA WritableLemma ==
    \A x : x \in Writable <=> \/ \E v \in Vars : x \in Memory(held[v])
                              \/ \E d \in Dies : die[d].mutable /\ x \in Memory(die[d].r)
  BY DEF Writable

\* The same after a step.
LEMMA WritablePrime ==
    \A x : x \in Writable' <=> \/ \E v \in Vars : x \in Memory(held'[v])
                               \/ \E d \in Dies : die'[d].mutable /\ x \in Memory(die'[d].r)
  BY DEF Writable, Memory

\* All that may be written to is in use.
LEMMA WritableUsed == Writable \subseteq Used
  BY WritableLemma, UsedLemma

\* A resource in fresh memory is a resource, and was nobody's.
LEMMA FreshLemma ==
    ASSUME NEW r \in Resource, NEW c \in Fresh(r)
    PROVE  c \in Resource /\ Memory(c) \subseteq Free
  BY DEF Fresh, Anew, Memory

\* DeepCopyInto leaves no memory of the original: the fields that refer to memory are
\* those it copies.
LEMMA DeepCopyIntoFresh ==
    ASSUME NEW r \in Resource
    PROVE  DeepCopyInto(r) \subseteq Fresh(r)
  BY DiesAssumption DEF DeepCopyInto, Fresh

\* Copying to fresh memory changes no memory in use.
LEMMA CopiedLemma ==
    ASSUME heap \in [Cells -> Values], NEW r \in Resource, NEW c \in Fresh(r)
    PROVE  /\ Copied(c, r) \in [Cells -> Values]
           /\ \A x \in Cells \ Free : Copied(c, r)[x] = heap[x]
  <1>1. ASSUME NEW x \in Cells, x \in Memory(c)
        PROVE  heap[r[CHOOSE p \in Parts : c[p] = x]] \in Values
    <2> DEFINE q == CHOOSE p \in Parts : c[p] = x
    <2>1. \E p \in Parts : c[p] = x
      BY <1>1 DEF Memory
    <2>2. q \in Parts /\ c[q] = x
      BY <2>1
    <2>3. c[q] # Nil
      BY <2>2, <1>1, DiesAssumption
    <2>4. r[q] # Nil
      BY <2>2, <2>3 DEF Fresh, Anew
    <2>5. r[q] \in Cells
      BY <2>2, <2>4 DEF Resource
    <2> QED BY <2>5
  <1>2. Copied(c, r) \in [Cells -> Values]
    BY <1>1 DEF Copied
  <1>3. ASSUME NEW x \in Cells \ Free PROVE Copied(c, r)[x] = heap[x]
    BY FreshLemma DEF Copied
  <1> QED BY <1>2, <1>3

\* What DeepCopy returns.
LEMMA DeepCopiesLemma ==
    ASSUME heap \in [Cells -> Values], NEW r \in Resource, NEW o \in DeepCopies(r)
    PROVE  /\ o.r \in Resource /\ Memory(o.r) \subseteq Free
           /\ o.heap \in [Cells -> Values]
           /\ \A x \in Cells \ Free : o.heap[x] = heap[x]
  <1>1. PICK c \in DeepCopyInto(r) : o = [r |-> c, heap |-> Copied(c, r)]
    BY DEF DeepCopies
  <1>2. c \in Fresh(r)
    BY DeepCopyIntoFresh
  <1> QED BY <1>1, <1>2, FreshLemma, CopiedLemma

\* What DieRelease returns: the memory of the die if that is mutable, else fresh memory.
LEMMA ReleasedLemma ==
    ASSUME TypeOK, NEW d \in Dies, NEW o \in Released(die[d])
    PROVE  /\ o.r \in Resource
           /\ die[d].mutable => o.r = die[d].r /\ Memory(o.r) \subseteq Writable
           /\ ~die[d].mutable => Memory(o.r) \subseteq Free
           /\ o.heap \in [Cells -> Values]
           /\ \A x \in Cells \ Free : o.heap[x] = heap[x]
  <1>1. die[d] \in Die /\ heap \in [Cells -> Values]
    BY DEF TypeOK
  <1>2. CASE die[d].mutable
    <2>1. o = [r |-> die[d].r, heap |-> heap]
      BY <1>2 DEF Released
    <2>2. Memory(die[d].r) \subseteq Writable
      BY <1>2, WritableLemma
    <2> QED BY <1>1, <1>2, <2>1, <2>2 DEF Die
  <1>3. CASE ~die[d].mutable
    <2>1. o \in DeepCopies(die[d].r)
      BY <1>3 DEF Released
    <2> QED BY <1>1, <1>3, <2>1, DeepCopiesLemma DEF Die
  <1> QED BY <1>2, <1>3

\* What a callback may write to and refer to.
LEMMA ChangesLemma ==
    ASSUME TypeOK, NEW r \in Resource, NEW h \in [Cells -> Values], NEW o \in Changes(r, h)
    PROVE  /\ o.r \in Resource /\ o.heap \in [Cells -> Values]
           /\ o.given \subseteq Cells
           /\ \A x \in o.given : \E v \in Vars : x \in Memory(held[v])
           /\ Memory(o.r) \subseteq Memory(r) \cup Free \cup o.given
           /\ \A x \in Cells : x \notin Memory(r) \cup Free => o.heap[x] = h[x]
  <1>1. CASE o \in Written(r, h)
    <2>1. PICK p \in {p \in Parts : r[p] # Nil}, x \in Values :
            o = [r |-> r, heap |-> [h EXCEPT ![r[p]] = x], given |-> {}]
      BY <1>1 DEF Written
    <2>2. r[p] \in Memory(r) /\ r[p] \in Cells
      BY <2>1, MemoryLemma
    <2> QED BY <2>1, <2>2
  <1>2. CASE o \in Renewed(r, h)
    <2>1. PICK p \in Parts, c \in Free \ Memory(r), x \in Values :
            o = [r |-> [r EXCEPT ![p] = c], heap |-> [h EXCEPT ![c] = x], given |-> {}]
      BY <1>2 DEF Renewed
    <2>2. c \in Cells /\ [r EXCEPT ![p] = c] \in Resource
      BY <2>1 DEF Free, Resource
    <2>3. Memory([r EXCEPT ![p] = c]) \subseteq Memory(r) \cup {c}
      BY <2>1 DEF Memory, Resource
    <2> QED BY <2>1, <2>2, <2>3
  <1>3. CASE o \in Assigned(r, h)
    <2>1. PICK p \in Parts, v \in Vars :
            o = [r |-> [r EXCEPT ![p] = held[v][p]], heap |-> h,
                 given |-> {held[v][p]} \ {Nil}]
      BY <1>3 DEF Assigned
    <2>2. held[v] \in Resource
      BY DEF TypeOK
    <2>3. held[v][p] \in Cells \cup {Nil} /\ (held[v][p] # Nil => held[v][p] \in Memory(held[v]))
      BY <2>2, MemoryLemma DEF Resource
    <2>4. [r EXCEPT ![p] = held[v][p]] \in Resource
      BY <2>3 DEF Resource
    <2>5. Memory([r EXCEPT ![p] = held[v][p]]) \subseteq Memory(r) \cup ({held[v][p]} \ {Nil})
      BY DEF Memory, Resource
    <2> QED BY <2>1, <2>3, <2>4, <2>5
  <1> QED BY <1>1, <1>2, <1>3 DEF Changes

-----------------------------------------------------------------------------
(* What keeps ownership.                                                   *)

\* A die that refers to fresh memory, and as far as it is mutable to memory that may
\* be written to anyway, and as far as it is not to memory the program gave.
LEMMA DieSlot ==
    ASSUME IInv, NEW t \in Dies, NEW n \in Die,
           die' = [die EXCEPT ![t] = n], held' = held, cached' = cached, Kept \subseteq given',
           n.mutable => Memory(n.r) \subseteq Writable \cup Free,
           ~n.mutable => Memory(n.r) \subseteq Free \cup given',
           \A x \in Memory(n.seal) :
                \/ \E e \in Dies : x \in Memory(die[e].seal)
                \/ x \in Free /\ ~(n.mutable /\ x \in Memory(n.r))
    PROVE  Ownership'
  <1>1. die \in [Dies -> Die]
    BY DEF IInv, TypeOK
  <1>2. \A d \in Dies : die'[d] = IF d = t THEN n ELSE die[d]
    BY <1>1
  <1>3. ASSUME NEW x, x \in Writable'
        PROVE  x \in Writable \/ (n.mutable /\ x \in Memory(n.r))
    BY <1>2, <1>3, WritableLemma, WritablePrime
  <1>4. \A x \in Free : x \notin Used
    BY DEF Free
  <1>5. ASSUME NEW d \in Dies, NEW x \in Memory(die'[d].seal), x \in Writable' PROVE FALSE
    <2>1. ASSUME NEW e \in Dies, x \in Memory(die[e].seal) PROVE FALSE
      <3>1. x \notin Writable /\ x \in Used
        BY <2>1, UsedLemma DEF IInv, Ownership
      <3> QED BY <3>1, <1>3, <1>4, <1>5
    <2>2. d = t /\ x \in Free /\ ~(n.mutable /\ x \in Memory(n.r))
      BY <1>2, <1>5, <2>1
    <2> QED BY <1>3, <1>4, <1>5, <2>2, WritableUsed
  <1>6. ASSUME NEW x \in Memory(cached'), x \in Writable' PROVE FALSE
    <2>1. x \notin Writable /\ x \in Used
      BY UsedLemma DEF IInv, Ownership
    <2> QED BY <2>1, <1>3, <1>4, <1>6
  <1>7. ASSUME NEW d \in Dies, ~die'[d].mutable, NEW x \in Memory(die'[d].r), x \in Writable'
        PROVE  x \in given'
    <2>1. CASE d = t
      <3>1. ~n.mutable /\ x \in Memory(n.r)
        BY <1>2, <1>7, <2>1
      <3>2. x \in Writable
        BY <1>3, <1>7, <3>1
      <3> QED BY <1>4, <3>1, <3>2, WritableUsed
    <2>2. CASE d # t
      <3>1. ~die[d].mutable /\ x \in Memory(die[d].r)
        BY <1>2, <1>7, <2>2
      <3>2. x \in Used
        BY <3>1, UsedLemma
      <3>3. x \in Writable
        BY <1>3, <1>4, <1>7, <3>2
      <3>4. x \in given
        BY <3>1, <3>3 DEF IInv, Ownership
      <3> QED BY <1>4, <3>2, <3>4 DEF Kept
    <2> QED BY <2>1, <2>2
  <1>8. (\A d \in Dies : Memory(die[d].seal) \cap Writable = {})'
    BY <1>5 DEF Memory
  <1>9. (Memory(cached) \cap Writable = {})'
    BY <1>6 DEF Memory
  <1>10. (\A d \in Dies : ~die[d].mutable => Memory(die[d].r) \cap Writable \subseteq given)'
    BY <1>7 DEF Memory
  <1> QED BY <1>8, <1>9, <1>10 DEF Ownership

\* A resource that refers to fresh memory and to memory that may be written to anyway.
LEMMA HeldSlot ==
    ASSUME IInv, NEW v \in Vars, NEW r \in Resource,
           held' = [held EXCEPT ![v] = r], die' = die, cached' = cached, given' = Kept,
           Memory(r) \subseteq Writable \cup Free
    PROVE  Ownership'
  <1>1. held \in [Vars -> Resource]
    BY DEF IInv, TypeOK
  <1>2. \A w \in Vars : held'[w] = IF w = v THEN r ELSE held[w]
    BY <1>1
  <1>3. ASSUME NEW x, x \in Writable' PROVE x \in Writable \cup Free
    BY <1>2, <1>3, WritableLemma, WritablePrime
  <1>4. ASSUME NEW x \in Used, x \in Writable' PROVE x \in Writable
    BY <1>3, <1>4 DEF Free
  <1>5. (\A d \in Dies : Memory(die[d].seal) \cap Writable = {})'
    BY <1>4, UsedLemma DEF IInv, Ownership, Memory
  <1>6. (Memory(cached) \cap Writable = {})'
    BY <1>4, UsedLemma DEF IInv, Ownership, Memory
  <1>7. ASSUME NEW d \in Dies, ~die[d].mutable, NEW x \in Memory(die[d].r), x \in Writable'
        PROVE  x \in Kept
    BY <1>4, <1>7, UsedLemma DEF IInv, Ownership, Kept, Free
  <1>8. (\A d \in Dies : ~die[d].mutable => Memory(die[d].r) \cap Writable \subseteq given)'
    BY <1>7 DEF Memory
  <1> QED BY <1>5, <1>6, <1>8 DEF Ownership

-----------------------------------------------------------------------------
(* The steps.                                                              *)

\* A step writes to fresh memory and to memory that may be written to.
Frame == \A x \in Cells : x \notin Writable \cup Free => heap'[x] = heap[x]

\* Types after a step that changes one die.
LEMMA DieTypes ==
    ASSUME TypeOK, NEW t \in Dies, NEW n \in Die, die' = [die EXCEPT ![t] = n],
           held' = held, cached' = cached, heap' \in [Cells -> Values], given' \subseteq Cells
    PROVE  TypeOK'
  BY DEF TypeOK

\* DieFeed: the die shares the memory of the resource, which is given.
LEMMA DieFeedStep ==
    ASSUME IInv, NEW d \in Dies, NEW t \in Dies, NEW v \in Vars, DieFeed(d, v, t)
    PROVE  TypeOK' /\ Ownership' /\ Frame
  <1> DEFINE n == [die[d] EXCEPT !.r = held[v]]
  <1>1. die[d] \in Die /\ held[v] \in Resource /\ given \subseteq Cells
    BY DEF IInv, TypeOK
  <1>2. n \in Die /\ n.mutable = die[d].mutable /\ n.r = held[v] /\ n.seal = die[d].seal
    BY <1>1 DEF Die
  <1>3. Kept \subseteq given' /\ given' \subseteq Cells
    BY <1>1, MemoryLemma DEF DieFeed, Kept, Handed
  <1>4. Memory(n.r) \subseteq Writable
    BY <1>2, WritableLemma
  <1>5. ~n.mutable => Memory(n.r) \subseteq given'
    BY <1>2 DEF DieFeed, Handed
  <1>6. die' = [die EXCEPT ![t] = n] /\ held' = held /\ cached' = cached /\ heap' = heap
    BY DEF DieFeed
  <1>7. Ownership'
    <2> HIDE DEF n
    <2> QED BY <1>2, <1>3, <1>4, <1>5, <1>6, DieSlot
  <1>8. TypeOK'
    <2> HIDE DEF n
    <2> QED BY <1>2, <1>3, <1>6, DieTypes DEF IInv, TypeOK
  <1> QED BY <1>6, <1>7, <1>8 DEF Frame

\* DieFeedJSON and UnmarshalJSON: the die gets fresh memory.
LEMMA DieFeedJSONStep ==
    ASSUME IInv, NEW d \in Dies, NEW t \in Dies, DieFeedJSON(d, t)
    PROVE  TypeOK' /\ Ownership' /\ Frame
  <1>1. PICK r \in Resource : \E c \in Fresh(r) : \E h \in [Memory(c) -> Values] :
          /\ die' = [die EXCEPT ![t] = [die[d] EXCEPT !.r = c]]
          /\ heap' = [x \in Cells |-> IF x \in Memory(c) THEN h[x] ELSE heap[x]]
    BY DEF DieFeedJSON
  <1>2. PICK c \in Fresh(r) : \E h \in [Memory(c) -> Values] :
          /\ die' = [die EXCEPT ![t] = [die[d] EXCEPT !.r = c]]
          /\ heap' = [x \in Cells |-> IF x \in Memory(c) THEN h[x] ELSE heap[x]]
    BY <1>1
  <1>3. PICK h \in [Memory(c) -> Values] :
          /\ die' = [die EXCEPT ![t] = [die[d] EXCEPT !.r = c]]
          /\ heap' = [x \in Cells |-> IF x \in Memory(c) THEN h[x] ELSE heap[x]]
    BY <1>2
  <1> DEFINE n == [die[d] EXCEPT !.r = c]
  <1>4. c \in Resource /\ Memory(c) \subseteq Free
    BY FreshLemma
  <1>5. die[d] \in Die /\ given \subseteq Cells /\ heap \in [Cells -> Values]
    BY DEF IInv, TypeOK
  <1>6. n \in Die /\ n.r = c /\ n.seal = die[d].seal
    BY <1>4, <1>5 DEF Die
  <1>7. given' = Kept /\ held' = held /\ cached' = cached /\ Kept \subseteq Cells
    BY <1>5 DEF DieFeedJSON, Kept
  <1>8. heap' \in [Cells -> Values] /\ Frame
    BY <1>3, <1>4, <1>5 DEF Frame
  <1>9. die' = [die EXCEPT ![t] = n]
    BY <1>3
  <1> HIDE DEF n
  <1>10. Ownership'
    BY <1>4, <1>6, <1>7, <1>9, DieSlot
  <1>11. TypeOK'
    BY <1>6, <1>7, <1>8, <1>9, DieTypes DEF IInv
  <1> QED BY <1>8, <1>10, <1>11

\* The part that DieStamp and DieWith share: a callback changes resource c.r.
LEMMA ChangedStep ==
    ASSUME IInv, NEW d \in Dies, NEW t \in Dies, NEW r \in Resource, NEW h \in [Cells -> Values],
           \A x \in Cells \ Free : h[x] = heap[x],
           die[d].mutable => Memory(r) \subseteq Writable \cup Free,
           ~die[d].mutable => Memory(r) \subseteq Free,
           NEW o \in Changes(r, h),
           die' = [die EXCEPT ![t] = [die[d] EXCEPT !.r = o.r]], heap' = o.heap,
           given' = Kept \cup Handed(d, o.given), held' = held, cached' = cached
    PROVE  TypeOK' /\ Ownership' /\ Frame
  <1> DEFINE n == [die[d] EXCEPT !.r = o.r]
  <1>1. die[d] \in Die /\ given \subseteq Cells /\ TypeOK
    BY DEF IInv, TypeOK
  <1>2. /\ o.r \in Resource /\ o.heap \in [Cells -> Values] /\ o.given \subseteq Cells
        /\ \A x \in o.given : \E v \in Vars : x \in Memory(held[v])
        /\ Memory(o.r) \subseteq Memory(r) \cup Free \cup o.given
        /\ \A x \in Cells : x \notin Memory(r) \cup Free => o.heap[x] = h[x]
    BY <1>1, ChangesLemma
  <1>3. n \in Die /\ n.mutable = die[d].mutable /\ n.r = o.r /\ n.seal = die[d].seal
    BY <1>1, <1>2 DEF Die
  <1>4. Kept \subseteq given' /\ given' \subseteq Cells
    BY <1>1, <1>2 DEF Kept, Handed
  <1>5. o.given \subseteq Writable
    BY <1>2, WritableLemma
  <1>6. n.mutable => Memory(n.r) \subseteq Writable \cup Free
    BY <1>2, <1>3, <1>5
  <1>7. ~n.mutable => Memory(n.r) \subseteq Free \cup given'
    BY <1>2, <1>3 DEF Handed
  <1>8. die' = [die EXCEPT ![t] = n]
    OBVIOUS
  <1> HIDE DEF n
  <1>9. Ownership'
    BY <1>3, <1>4, <1>6, <1>7, <1>8, DieSlot, ZenonT(60)
  <1>10. TypeOK'
    BY <1>1, <1>2, <1>3, <1>4, <1>8, DieTypes, ZenonT(60)
  <1>11. Frame
    BY <1>2 DEF Frame
  <1> QED BY <1>9, <1>10, <1>11

\* DieStamp: of an immutable die the callback gets a copy.
LEMMA DieStampStep ==
    ASSUME IInv, NEW d \in Dies, NEW t \in Dies, DieStamp(d, t)
    PROVE  TypeOK' /\ Ownership' /\ Frame
  <1>1. PICK c \in Released(die[d]) : \E o \in Changes(c.r, c.heap) :
          /\ die' = [die EXCEPT ![t] = [die[d] EXCEPT !.r = o.r]]
          /\ heap' = o.heap
          /\ given' = Kept \cup Handed(d, o.given)
    BY DEF DieStamp
  <1>2. PICK o \in Changes(c.r, c.heap) :
          /\ die' = [die EXCEPT ![t] = [die[d] EXCEPT !.r = o.r]]
          /\ heap' = o.heap
          /\ given' = Kept \cup Handed(d, o.given)
    BY <1>1
  <1>3. held' = held /\ cached' = cached
    BY DEF DieStamp
  <1>4. /\ c.r \in Resource
        /\ die[d].mutable => Memory(c.r) \subseteq Writable
        /\ ~die[d].mutable => Memory(c.r) \subseteq Free
        /\ c.heap \in [Cells -> Values]
        /\ \A x \in Cells \ Free : c.heap[x] = heap[x]
    BY ReleasedLemma DEF IInv
  <1> QED BY <1>2, <1>3, <1>4, ChangedStep

\* DieWith: the callback gets a die of a copy.
LEMMA DieWithStep ==
    ASSUME IInv, NEW d \in Dies, NEW t \in Dies, DieWith(d, t)
    PROVE  TypeOK' /\ Ownership' /\ Frame
  <1>1. PICK c \in DeepCopies(die[d].r) : \E o \in Changes(c.r, c.heap) :
          /\ die' = [die EXCEPT ![t] = [die[d] EXCEPT !.r = o.r]]
          /\ heap' = o.heap
          /\ given' = Kept \cup Handed(d, o.given)
    BY DEF DieWith
  <1>2. PICK o \in Changes(c.r, c.heap) :
          /\ die' = [die EXCEPT ![t] = [die[d] EXCEPT !.r = o.r]]
          /\ heap' = o.heap
          /\ given' = Kept \cup Handed(d, o.given)
    BY <1>1
  <1>3. held' = held /\ cached' = cached
    BY DEF DieWith
  <1>4. die[d].r \in Resource /\ heap \in [Cells -> Values]
    BY DEF IInv, TypeOK, Die
  <1>5. /\ c.r \in Resource /\ Memory(c.r) \subseteq Free
        /\ c.heap \in [Cells -> Values]
        /\ \A x \in Cells \ Free : c.heap[x] = heap[x]
    BY <1>4, DeepCopiesLemma
  <1> QED BY <1>2, <1>3, <1>5, ChangedStep

\* DeepCopy and DieImmutable: the new die shares nothing but the seal.
LEMMA DieCopyStep ==
    ASSUME IInv, NEW d \in Dies, NEW t \in Dies, NEW m \in BOOLEAN, DieCopy(d, t, m)
    PROVE  TypeOK' /\ Ownership' /\ Frame
  <1>1. PICK c \in DeepCopies(die[d].r) :
          /\ die' = [die EXCEPT ![t] = [die[d] EXCEPT !.mutable = m, !.r = c.r]]
          /\ heap' = c.heap
    BY DEF DieCopy
  <1> DEFINE n == [die[d] EXCEPT !.mutable = m, !.r = c.r]
  <1>2. die[d] \in Die /\ heap \in [Cells -> Values] /\ given \subseteq Cells
    BY DEF IInv, TypeOK
  <1>3. /\ c.r \in Resource /\ Memory(c.r) \subseteq Free
        /\ c.heap \in [Cells -> Values]
        /\ \A x \in Cells \ Free : c.heap[x] = heap[x]
    BY <1>2, DeepCopiesLemma DEF Die
  <1>4. n \in Die /\ n.r = c.r /\ n.seal = die[d].seal
    BY <1>2, <1>3 DEF Die
  <1>5. given' = Kept /\ held' = held /\ cached' = cached /\ Kept \subseteq Cells
    BY <1>2 DEF DieCopy, Kept
  <1>6. die' = [die EXCEPT ![t] = n]
    BY <1>1
  <1> HIDE DEF n
  <1>7. Ownership'
    BY <1>3, <1>4, <1>5, <1>6, DieSlot
  <1>8. TypeOK'
    BY <1>1, <1>3, <1>4, <1>5, <1>6, DieTypes DEF IInv
  <1> QED BY <1>1, <1>3, <1>7, <1>8 DEF Frame

\* DieSealFeed: the seal is fresh, so is the rest of a new die.
LEMMA DieSealFeedStep ==
    ASSUME IInv, NEW d \in Dies, NEW t \in Dies, NEW sealed \in Resource,
           DieSealFeed(d, t, sealed)
    PROVE  TypeOK' /\ Ownership' /\ Frame
  <1>1. PICK c \in Released(die[d]) : \E s \in DeepCopyInto(sealed) :
          /\ Memory(s) \cap Memory(c.r) = {}
          /\ die' = [die EXCEPT ![t] = [die[d] EXCEPT !.r = c.r, !.seal = s]]
          /\ heap' = [x \in Cells |-> IF x \in Memory(s) THEN Copied(s, sealed)[x]
                                      ELSE c.heap[x]]
    BY DEF DieSealFeed
  <1>2. PICK s \in DeepCopyInto(sealed) :
          /\ Memory(s) \cap Memory(c.r) = {}
          /\ die' = [die EXCEPT ![t] = [die[d] EXCEPT !.r = c.r, !.seal = s]]
          /\ heap' = [x \in Cells |-> IF x \in Memory(s) THEN Copied(s, sealed)[x]
                                      ELSE c.heap[x]]
    BY <1>1
  <1> DEFINE n == [die[d] EXCEPT !.r = c.r, !.seal = s]
  <1>3. die[d] \in Die /\ heap \in [Cells -> Values] /\ given \subseteq Cells
    BY DEF IInv, TypeOK
  <1>4. /\ c.r \in Resource
        /\ die[d].mutable => Memory(c.r) \subseteq Writable
        /\ ~die[d].mutable => Memory(c.r) \subseteq Free
        /\ c.heap \in [Cells -> Values]
        /\ \A x \in Cells \ Free : c.heap[x] = heap[x]
    BY ReleasedLemma DEF IInv
  <1>5. s \in Resource /\ Memory(s) \subseteq Free /\ Copied(s, sealed) \in [Cells -> Values]
    <2>1. s \in Fresh(sealed)
      BY DeepCopyIntoFresh
    <2> QED BY <1>3, <2>1, FreshLemma, CopiedLemma
  <1>6. n \in Die /\ n.mutable = die[d].mutable /\ n.r = c.r /\ n.seal = s
    BY <1>3, <1>4, <1>5 DEF Die
  <1>7. given' = Kept /\ held' = held /\ cached' = cached /\ Kept \subseteq Cells
    BY <1>3 DEF DieSealFeed, Kept
  <1>8. die' = [die EXCEPT ![t] = n]
    BY <1>2
  <1>9. heap' \in [Cells -> Values] /\ Frame
    BY <1>2, <1>4, <1>5 DEF Frame
  <1> HIDE DEF n
  <1>10. Ownership'
    BY <1>2, <1>4, <1>5, <1>6, <1>7, <1>8, DieSlot
  <1>11. TypeOK'
    BY <1>6, <1>7, <1>8, <1>9, DieTypes DEF IInv
  <1> QED BY <1>9, <1>10, <1>11

\* A step that changes one resource of the program.
LEMMA HeldStep ==
    ASSUME IInv, NEW v \in Vars, NEW r \in Resource, held' = [held EXCEPT ![v] = r],
           die' = die, cached' = cached, given' = Kept, heap' \in [Cells -> Values],
           Memory(r) \subseteq Writable \cup Free
    PROVE  TypeOK' /\ Ownership'
  <1>1. Ownership'
    BY HeldSlot
  <1>2. TypeOK'
    BY DEF IInv, TypeOK, Kept
  <1> QED BY <1>1, <1>2

\* DieRelease: memory of a mutable die may be written to anyway.
LEMMA DieReleaseStep ==
    ASSUME IInv, NEW d \in Dies, NEW v \in Vars, DieRelease(d, v)
    PROVE  TypeOK' /\ Ownership' /\ Frame
  <1>1. PICK c \in Released(die[d]) : held' = [held EXCEPT ![v] = c.r] /\ heap' = c.heap
    BY DEF DieRelease
  <1>2. /\ c.r \in Resource
        /\ die[d].mutable => Memory(c.r) \subseteq Writable
        /\ ~die[d].mutable => Memory(c.r) \subseteq Free
        /\ c.heap \in [Cells -> Values]
        /\ \A x \in Cells \ Free : c.heap[x] = heap[x]
    BY ReleasedLemma DEF IInv
  <1>3. given' = Kept /\ die' = die /\ cached' = cached
    BY DEF DieRelease
  <1> QED BY <1>1, <1>2, <1>3, HeldStep DEF Frame

\* DeepCopyObject, DieSealRelease, ReadCached: fresh memory is handed out.
LEMMA HandOutStep ==
    ASSUME IInv, NEW r \in Resource, NEW v \in Vars, HandOut(r, v)
    PROVE  TypeOK' /\ Ownership' /\ Frame
  <1>1. PICK c \in DeepCopies(r) : held' = [held EXCEPT ![v] = c.r] /\ heap' = c.heap
    BY DEF HandOut
  <1>2. /\ c.r \in Resource /\ Memory(c.r) \subseteq Free
        /\ c.heap \in [Cells -> Values]
        /\ \A x \in Cells \ Free : c.heap[x] = heap[x]
    BY DeepCopiesLemma DEF IInv, TypeOK
  <1>3. given' = Kept /\ die' = die /\ cached' = cached
    BY DEF HandOut
  <1> QED BY <1>1, <1>2, <1>3, HeldStep DEF Frame

\* Write: the program writes to what it holds.
LEMMA WriteStep ==
    ASSUME IInv, NEW v \in Vars, Write(v)
    PROVE  TypeOK' /\ Ownership' /\ Frame
  <1>1. PICK o \in Changes(held[v], heap) : held' = [held EXCEPT ![v] = o.r] /\ heap' = o.heap
    BY DEF Write
  <1>2. held[v] \in Resource /\ heap \in [Cells -> Values] /\ TypeOK
    BY DEF IInv, TypeOK
  <1>3. /\ o.r \in Resource /\ o.heap \in [Cells -> Values]
        /\ \A x \in o.given : \E w \in Vars : x \in Memory(held[w])
        /\ Memory(o.r) \subseteq Memory(held[v]) \cup Free \cup o.given
        /\ \A x \in Cells : x \notin Memory(held[v]) \cup Free => o.heap[x] = heap[x]
    BY <1>2, ChangesLemma
  <1>4. Memory(held[v]) \subseteq Writable /\ o.given \subseteq Writable
    BY <1>3, WritableLemma
  <1>5. given' = Kept /\ die' = die /\ cached' = cached
    BY DEF Write
  <1> QED BY <1>1, <1>3, <1>4, <1>5, HeldStep DEF Frame

\* UpdateCached: the new object is in fresh memory.
LEMMA UpdateCachedStep ==
    ASSUME IInv, UpdateCached
    PROVE  TypeOK' /\ Ownership' /\ Frame
  <1>1. PICK r \in Resource : \E c \in Fresh(r) : \E h \in [Memory(c) -> Values] :
          /\ cached' = c
          /\ heap' = [x \in Cells |-> IF x \in Memory(c) THEN h[x] ELSE heap[x]]
    BY DEF UpdateCached
  <1>2. PICK c \in Fresh(r) : \E h \in [Memory(c) -> Values] :
          /\ cached' = c
          /\ heap' = [x \in Cells |-> IF x \in Memory(c) THEN h[x] ELSE heap[x]]
    BY <1>1
  <1>3. PICK h \in [Memory(c) -> Values] :
          /\ cached' = c
          /\ heap' = [x \in Cells |-> IF x \in Memory(c) THEN h[x] ELSE heap[x]]
    BY <1>2
  <1>4. c \in Resource /\ Memory(c) \subseteq Free
    BY FreshLemma
  <1>5. given' = Kept /\ die' = die /\ held' = held
    BY DEF UpdateCached
  <1>6. heap' \in [Cells -> Values] /\ Frame
    BY <1>3, <1>4 DEF Frame, IInv, TypeOK
  <1>7. TypeOK'
    BY <1>3, <1>4, <1>5, <1>6 DEF IInv, TypeOK, Kept
  <1>8. Writable' = Writable
    BY <1>5 DEF Writable
  <1>9. (Memory(cached) \cap Writable = {})'
    BY <1>3, <1>4, <1>8, WritableUsed DEF Free, Memory
  <1>10. ASSUME NEW d \in Dies, ~die[d].mutable
         PROVE  Memory(die[d].r) \cap Writable \subseteq Kept
    BY <1>10, UsedLemma DEF IInv, Ownership, Kept, Free
  <1>11. Ownership'
    BY <1>5, <1>8, <1>9, <1>10 DEF IInv, Ownership
  <1> QED BY <1>6, <1>7, <1>11

-----------------------------------------------------------------------------

\* In the first state nobody holds any memory.
LEMMA InitInv == Init => IInv
  <1> SUFFICES ASSUME Init PROVE IInv
    OBVIOUS
  <1>1. Blank \in Resource /\ Memory(Blank) = {}
    BY DEF Blank, Resource, Memory
  <1>2. TypeOK
    BY <1>1 DEF Init, TypeOK, Die
  <1>3. \A d \in Dies : die[d].r = Blank /\ die[d].seal = Blank
    BY DEF Init
  <1>4. Ownership
    BY <1>1, <1>3 DEF Init, Ownership
  <1> QED BY <1>2, <1>4 DEF IInv

\* Every step keeps who may write to what, and writes to nothing else.
LEMMA NextStep ==
    ASSUME IInv, [Next]_vars
    PROVE  IInv' /\ Frame
  <1>1. ASSUME NEW d \in Dies
        PROVE  /\ die[d].r \in Resource /\ die[d].seal \in Resource
               /\ die[d].mutable \in BOOLEAN
    BY DEF IInv, TypeOK, Die
  <1>2. cached \in Resource /\ \A v \in Vars : held[v] \in Resource
    BY DEF IInv, TypeOK
  <1>3. CASE UNCHANGED vars
    <2>1. Frame /\ TypeOK'
      BY <1>3 DEF vars, IInv, TypeOK, Frame
    <2>2. Writable' = Writable
      BY <1>3 DEF vars, Writable, Memory
    <2>3. Ownership'
      BY <1>3, <2>2 DEF vars, IInv, Ownership, Memory
    <2> QED BY <2>1, <2>3 DEF IInv
  <1>4. ASSUME NEW d \in Dies, NEW t \in Dies, NEW v \in Vars,
               DieFeed(d, v, t) \/ DieSealFeed(d, t, held[v])
        PROVE  IInv' /\ Frame
    BY <1>2, <1>4, DieFeedStep, DieSealFeedStep DEF IInv
  <1>5. ASSUME NEW d \in Dies, NEW t \in Dies,
               DieFeedJSON(d, t) \/ DieStamp(d, t) \/ DieWith(d, t)
        PROVE  IInv' /\ Frame
    BY <1>5, DieFeedJSONStep, DieStampStep, DieWithStep DEF IInv
  <1>6. ASSUME NEW d \in Dies, NEW t \in Dies,
               DeepCopy(d, t) \/ DieImmutable(d, t) \/ DieSeal(d, t)
        PROVE  IInv' /\ Frame
    <2>1. (~die[d].mutable) \in BOOLEAN
      OBVIOUS
    <2> QED BY <1>1, <1>6, <2>1, DieCopyStep, DieSealFeedStep
            DEF DeepCopy, DieImmutable, DieSeal, IInv
  <1>7. ASSUME NEW d \in Dies, UnmarshalJSON(d)
        PROVE  IInv' /\ Frame
    BY <1>7, DieFeedJSONStep DEF UnmarshalJSON, IInv
  <1>8. ASSUME NEW d \in Dies, NEW v \in Vars,
               DieRelease(d, v) \/ DeepCopyObject(d, v) \/ DieSealRelease(d, v)
        PROVE  IInv' /\ Frame
    BY <1>1, <1>8, DieReleaseStep, HandOutStep DEF DeepCopyObject, DieSealRelease, IInv
  <1>9. ASSUME NEW v \in Vars, ReadCached(v) \/ Write(v)
        PROVE  IInv' /\ Frame
    BY <1>2, <1>9, HandOutStep, WriteStep DEF ReadCached, IInv
  <1>10. CASE UpdateCached
    BY <1>10, UpdateCachedStep DEF IInv
  <1> QED BY <1>3, <1>4, <1>5, <1>6, <1>7, <1>8, <1>9, <1>10 DEF Next

\* Who may write to what: for any parts, any memory and any number of dies, no memory
\* of a seal, of an informer's object or of an immutable die that was not fed to it is
\* ever in the hands of one who writes (zz_generated.die.go, zz_generated.deepcopy.go).
THEOREM DiesOwnership == Spec => []IInv
  <1>1. Init => IInv
    BY InitInv
  <1>2. IInv /\ [Next]_vars => IInv'
    BY NextStep
  <1> QED BY <1>1, <1>2, PTL DEF Spec

\* A step from a state with these owners leaves resources nobody may write to.
LEMMA StepLeaves ==
    ASSUME IInv, [Next]_vars
    PROVE  /\ \A d \in Dies : ~die[d].mutable =>
                \A p \in Parts : die[d].r[p] \notin given \cup {Nil} =>
                    heap'[die[d].r[p]] = heap[die[d].r[p]]
           /\ \A d \in Dies : Unchanged(die[d].seal)
           /\ Unchanged(cached)
  <1>1. Frame
    BY NextStep
  <1>2. ASSUME NEW r \in Resource, NEW p \in Parts, r[p] # Nil, Memory(r) \subseteq Used,
               r[p] \notin Writable
        PROVE  heap'[r[p]] = heap[r[p]]
    <2>1. r[p] \in Cells /\ r[p] \in Used
      BY <1>2, MemoryLemma
    <2> QED BY <1>1, <1>2, <2>1 DEF Frame, Free
  <1>3. /\ \A d \in Dies : die[d].r \in Resource /\ die[d].seal \in Resource
        /\ cached \in Resource
    BY DEF IInv, TypeOK, Die
  <1>4. ASSUME NEW d \in Dies, ~die[d].mutable, NEW p \in Parts,
               die[d].r[p] \notin given \cup {Nil}
        PROVE  heap'[die[d].r[p]] = heap[die[d].r[p]]
    <2>1. die[d].r[p] \in Memory(die[d].r)
      BY <1>3, <1>4, MemoryLemma
    <2>2. die[d].r[p] \notin Writable
      BY <1>4, <2>1 DEF IInv, Ownership
    <2> QED BY <1>2, <1>3, <1>4, <2>2, UsedLemma
  <1>5. ASSUME NEW d \in Dies, NEW p \in Parts, die[d].seal[p] # Nil
        PROVE  heap'[die[d].seal[p]] = heap[die[d].seal[p]]
    <2>1. die[d].seal[p] \in Memory(die[d].seal)
      BY <1>3, <1>5, MemoryLemma
    <2>2. die[d].seal[p] \notin Writable
      BY <2>1 DEF IInv, Ownership
    <2> QED BY <1>2, <1>3, <1>5, <2>2, UsedLemma
  <1>6. ASSUME NEW p \in Parts, cached[p] # Nil
        PROVE  heap'[cached[p]] = heap[cached[p]]
    <2>1. cached[p] \in Memory(cached)
      BY <1>3, <1>6, MemoryLemma
    <2>2. cached[p] \notin Writable
      BY <2>1 DEF IInv, Ownership
    <2> QED BY <1>2, <1>3, <1>6, <2>2, UsedLemma
  <1> QED BY <1>4, <1>5, <1>6 DEF Unchanged

\* An immutable die stays as it is (DieFeed, DieRelease, DieStamp, DieWith).
THEOREM ImmutableDies == Spec => ImmutableDiesStay
  <1>1. IInv /\ [Next]_vars =>
          [\A d \in Dies : ~die[d].mutable /\ die'[d] = die[d] =>
            \A p \in Parts : die[d].r[p] \notin given \cup {Nil} =>
                heap'[die[d].r[p]] = heap[die[d].r[p]]]_vars
    BY StepLeaves
  <1> QED BY <1>1, DiesOwnership, PTL DEF Spec, ImmutableDiesStay

\* A seal stays as it is (DieSeal, DieSealFeed, DieSealRelease).
THEOREM Seals == Spec => SealsStay
  <1>1. IInv /\ [Next]_vars =>
          [\A d \in Dies : die'[d].seal = die[d].seal => Unchanged(die[d].seal)]_vars
    BY StepLeaves
  <1> QED BY <1>1, DiesOwnership, PTL DEF Spec, SealsStay

\* Objects in the store of an informer stay as they are whatever readers do with what
\* they read, for any number of them (DeepCopyInto, DeepCopyObject).
THEOREM Cached == Spec => CachedStays
  <1>1. IInv /\ [Next]_vars => [cached' = cached => Unchanged(cached)]_vars
    BY StepLeaves
  <1> QED BY <1>1, DiesOwnership, PTL DEF Spec, CachedStays

=============================================================================
