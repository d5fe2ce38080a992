-------------------------- MODULE DuckBrokerProofs --------------------------
(***************************************************************************)
(* Proofs about DuckBroker for any subscribers, publishers, capacity of    *)
(* the message channels and number of events: its type invariant,          *)
(* OnlyFullChannelDrops, the refinement of PubSub and what follows from it *)
(* for the order of the events, and the invariants of the subscriptions.   *)
(***************************************************************************)
EXTENDS DuckBroker, SequenceTheorems, TLAPS

\* The event waiting in publishCh is the last its publisher put there.
ChannelInv ==
    publishCh # <<>> =>
        /\ published[publishCh[1].from] > 0
        /\ publishCh[1].seq = published[publishCh[1].from]

\* Only events the loop took are sent; a subscriber the current event is still
\* to be sent to belongs to its audience and has older events only.
InboxInv ==
    /\ \A s \in Subscribers : \A j \in 1 .. Len(inbox[s]) :
          /\ inbox[s][j] \in 1 .. Len(log)
          /\ s \in todo => inbox[s][j] < Len(log)
    /\ \A s \in todo : log # <<>> /\ s \in log[Len(log)].audience

IInv == TypeOK /\ ChannelInv /\ InboxInv /\ OnlyFullChannelDrops

-----------------------------------------------------------------------------
(* Type correctness.                                                       *)

\* A message channel has room for an event.
LEMMA BufferLemma == Buffer \in Nat /\ Buffer > 0
  BY BrokerAssumption

\* The initial state satisfies the invariant.
LEMMA InitIInv == Init => IInv
  <1> SUFFICES ASSUME Init
               PROVE  IInv
    OBVIOUS
  <1>1. TypeOK
    <2>1. /\ inbox \in [Subscribers -> Seq(Nat)] /\ read \in [Subscribers -> Nat]
          /\ \A s \in Subscribers : inbox[s] = <<>> /\ read[s] = 0
      BY DEF Init
    <2>2. \A s \in Subscribers :
             read[s] <= Len(inbox[s]) /\ Len(inbox[s]) <= read[s] + Buffer
      <3>1. Len(<<>>) = 0 /\ Buffer \in Nat
        BY BufferLemma
      <3>2. \A s \in Subscribers : Len(inbox[s]) = 0 /\ read[s] = 0
        BY <2>1, <3>1, Zenon
      <3>3. 0 <= 0 /\ 0 <= 0 + Buffer
        BY <3>1
      <3> QED BY <3>2, <3>3, Zenon
    <2>3. /\ publishCh \in Seq(Event) /\ Len(publishCh) <= 1
          /\ subCh \in Seq(Subscribers) /\ Len(subCh) <= 1
          /\ unsubCh \in Seq(Subscribers) /\ Len(unsubCh) <= 1
          /\ log \in Seq([from : Publishers, seq : Nat, audience : SUBSET Subscribers])
      BY DEF Init
    <2> QED BY <2>1, <2>2, <2>3 DEF Init, TypeOK, Stages
  <1>2. ChannelInv /\ InboxInv
    BY DEF Init, ChannelInv, InboxInv
  <1>3. OnlyFullChannelDrops
    BY DEF Init, OnlyFullChannelDrops
  <1> QED BY <1>1, <1>2, <1>3 DEF IInv

\* A step of the loop keeps every variable in its type.
LEMMA LoopTypeOK ==
    ASSUME TypeOK, LoopStep
    PROVE  TypeOK'
  <1>1. CASE LoopReturns
    BY <1>1 DEF LoopReturns, TypeOK, chanVars, pubVars, subVars
  <1>2. CASE LoopSubscribes
    <2>1. Head(subCh) \in Subscribers /\ Tail(subCh) \in Seq(Subscribers)
          /\ Len(Tail(subCh)) <= 1
      BY <1>2 DEF LoopSubscribes, TypeOK
    <2> QED BY <1>2, <2>1 DEF LoopSubscribes, TypeOK, pubVars, subVars
  <1>3. CASE LoopUnsubscribes
    <2>1. Tail(unsubCh) \in Seq(Subscribers) /\ Len(Tail(unsubCh)) <= 1
      BY <1>3 DEF LoopUnsubscribes, TypeOK
    <2> QED BY <1>3, <2>1 DEF LoopUnsubscribes, TypeOK, pubVars, subVars
  <1>4. CASE LoopTakes
    <2>1. /\ Head(publishCh) \in Event /\ Tail(publishCh) \in Seq(Event)
          /\ Len(Tail(publishCh)) <= 1
      BY <1>4 DEF LoopTakes, TypeOK
    <2>2. [from |-> Head(publishCh).from, seq |-> Head(publishCh).seq,
           audience |-> subs]
             \in [from : Publishers, seq : Nat, audience : SUBSET Subscribers]
      BY <2>1 DEF Event, TypeOK
    <2> QED BY <1>4, <2>1, <2>2, SMTT(60) DEF LoopTakes, TypeOK, pubVars, subVars
  <1>5. ASSUME NEW s \in Subscribers, LoopSends(s)
        PROVE  TypeOK'
    <2>1. inbox' \in [Subscribers -> Seq(Nat)]
      BY <1>5 DEF LoopSends, TypeOK
    <2>2. \A r \in Subscribers : read[r] <= Len(inbox'[r])
                                 /\ Len(inbox'[r]) <= read[r] + Buffer
      BY <1>5, BufferLemma, SMTT(60) DEF LoopSends, TypeOK, Room
    <2> QED BY <1>5, <2>1, <2>2, SMTT(60) DEF LoopSends, TypeOK, chanVars, pubVars, subVars
  <1>6. ASSUME NEW s \in Subscribers, LoopDrops(s)
        PROVE  TypeOK'
    BY <1>6 DEF LoopDrops, TypeOK, chanVars, pubVars, subVars
  <1> QED BY <1>1, <1>2, <1>3, <1>4, <1>5, <1>6 DEF LoopStep

\* A step of a publisher or a subscriber does, too.
LEMMA ClientTypeOK ==
    ASSUME TypeOK, Next, ~LoopStep
    PROVE  TypeOK'
  <1>1. CASE Cancel
    BY <1>1 DEF Cancel, TypeOK, chanVars, pubVars, subVars
  <1>2. ASSUME NEW p \in Publishers, Publish(p)
        PROVE  TypeOK'
    BY <1>2 DEF Publish, TypeOK, chanVars, loopVars, subVars
  <1>3. ASSUME NEW p \in Publishers, PublishSend(p)
        PROVE  TypeOK'
    <2>1. [from |-> p, seq |-> published[p] + 1] \in Event
      BY DEF TypeOK, Event
    <2>2. publishCh' \in Seq(Event) /\ Len(publishCh') <= 1
      BY <1>3, <2>1 DEF PublishSend
    <2> QED BY <1>3, <2>2 DEF PublishSend, TypeOK, loopVars, subVars
  <1>4. ASSUME NEW s \in Subscribers, Subscribe(s) \/ ContextDone(s)
        PROVE  TypeOK'
    BY <1>4 DEF Subscribe, ContextDone, TypeOK, Stages, chanVars, loopVars, pubVars
  <1>5. ASSUME NEW s \in Subscribers, SubscribeSend(s)
        PROVE  TypeOK'
    <2>1. subCh' \in Seq(Subscribers) /\ Len(subCh') <= 1
      BY <1>5 DEF SubscribeSend
    <2> QED BY <1>5, <2>1 DEF SubscribeSend, TypeOK, Stages, loopVars, pubVars
  <1>6. ASSUME NEW s \in Subscribers, UnsubscribeSend(s)
        PROVE  TypeOK'
    <2>1. unsubCh' \in Seq(Subscribers) /\ Len(unsubCh') <= 1
      BY <1>6 DEF UnsubscribeSend
    <2> QED BY <1>6, <2>1 DEF UnsubscribeSend, TypeOK, Stages, loopVars, pubVars
  <1>7. ASSUME NEW s \in Subscribers, Receive(s)
        PROVE  TypeOK'
    <2>1. /\ read \in [Subscribers -> Nat] /\ inbox \in [Subscribers -> Seq(Nat)]
          /\ \A r \in Subscribers :
                read[r] <= Len(inbox[r]) /\ Len(inbox[r]) <= read[r] + Buffer
      BY DEF TypeOK
    <2>2. /\ read' = [read EXCEPT ![s] = read[s] + 1] /\ inbox' = inbox
          /\ read[s] < Len(inbox[s])
      BY <1>7 DEF Receive
    <2>3. read' \in [Subscribers -> Nat]
      BY <2>1, <2>2
    <2>4. ASSUME NEW r \in Subscribers
          PROVE  read'[r] <= Len(inbox[r]) /\ Len(inbox[r]) <= read'[r] + Buffer
      <3>1. read[r] \in Nat /\ Len(inbox[r]) \in Nat
        BY <2>1
      <3>2. read'[r] = IF r = s THEN read[r] + 1 ELSE read[r]
        BY <2>1, <2>2
      <3> QED BY <2>1, <2>2, <3>1, <3>2, BufferLemma
    <2> QED BY <1>7, <2>2, <2>3, <2>4 DEF Receive, TypeOK, chanVars, loopVars, pubVars
  <1> QED BY <1>1, <1>2, <1>3, <1>4, <1>5, <1>6, <1>7 DEF Next

-----------------------------------------------------------------------------
(* The other parts of the invariant.                                       *)

\* Only PublishSend and LoopTakes touch publishCh and published.
LEMMA ChannelStep ==
    ASSUME TypeOK, ChannelInv, Next
    PROVE  ChannelInv'
  <1>1. ASSUME NEW p \in Publishers, PublishSend(p)
        PROVE  ChannelInv'
    BY <1>1 DEF PublishSend, ChannelInv, TypeOK
  <1>2. CASE LoopTakes
    <2>1. publishCh' = <<>>
      BY <1>2 DEF LoopTakes, TypeOK
    <2> QED BY <2>1 DEF ChannelInv
  <1>3. CASE UNCHANGED <<publishCh, published>>
    BY <1>3 DEF ChannelInv
  <1> QED BY <1>1, <1>2, <1>3 DEF Next, LoopStep, LoopReturns, LoopSubscribes,
          LoopUnsubscribes, LoopSends, LoopDrops, Cancel, Publish, Subscribe,
          SubscribeSend, ContextDone, UnsubscribeSend, Receive, chanVars, pubVars

\* Only the loop touches log, inbox and todo, and only these three steps of it.
LEMMA QuietLemma ==
    ASSUME Next, ~LoopTakes,
           \A s \in Subscribers : ~LoopSends(s) /\ ~LoopDrops(s)
    PROVE  UNCHANGED <<log, inbox, todo>>
  BY DEF Next, LoopStep, LoopReturns, LoopSubscribes, LoopUnsubscribes, Cancel,
     Publish, PublishSend, Subscribe, SubscribeSend, ContextDone, UnsubscribeSend,
     Receive, loopVars

\* Taking an event appends it to log, with the subscribers as its audience.
LEMMA TakeLemma ==
    ASSUME TypeOK, LoopTakes
    PROVE  /\ todo = {} /\ todo' = subs /\ inbox' = inbox
           /\ Len(log) \in Nat /\ Len(log') = Len(log) + 1
           /\ \A i \in 1 .. Len(log) : log'[i] = log[i]
           /\ log'[Len(log) + 1].audience = subs
  BY DEF LoopTakes, Selecting, TypeOK

\* Sending the current event appends its position to one inbox.
LEMMA SendLemma ==
    ASSUME TypeOK, NEW s \in Subscribers, LoopSends(s)
    PROVE  /\ s \in todo /\ todo' = todo \ {s} /\ log' = log
           /\ Len(inbox[s]) \in Nat /\ Len(inbox'[s]) = Len(inbox[s]) + 1
           /\ inbox'[s][Len(inbox[s]) + 1] = Len(log)
           /\ \A j \in 1 .. Len(inbox[s]) : inbox'[s][j] = inbox[s][j]
           /\ \A r \in Subscribers \ {s} : inbox'[r] = inbox[r]
  BY DEF LoopSends, TypeOK

\* What is sent was taken, and taken for that subscriber.
LEMMA InboxStep ==
    ASSUME TypeOK, InboxInv, Next
    PROVE  InboxInv'
  <1>1. CASE LoopTakes
    <2>1. \A s \in Subscribers : \A j \in 1 .. Len(inbox[s]) :
             inbox[s][j] \in 1 .. Len(log') /\ inbox[s][j] < Len(log')
      BY <1>1, TakeLemma DEF InboxInv
    <2>2. log' # <<>>
      BY <1>1, TakeLemma
    <2> QED BY <1>1, <2>1, <2>2, TakeLemma DEF InboxInv
  <1>2. ASSUME NEW s \in Subscribers, LoopSends(s)
        PROVE  InboxInv'
    <2>1. log # <<>> /\ Len(log) \in 1 .. Len(log)
      BY <1>2, SendLemma DEF InboxInv, TypeOK
    <2>2. ASSUME NEW r \in Subscribers, NEW j \in 1 .. Len(inbox'[r])
          PROVE  /\ inbox'[r][j] \in 1 .. Len(log)
                 /\ r \in todo' => inbox'[r][j] < Len(log)
      <3>1. CASE r = s
        <4>1. r \notin todo'
          BY <1>2, <3>1, SendLemma
        <4>2. j \in 1 .. Len(inbox[s]) \/ j = Len(inbox[s]) + 1
          BY <1>2, <3>1, SendLemma
        <4>3. inbox'[r][j] = Len(log) \/ inbox'[r][j] \in 1 .. Len(log)
          BY <1>2, <3>1, <4>2, SendLemma DEF InboxInv
        <4> QED BY <2>1, <4>1, <4>3
      <3>2. CASE r # s
        BY <1>2, <3>2, SendLemma DEF InboxInv
      <3> QED BY <3>1, <3>2
    <2> QED BY <1>2, <2>2, SendLemma DEF InboxInv
  <1>3. ASSUME NEW s \in Subscribers, LoopDrops(s)
        PROVE  InboxInv'
    BY <1>3 DEF LoopDrops, InboxInv
  <1>4. CASE UNCHANGED <<log, inbox, todo>>
    BY <1>4 DEF InboxInv
  <1> QED BY <1>1, <1>2, <1>3, <1>4, QuietLemma

\* An event is dropped only when the channel has been filled before it.
LEMMA DropStep ==
    ASSUME TypeOK, InboxInv, OnlyFullChannelDrops, Next
    PROVE  OnlyFullChannelDrops'
  <1>1. CASE LoopTakes
    <2> SUFFICES ASSUME NEW s \in Subscribers, NEW i \in 1 .. Len(log'), Missed(s, i)'
                 PROVE  Len(inbox'[s]) >= Buffer /\ inbox'[s][Buffer] < i
      BY DEF OnlyFullChannelDrops
    <2>1. i # Len(log) + 1
      BY <1>1, TakeLemma DEF Missed
    <2>2. i \in 1 .. Len(log) /\ Missed(s, i)
      BY <1>1, <2>1, TakeLemma DEF Missed
    <2> QED BY <1>1, <2>2, TakeLemma DEF OnlyFullChannelDrops
  <1>2. ASSUME NEW r \in Subscribers, LoopSends(r)
        PROVE  OnlyFullChannelDrops'
    <2> SUFFICES ASSUME NEW s \in Subscribers, NEW i \in 1 .. Len(log), Missed(s, i)'
                 PROVE  Len(inbox'[s]) >= Buffer /\ inbox'[s][Buffer] < i
      BY <1>2, SendLemma DEF OnlyFullChannelDrops
    <2>1. CASE s # r
      <3>1. Missed(s, i)
        BY <1>2, <2>1, SendLemma DEF Missed
      <3> QED BY <1>2, <2>1, <3>1, SendLemma DEF OnlyFullChannelDrops
    <2>2. CASE s = r
      <3>0. /\ log' = log /\ Len(inbox[s]) \in Nat /\ Len(inbox'[s]) = Len(inbox[s]) + 1
            /\ inbox'[s][Len(inbox[s]) + 1] = Len(log)
            /\ \A j \in 1 .. Len(inbox[s]) : inbox'[s][j] = inbox[s][j]
        BY <1>2, <2>2, SendLemma
      <3>1. /\ s \in log[i].audience
            /\ \A j \in 1 .. Len(inbox'[s]) : inbox'[s][j] # i
        BY <3>0 DEF Missed
      <3>2. i # Len(log)
        <4>1. Len(inbox[s]) + 1 \in 1 .. Len(inbox'[s])
          BY <3>0
        <4> QED BY <3>0, <3>1, <4>1
      <3>3. \A j \in 1 .. Len(inbox[s]) : inbox[s][j] # i
        <4>1. \A j \in 1 .. Len(inbox[s]) : j \in 1 .. Len(inbox'[s])
          BY <3>0
        <4> QED BY <3>0, <3>1, <4>1
      <3>4. Missed(s, i)
        BY <3>1, <3>2, <3>3 DEF Missed
      <3>5. Len(inbox[s]) >= Buffer /\ inbox[s][Buffer] < i
        BY <3>4 DEF OnlyFullChannelDrops
      <3>6. Buffer \in 1 .. Len(inbox[s]) /\ Len(inbox'[s]) >= Buffer
        BY <3>0, <3>5, BufferLemma
      <3> QED BY <3>0, <3>5, <3>6
    <2> QED BY <2>1, <2>2
  <1>3. ASSUME NEW r \in Subscribers, LoopDrops(r)
        PROVE  OnlyFullChannelDrops'
    <2>1. /\ log' = log /\ inbox' = inbox /\ todo' = todo \ {r} /\ r \in todo
          /\ Len(inbox[r]) >= read[r] + Buffer
      BY <1>3, BufferLemma DEF LoopDrops, Room, TypeOK
    <2> SUFFICES ASSUME NEW s \in Subscribers, NEW i \in 1 .. Len(log), Missed(s, i)'
                 PROVE  Len(inbox[s]) >= Buffer /\ inbox[s][Buffer] < i
      BY <2>1 DEF OnlyFullChannelDrops
    <2>2. CASE s = r /\ i = Len(log)
      <3>1. Len(inbox[s]) \in Nat /\ Len(inbox[s]) >= Buffer
        <4>1. inbox[s] \in Seq(Nat) /\ read[s] \in Nat
          BY DEF TypeOK
        <4>2. Len(inbox[s]) \in Nat
          BY <4>1
        <4>3. Len(inbox[s]) >= read[s] + Buffer
          BY <2>1, <2>2
        <4> QED BY <4>1, <4>2, <4>3, BufferLemma
      <3>2. Buffer \in 1 .. Len(inbox[s])
        BY <3>1, BufferLemma
      <3> QED BY <2>1, <2>2, <3>1, <3>2 DEF InboxInv
    <2>3. CASE ~(s = r /\ i = Len(log))
      <3>1. Missed(s, i)
        BY <2>1, <2>3 DEF Missed
      <3> QED BY <3>1 DEF OnlyFullChannelDrops
    <2> QED BY <2>2, <2>3
  <1>4. CASE UNCHANGED <<log, inbox, todo>>
    BY <1>4 DEF OnlyFullChannelDrops, Missed
  <1> QED BY <1>1, <1>2, <1>3, <1>4, QuietLemma

-----------------------------------------------------------------------------
(* The theorems.                                                           *)

\* Every step, and stuttering, keeps the invariant.
LEMMA NextIInv == IInv /\ [Next]_vars => IInv'
  <1>1. ASSUME IInv, Next
        PROVE  IInv'
    <2> USE <1>1 DEF IInv
    <2>1. TypeOK'
      BY LoopTypeOK, ClientTypeOK
    <2> QED BY <2>1, ChannelStep, InboxStep, DropStep
  <1>2. ASSUME IInv, UNCHANGED vars
        PROVE  IInv'
    BY <1>2 DEF vars, IInv, TypeOK, ChannelInv, InboxInv, OnlyFullChannelDrops, Missed
  <1> QED BY <1>1, <1>2

\* IInv is an invariant of the broker.
THEOREM Invariance == Spec => []IInv
  BY InitIInv, NextIInv, PTL DEF Spec

\* The variables of the broker keep their types and its channels their bounds.
THEOREM TypeCorrect == Spec => []TypeOK
  BY Invariance, PTL DEF IInv

\* broker.Start drops events only for subscribers that were sent as many earlier
\* events as their channel holds, whatever that number is.
THEOREM DropsOnlyWhenFull == Spec => []OnlyFullChannelDrops
  BY Invariance, PTL DEF IInv

-----------------------------------------------------------------------------
(* Refinement of PubSub.                                                   *)

\* The broker starts where PubSub starts.
LEMMA InitRefines == Init => PS!Init
  BY DEF Init, PS!Init, Accepted

\* A sequence of at most one element that is not empty has one.
LEMMA SingletonLemma ==
    ASSUME NEW S, NEW q \in Seq(S), q # <<>>, Len(q) <= 1
    PROVE  Len(q) = 1
  <1>1. Len(q) # 0
    BY EmptySeq, Zenon
  <1>2. Len(q) \in Nat
    BY LenProperties
  <1> QED BY <1>1, <1>2

\* Taking an event from publishCh is accepting it.
LEMMA TakeRefines ==
    ASSUME IInv, LoopTakes
    PROVE  \E p \in Publishers : PS!Accept(p)
  <1> USE DEF IInv
  <1> DEFINE p == Head(publishCh).from
  <1>1. /\ Len(publishCh) = 1 /\ Head(publishCh) = publishCh[1]
        /\ publishCh # <<>> /\ publishCh' = <<>> /\ publishCh[1] \in Event
    <2>1. /\ publishCh \in Seq(Event) /\ Len(publishCh) <= 1
          /\ publishCh # <<>> /\ publishCh' = Tail(publishCh)
      BY DEF LoopTakes, TypeOK
    <2>2. Len(publishCh) = 1
      BY <2>1, SingletonLemma
    <2>3. Len(Tail(publishCh)) = 0 /\ Tail(publishCh) \in Seq(Event)
      BY <2>1, <2>2
    <2> QED BY <2>1, <2>2, <2>3
  <1>2. /\ p \in Publishers /\ Head(publishCh).seq = published[p]
        /\ published[p] \in Nat /\ published[p] > 0
    BY <1>1 DEF ChannelInv, Event, TypeOK
  <1>3. Accepted[p] + 1 = Head(publishCh).seq
    BY <1>1, <1>2 DEF Accepted
  <1>4. published' = published
    BY DEF LoopTakes, pubVars
  <1>5. Accepted' = [Accepted EXCEPT ![p] = @ + 1]
    <2>1. Accepted' = published
      BY <1>1, <1>4 DEF Accepted, TypeOK
    <2>2. /\ Accepted \in [Publishers -> Nat] /\ published \in [Publishers -> Nat]
          /\ \A q \in Publishers \ {p} : Accepted[q] = published[q]
          /\ Accepted[p] + 1 = published[p]
      BY <1>1, <1>2, <1>3 DEF Accepted, TypeOK
    <2> HIDE DEF p
    <2> QED BY <1>2, <2>1, <2>2
  <1>6. /\ log' = Append(log, [from |-> p, seq |-> Accepted[p] + 1, audience |-> subs])
        /\ subs \in SUBSET Subscribers /\ inbox' = inbox
    BY <1>3 DEF LoopTakes, TypeOK
  <1> HIDE DEF p
  <1> QED BY <1>2, <1>5, <1>6 DEF PS!Accept

\* Sending to one subscriber is delivering.
LEMMA SendRefines ==
    ASSUME IInv, NEW s \in Subscribers, LoopSends(s)
    PROVE  PS!Deliver(s)
  <1> USE DEF IInv
  <1>1. /\ s \in todo /\ inbox' = [inbox EXCEPT ![s] = Append(@, Len(log))]
        /\ UNCHANGED <<log, publishCh, published>>
    BY DEF LoopSends, chanVars, pubVars
  <1>2. /\ Len(log) \in 1 .. Len(log) /\ s \in log[Len(log)].audience
        /\ \A j \in 1 .. Len(inbox[s]) : inbox[s][j] < Len(log)
    BY <1>1 DEF InboxInv, TypeOK
  <1>3. Accepted' = Accepted
    BY <1>1 DEF Accepted
  <1> QED BY <1>1, <1>2, <1>3 DEF PS!Deliver

\* Putting an event on publishCh is not yet accepting it.
LEMMA PublishRefines ==
    ASSUME IInv, NEW p \in Publishers, PublishSend(p)
    PROVE  Accepted' = Accepted
  <1> USE DEF IInv
  <1>1. /\ publishCh = <<>> /\ publishCh' # <<>> /\ Head(publishCh').from = p
        /\ published' = [published EXCEPT ![p] = @ + 1]
    BY DEF PublishSend
  <1>2. published \in [Publishers -> Nat]
    BY DEF TypeOK
  <1> QED BY <1>1, <1>2 DEF Accepted

\* Every step of the broker is a step of PubSub or leaves it alone.
LEMMA NextRefines == IInv /\ [Next]_vars => [PS!Next]_(PS!pubSubVars)
  <1>1. ASSUME IInv, LoopTakes
        PROVE  PS!Next
    BY <1>1, TakeRefines DEF PS!Next
  <1>2. ASSUME IInv, NEW s \in Subscribers, LoopSends(s)
        PROVE  PS!Next
    BY <1>2, SendRefines DEF PS!Next
  <1>3. ASSUME IInv, NEW p \in Publishers, PublishSend(p)
        PROVE  UNCHANGED PS!pubSubVars
    BY <1>3, PublishRefines DEF PublishSend, PS!pubSubVars
  <1>4. ASSUME UNCHANGED <<publishCh, published, log, inbox>>
        PROVE  UNCHANGED PS!pubSubVars
    BY <1>4 DEF PS!pubSubVars, Accepted
  <1>5. ASSUME [Next]_vars, ~LoopTakes, \A s \in Subscribers : ~LoopSends(s),
               \A p \in Publishers : ~PublishSend(p)
        PROVE  UNCHANGED <<publishCh, published, log, inbox>>
    BY <1>5 DEF Next, LoopStep, LoopReturns, LoopSubscribes, LoopUnsubscribes,
       LoopDrops, Cancel, Publish, Subscribe, SubscribeSend, ContextDone,
       UnsubscribeSend, Receive, vars, chanVars, loopVars, pubVars
  <1> QED BY <1>1, <1>2, <1>3, <1>4, <1>5

\* The broker implements PubSub, for every instance.
THEOREM Refinement == Spec => ImplementsPubSub
  BY InitRefines, NextRefines, Invariance, PTL DEF Spec, ImplementsPubSub, PS!Spec

-----------------------------------------------------------------------------
(* What PubSub lets subscribers rely on, from its own steps alone.          *)

\* The variables of PubSub have their types, the events in the log are numbered no
\* further than the events accepted, and OnceInOrder.
PromiseInv ==
    /\ Accepted \in [Publishers -> Nat]
    /\ log \in Seq([from : Publishers, seq : Nat, audience : SUBSET Subscribers])
    /\ inbox \in [Subscribers -> Seq(Nat)]
    /\ \A i \in 1 .. Len(log) : log[i].seq <= Accepted[log[i].from]
    /\ PS!OnceInOrder

\* The two halves of OnceInOrder: what is in an inbox, and what is in the log.
InboxOrder(l, in) ==
    \A s \in Subscribers : \A i \in 1 .. Len(in[s]) :
        /\ in[s][i] \in 1 .. Len(l) /\ s \in l[in[s][i]].audience
        /\ \A j \in 1 .. Len(in[s]) : i < j => in[s][i] < in[s][j]

LogOrder(l, accepted) ==
    /\ \A i, j \in 1 .. Len(l) :
          i < j /\ l[i].from = l[j].from => l[i].seq < l[j].seq
    /\ \A p \in Publishers : \A k \in 1 .. accepted[p] :
          \E i \in 1 .. Len(l) : l[i].from = p /\ l[i].seq = k

\* They say together what OnceInOrder says.
LEMMA PromiseParts ==
    ASSUME PromiseInv
    PROVE  LogOrder(log, Accepted) /\ InboxOrder(log, inbox)
  BY Zenon DEF PromiseInv, PS!OnceInOrder, LogOrder, InboxOrder

\* Accepting an event keeps it: the event gets the next number of its publisher.
LEMMA AcceptPromise ==
    ASSUME PromiseInv, NEW p \in Publishers, PS!Accept(p)
    PROVE  PromiseInv'
  <1> DEFINE n == Len(log)
             a == Accepted
             b == Accepted'
  <1>1. PICK audience \in SUBSET Subscribers :
           log' = Append(log, [from |-> p, seq |-> a[p] + 1, audience |-> audience])
    BY DEF PS!Accept
  <1>2. /\ a \in [Publishers -> Nat] /\ b = [a EXCEPT ![p] = @ + 1] /\ inbox' = inbox
        /\ inbox \in [Subscribers -> Seq(Nat)]
    BY DEF PS!Accept, PromiseInv
  <1> HIDE DEF a, b
  <1>3. /\ b \in [Publishers -> Nat] /\ b[p] = a[p] + 1 /\ a[p] \in Nat
        /\ \A q \in Publishers : a[q] \in Nat /\ b[q] \in Nat /\ a[q] <= b[q]
        /\ \A q \in Publishers \ {p} : b[q] = a[q]
    BY <1>2
  <1>4. /\ n \in Nat /\ Len(log') = n + 1
        /\ log' \in Seq([from : Publishers, seq : Nat, audience : SUBSET Subscribers])
        /\ log'[n + 1] = [from |-> p, seq |-> a[p] + 1, audience |-> audience]
        /\ \A i \in 1 .. n : log'[i] = log[i]
    <2>1. /\ [from |-> p, seq |-> a[p] + 1, audience |-> audience]
                \in [from : Publishers, seq : Nat, audience : SUBSET Subscribers]
          /\ log \in Seq([from : Publishers, seq : Nat, audience : SUBSET Subscribers])
      BY <1>3 DEF PromiseInv
    <2> QED BY <1>1, <2>1
  <1>5. \A i \in 1 .. n : /\ log[i].from \in Publishers /\ log[i].seq \in Nat
                          /\ log[i].seq <= a[log[i].from]
    <2>1. /\ log \in Seq([from : Publishers, seq : Nat, audience : SUBSET Subscribers])
          /\ \A i \in 1 .. n : log[i].seq <= a[log[i].from]
      BY DEF PromiseInv, a
    <2>2. \A i \in 1 .. n :
             log[i] \in [from : Publishers, seq : Nat, audience : SUBSET Subscribers]
      BY <2>1, ElementOfSeq
    <2> QED BY <2>1, <2>2
  <1>6. /\ \A i \in 1 .. Len(log') : i \in 1 .. n \/ i = n + 1
        /\ \A i \in 1 .. n : i \in 1 .. Len(log') /\ i < n + 1
        /\ n + 1 \in 1 .. Len(log')
    BY <1>4
  <1> HIDE DEF n
  <1>7. \A i \in 1 .. Len(log') : log'[i].seq <= b[log'[i].from]
    <2>1. ASSUME NEW i \in 1 .. n
          PROVE  log'[i].seq <= b[log'[i].from]
      <3>1. log'[i] = log[i] /\ log[i].seq \in Nat /\ log[i].seq <= a[log[i].from]
        BY <1>4, <1>5
      <3>2. a[log[i].from] \in Nat /\ b[log[i].from] \in Nat
            /\ a[log[i].from] <= b[log[i].from]
        BY <1>3, <1>5
      <3> QED BY <3>1, <3>2
    <2>2. log'[n + 1].seq <= b[log'[n + 1].from]
      BY <1>3, <1>4
    <2> QED BY <1>6, <2>1, <2>2
  <1>8. \A s \in Subscribers : \A i \in 1 .. Len(inbox'[s]) :
           /\ inbox'[s][i] \in 1 .. Len(log') /\ s \in log'[inbox'[s][i]].audience
           /\ \A j \in 1 .. Len(inbox'[s]) : i < j => inbox'[s][i] < inbox'[s][j]
    BY <1>2, <1>4, <1>6 DEF PromiseInv, PS!OnceInOrder, n
  <1>9. ASSUME NEW i \in 1 .. Len(log'), NEW j \in 1 .. Len(log'),
               i < j, log'[i].from = log'[j].from
        PROVE  log'[i].seq < log'[j].seq
    <2>1. i \in 1 .. n
      BY <1>4, <1>9
    <2>2. CASE j \in 1 .. n
      <3>1. log'[i] = log[i] /\ log'[j] = log[j]
        BY <1>4, <2>1, <2>2
      <3>2. log[i].from = log[j].from => log[i].seq < log[j].seq
        BY <1>9, <2>1, <2>2 DEF PromiseInv, PS!OnceInOrder, n
      <3> QED BY <1>9, <3>1, <3>2
    <2>3. CASE j = n + 1
      <3>1. log'[i] = log[i] /\ log'[j].from = p /\ log'[j].seq = a[p] + 1
        BY <1>4, <2>1, <2>3
      <3>2. log[i].seq \in Nat /\ log[i].seq <= a[log[i].from]
        BY <1>5, <2>1
      <3>3. log[i].seq <= a[p]
        BY <1>9, <3>1, <3>2
      <3> QED BY <1>3, <3>1, <3>2, <3>3
    <2> QED BY <1>6, <2>2, <2>3
  <1>10. ASSUME NEW q \in Publishers, NEW k \in 1 .. b[q]
         PROVE  \E i \in 1 .. Len(log') : log'[i].from = q /\ log'[i].seq = k
    <2>1. CASE k \in 1 .. a[q]
      <3>1. PICK i \in 1 .. n : log[i].from = q /\ log[i].seq = k
        BY <2>1 DEF PromiseInv, PS!OnceInOrder, n, a
      <3> QED BY <1>4, <1>6, <3>1
    <2>2. CASE k \notin 1 .. a[q]
      <3>1. q = p /\ k = a[p] + 1
        BY <1>3, <2>2
      <3> QED BY <1>4, <1>6, <3>1
    <2> QED BY <2>1, <2>2
  <1>11. PS!OnceInOrder'
    BY <1>8, <1>9, <1>10 DEF PS!OnceInOrder, b
  <1> QED BY <1>2, <1>3, <1>4, <1>7, <1>11 DEF PromiseInv, b

\* Delivering keeps it: the event is younger than all the subscriber has.
LEMMA DeliverPromise ==
    ASSUME PromiseInv, NEW s \in Subscribers, PS!Deliver(s)
    PROVE  PromiseInv'
  <1>1. PICK e \in 1 .. Len(log) :
           /\ s \in log[e].audience
           /\ \A j \in 1 .. Len(inbox[s]) : inbox[s][j] < e
           /\ inbox' = [inbox EXCEPT ![s] = Append(@, e)]
    BY DEF PS!Deliver
  <1>2. log' = log /\ Accepted' = Accepted
    BY DEF PS!Deliver
  <1>3. inbox \in [Subscribers -> Seq(Nat)] /\ e \in Nat
    BY DEF PromiseInv
  <1>4. /\ inbox' \in [Subscribers -> Seq(Nat)]
        /\ Len(inbox[s]) \in Nat /\ Len(inbox'[s]) = Len(inbox[s]) + 1
        /\ inbox'[s][Len(inbox[s]) + 1] = e
        /\ \A j \in 1 .. Len(inbox[s]) : inbox'[s][j] = inbox[s][j]
        /\ \A r \in Subscribers \ {s} : inbox'[r] = inbox[r]
    BY <1>1, <1>3
  <1>5. ASSUME NEW i \in 1 .. Len(inbox'[s])
        PROVE  i \in 1 .. Len(inbox[s]) \/ i = Len(inbox[s]) + 1
    <2> DEFINE l == Len(inbox[s])
               k == Len(inbox'[s])
    <2>1. l \in Nat /\ k = l + 1 /\ i \in 1 .. k
      BY <1>4
    <2> HIDE DEF l, k
    <2>2. i \in 1 .. l \/ i = l + 1
      BY <2>1
    <2> QED BY <2>2 DEF l
  <1>6. ASSUME NEW r \in Subscribers, NEW i \in 1 .. Len(inbox'[r])
        PROVE  /\ inbox'[r][i] \in 1 .. Len(log) /\ r \in log[inbox'[r][i]].audience
               /\ \A j \in 1 .. Len(inbox'[r]) : i < j => inbox'[r][i] < inbox'[r][j]
    <2>1. CASE r # s
      BY <1>4, <2>1 DEF PromiseInv, PS!OnceInOrder
    <2>2. CASE r = s /\ i \in 1 .. Len(inbox[s])
      <3>1. inbox'[s][i] = inbox[s][i]
        BY <1>4, <2>2
      <3>2. \A j \in 1 .. Len(inbox'[s]) : j \in 1 .. Len(inbox[s]) \/ j = Len(inbox[s]) + 1
        BY <1>5
      <3>3. /\ inbox[s][i] \in 1 .. Len(log) /\ s \in log[inbox[s][i]].audience
            /\ \A j \in 1 .. Len(inbox[s]) : i < j => inbox[s][i] < inbox[s][j]
        BY <2>2 DEF PromiseInv, PS!OnceInOrder
      <3>4. inbox[s][i] < e
        BY <1>1, <2>2
      <3> QED BY <1>4, <2>2, <3>1, <3>2, <3>3, <3>4
    <2>3. CASE r = s /\ i = Len(inbox[s]) + 1
      BY <1>1, <1>4, <2>3
    <2>4. r = s => i \in 1 .. Len(inbox[s]) \/ i = Len(inbox[s]) + 1
      BY <1>5
    <2> QED BY <2>1, <2>2, <2>3, <2>4
  <1>7. PS!OnceInOrder'
    <2>1. LogOrder(log, Accepted)
      BY PromiseParts
    <2>2. LogOrder(log', Accepted')
      BY <1>2, <2>1
    <2>3. \A r \in Subscribers : \A i \in 1 .. Len(inbox'[r]) :
             /\ inbox'[r][i] \in 1 .. Len(log') /\ r \in log'[inbox'[r][i]].audience
             /\ \A j \in 1 .. Len(inbox'[r]) : i < j => inbox'[r][i] < inbox'[r][j]
      BY <1>2, <1>6, Zenon
    <2> QED BY <2>2, <2>3, Zenon DEF PS!OnceInOrder, LogOrder
  <1> QED BY <1>2, <1>4, <1>7 DEF PromiseInv

\* Whatever implements PubSub hands subscribers their events once and in order.
THEOREM PubSubPromise == PS!Spec => []PS!OnceInOrder
  <1>1. PS!Init => PromiseInv
    BY DEF PS!Init, PromiseInv, PS!OnceInOrder
  <1>2. PromiseInv /\ [PS!Next]_(PS!pubSubVars) => PromiseInv'
    <2>1. ASSUME PromiseInv, PS!Next
          PROVE  PromiseInv'
      BY <2>1, AcceptPromise, DeliverPromise DEF PS!Next
    <2>2. ASSUME PromiseInv, UNCHANGED PS!pubSubVars
          PROVE  PromiseInv'
      <3>1. log' = log /\ inbox' = inbox /\ Accepted' = Accepted
        BY <2>2 DEF PS!pubSubVars
      <3>2. LogOrder(log, Accepted) /\ InboxOrder(log, inbox)
        BY <2>2, PromiseParts
      <3>3. LogOrder(log', Accepted') /\ InboxOrder(log', inbox')
        BY <3>1, <3>2
      <3>4. PS!OnceInOrder'
        BY <3>3, Zenon DEF PS!OnceInOrder, LogOrder, InboxOrder
      <3> QED BY <2>2, <3>1, <3>4, Zenon DEF PromiseInv
    <2> QED BY <2>1, <2>2
  <1>3. PromiseInv => PS!OnceInOrder
    BY DEF PromiseInv
  <1> QED BY <1>1, <1>2, <1>3, PTL DEF PS!Spec

\* So broker.Start does, as it implements PubSub.
THEOREM InOrder == Spec => []DeliveredInOrder
  BY Refinement, PubSubPromise, PTL DEF ImplementsPubSub, DeliveredInOrder

-----------------------------------------------------------------------------
(* Subscriptions.                                                          *)

\* A subscription is in one place at a time, and ends after its end was announced.
KnownInv ==
    /\ SubscriptionsKept
    /\ \A s \in Subscribers : /\ s \in subs => subCh # <<s>>
                              /\ unsubCh = <<s>> => stage[s] = "unsubscribed"

Heard(s) == \E i \in 1 .. Len(log) : s \in log[i].audience

\* A subscriber the loop has yet to meet is in no audience, and one that has dropped
\* out of the audiences is not in the map.
HeardInv ==
    /\ SubscriptionIsInterval
    /\ \A s \in Subscribers :
          /\ subCh = <<s>> \/ stage[s] \in {"new", "subscribing"} => ~Heard(s)
          /\ \A i, j \in 1 .. Len(log) :
                i < j /\ s \in log[i].audience /\ s \notin log[j].audience => s \notin subs

\* A channel of capacity one that is not empty holds its head and nothing else.
LEMMA OneLemma ==
    ASSUME NEW S, NEW q \in Seq(S), q # <<>>, Len(q) <= 1
    PROVE  q = <<Head(q)>> /\ Tail(q) = <<>> /\ Head(q) \in S
  <1>1. Len(q) = 1
    BY SingletonLemma
  <1>2. Tail(q) \in Seq(S) /\ Len(Tail(q)) = 0
    BY <1>1
  <1>3. Tail(q) = <<>>
    BY <1>2, EmptySeq
  <1> QED BY <1>1, <1>3

\* Subscriptions stay in one place at a time.
LEMMA KnownStep ==
    ASSUME TypeOK, KnownInv, Next
    PROVE  KnownInv'
  <1> USE DEF KnownInv, SubscriptionsKept
  <1>0. stage \in [Subscribers -> Stages]
    BY DEF TypeOK
  <1>1. ASSUME NEW s \in Subscribers, Subscribe(s) \/ ContextDone(s)
        PROVE  KnownInv'
    <2>1. UNCHANGED <<subCh, unsubCh, subs>>
      BY <1>1 DEF Subscribe, ContextDone, chanVars, loopVars
    <2>2. \/ stage[s] = "new" /\ stage' = [stage EXCEPT ![s] = "subscribing"]
          \/ stage[s] = "subscribed" /\ stage' = [stage EXCEPT ![s] = "done"]
      BY <1>1 DEF Subscribe, ContextDone
    <2> QED BY <1>0, <2>1, <2>2
  <1>2. ASSUME NEW s \in Subscribers, SubscribeSend(s)
        PROVE  KnownInv'
    BY <1>0, <1>2 DEF SubscribeSend, loopVars
  <1>3. ASSUME NEW s \in Subscribers, UnsubscribeSend(s)
        PROVE  KnownInv'
    BY <1>0, <1>3 DEF UnsubscribeSend, loopVars
  <1>4. CASE LoopSubscribes
    <2>1. /\ subCh = <<Head(subCh)>> /\ subCh' = <<>> /\ Head(subCh) \in Subscribers
          /\ subs' = subs \cup {Head(subCh)} /\ UNCHANGED <<unsubCh, stage>>
      BY <1>4, OneLemma DEF LoopSubscribes, TypeOK, subVars
    <2> QED BY <2>1
  <1>5. CASE LoopUnsubscribes
    <2>1. /\ unsubCh = <<Head(unsubCh)>> /\ unsubCh' = <<>>
          /\ Head(unsubCh) \in Subscribers
          /\ subs' = subs \ {Head(unsubCh)} /\ UNCHANGED <<subCh, stage>>
      BY <1>5, OneLemma DEF LoopUnsubscribes, TypeOK, subVars
    <2>2. stage[Head(unsubCh)] = "unsubscribed"
      BY <2>1
    <2> QED BY <2>1, <2>2
  <1>6. CASE UNCHANGED <<subCh, unsubCh, subs, stage>>
    BY <1>6
  <1> QED BY <1>1, <1>2, <1>3, <1>4, <1>5, <1>6 DEF Next, LoopStep, LoopReturns,
          LoopTakes, LoopSends, LoopDrops, Cancel, Publish, PublishSend, Receive,
          chanVars, loopVars, subVars

\* The events of a subscription stay consecutive.
LEMMA HeardStep ==
    ASSUME TypeOK, KnownInv, HeardInv, Next
    PROVE  HeardInv'
  <1>0. stage \in [Subscribers -> Stages]
    BY DEF TypeOK
  <1>1. CASE LoopTakes
    <2>0. UNCHANGED <<subCh, stage, subs>>
      BY <1>1 DEF LoopTakes, subVars
    <2>1. /\ Len(log) \in Nat /\ Len(log') = Len(log) + 1
          /\ \A i \in 1 .. Len(log) : log'[i] = log[i]
          /\ log'[Len(log) + 1].audience = subs
      BY <1>1, TakeLemma
    <2>2. ASSUME NEW s \in Subscribers, subCh = <<s>> \/ stage[s] \in {"new", "subscribing"}
          PROVE  ~Heard(s)'
      <3>1. s \notin subs /\ ~Heard(s)
        BY <2>2 DEF KnownInv, SubscriptionsKept, HeardInv
      <3> QED BY <2>1, <3>1 DEF Heard
    <2>3. ASSUME NEW s \in Subscribers, NEW i \in 1 .. Len(log'), NEW j \in 1 .. Len(log'),
                 i < j, s \in log'[i].audience, s \notin log'[j].audience
          PROVE  s \notin subs
      <3>1. i \in 1 .. Len(log)
        BY <2>1, <2>3
      <3>2. CASE j \in 1 .. Len(log)
        BY <2>1, <2>3, <3>1, <3>2 DEF HeardInv
      <3>3. CASE j = Len(log) + 1
        BY <2>1, <2>3, <3>3
      <3> QED BY <2>1, <3>2, <3>3
    <2>4. ASSUME NEW s \in Subscribers, NEW i \in 1 .. Len(log'), NEW j \in 1 .. Len(log'),
                 NEW k \in 1 .. Len(log'), i < j, j < k,
                 s \in log'[i].audience, s \notin log'[j].audience
          PROVE  s \notin log'[k].audience
      <3>1. i \in 1 .. Len(log) /\ j \in 1 .. Len(log)
        BY <2>1, <2>4
      <3>2. CASE k \in 1 .. Len(log)
        BY <2>1, <2>4, <3>1, <3>2 DEF HeardInv, SubscriptionIsInterval
      <3>3. CASE k = Len(log) + 1
        BY <2>1, <2>3, <2>4, <3>3
      <3> QED BY <2>1, <3>2, <3>3
    <2> QED BY <2>0, <2>2, <2>3, <2>4 DEF HeardInv, SubscriptionIsInterval
  <1>2. CASE LoopSubscribes
    <2>1. /\ subCh = <<Head(subCh)>> /\ subCh' = <<>> /\ Head(subCh) \in Subscribers
          /\ subs' = subs \cup {Head(subCh)} /\ UNCHANGED <<stage, log>>
      BY <1>2, OneLemma DEF LoopSubscribes, TypeOK, subVars
    <2>2. ~Heard(Head(subCh))
      BY <2>1 DEF HeardInv
    <2> QED BY <2>1, <2>2 DEF HeardInv, Heard, SubscriptionIsInterval
  <1>3. ASSUME NEW s \in Subscribers, SubscribeSend(s)
        PROVE  HeardInv'
    <2>1. /\ stage[s] = "subscribing" /\ subCh' = <<s>>
          /\ stage' = [stage EXCEPT ![s] = "subscribed"] /\ UNCHANGED <<subs, log>>
      BY <1>3 DEF SubscribeSend, loopVars
    <2>2. ~Heard(s)
      BY <2>1 DEF HeardInv
    <2> QED BY <1>0, <2>1, <2>2 DEF HeardInv, Heard, SubscriptionIsInterval
  <1>4. ASSUME NEW s \in Subscribers,
               Subscribe(s) \/ ContextDone(s) \/ UnsubscribeSend(s)
        PROVE  HeardInv'
    <2>1. UNCHANGED <<subCh, subs, log>>
      BY <1>4 DEF Subscribe, ContextDone, UnsubscribeSend, chanVars, loopVars
    <2>2. \A r \in Subscribers : stage'[r] \in {"new", "subscribing"} =>
                                    stage[r] \in {"new", "subscribing"}
      BY <1>0, <1>4 DEF Subscribe, ContextDone, UnsubscribeSend
    <2> QED BY <2>1, <2>2 DEF HeardInv, Heard, SubscriptionIsInterval
  <1>5. CASE /\ subs' \subseteq subs /\ UNCHANGED <<subCh, stage, log>>
    BY <1>5 DEF HeardInv, Heard, SubscriptionIsInterval
  <1> QED BY <1>1, <1>2, <1>3, <1>4, <1>5 DEF Next, LoopStep, LoopReturns,
          LoopUnsubscribes, LoopSends, LoopDrops, Cancel, Publish, PublishSend, Receive,
          chanVars, loopVars, subVars

\* The two are invariants of the broker.
THEOREM SubscriptionInvariance == Spec => [](KnownInv /\ HeardInv)
  <1>1. Init => KnownInv /\ HeardInv
    BY DEF Init, KnownInv, SubscriptionsKept, HeardInv, Heard, SubscriptionIsInterval
  <1>2. TypeOK /\ KnownInv /\ HeardInv /\ [Next]_vars => (KnownInv /\ HeardInv)'
    <2>1. ASSUME KnownInv, HeardInv, UNCHANGED vars
          PROVE  (KnownInv /\ HeardInv)'
      BY <2>1 DEF vars, KnownInv, SubscriptionsKept, HeardInv, Heard, SubscriptionIsInterval
    <2> QED BY <2>1, KnownStep, HeardStep
  <1> QED BY <1>1, <1>2, TypeCorrect, PTL DEF Spec

\* No subscription is lost between Subscribe and the map of the loop, or doubled.
THEOREM SubscriptionKept == Spec => []SubscriptionsKept
  BY SubscriptionInvariance, PTL DEF KnownInv

\* In whatever order the select of broker.Start takes the start and the end of a
\* subscription, a subscriber that the loop dropped does not come back.
THEOREM DroppedForGood == Spec => []SubscriptionIsInterval
  BY SubscriptionInvariance, PTL DEF HeardInv

=============================================================================
