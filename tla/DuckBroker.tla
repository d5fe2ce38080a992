----------------------------- MODULE DuckBroker -----------------------------
(***************************************************************************)
(* The event broker of client/broker.go: informer event handlers publish,  *)
(* sources subscribe, and one goroutine moves events from the publish      *)
(* channel to the message channels of the subscribers, without waiting for *)
(* a subscriber whose channel is full.                                     *)
(*                                                                         *)
(* publishCh, subCh and unsubCh have room for one element.  Of a message   *)
(* channel the model keeps everything ever sent to it (inbox) and how much *)
(* was received (read): the channel holds what is between the two.         *)
(***************************************************************************)
EXTENDS Naturals, Sequences

CONSTANTS
    Subscribers,  \* calls of Subscribe, each with its own message channel
    Publishers,   \* informer event handlers
    Buffer,       \* capacity of a message channel
    MaxPublish    \* MaxPublish[p]: bound on the events of publisher p

ASSUME BrokerAssumption ==
    /\ Buffer \in Nat \ {0}
    /\ MaxPublish \in [Publishers -> Nat]

VARIABLES
    publishCh, subCh, unsubCh,  \* the channels of the broker
    subs,       \* the map subs of the loop
    todo,       \* subscribers the event at the end of log is still to be sent to
    running,    \* the loop has not returned
    cancelled,  \* the context of the loop is cancelled
    pending,    \* publishers inside Publish
    published,  \* published[p]: number of events p has put on publishCh
    stage,      \* stage[s]: how far the life of subscription s is
    log,        \* events the loop took, with the subscribers at that time
    inbox,      \* inbox[s]: positions in log of the events sent to s
    read        \* read[s]: number of events s received

chanVars == <<publishCh, subCh, unsubCh>>
loopVars == <<subs, todo, running, cancelled>>
pubVars == <<pending, published>>
subVars == <<stage, read>>
vars == <<publishCh, subCh, unsubCh, subs, todo, running, cancelled, pending,
          published, stage, log, inbox, read>>

Event == [from : Publishers, seq : Nat]

Stages == {"new", "subscribing", "subscribed", "done", "unsubscribed"}

Init ==
    /\ publishCh = <<>> /\ subCh = <<>> /\ unsubCh = <<>>
    /\ subs = {} /\ todo = {}
    /\ running = TRUE /\ cancelled = FALSE
    /\ pending = {}
    /\ published = [p \in Publishers |-> 0]
    /\ stage = [s \in Subscribers |-> "new"]
    /\ log = <<>>
    /\ inbox = [s \in Subscribers |-> <<>>]
    /\ read = [s \in Subscribers |-> 0]

-----------------------------------------------------------------------------
(* Publish: the call, and the send that may block.                         *)

Publish(p) ==
    /\ p \notin pending
    /\ published[p] < MaxPublish[p]
    /\ pending' = pending \cup {p}
    /\ UNCHANGED <<chanVars, loopVars, published, subVars, log, inbox>>

PublishSend(p) ==
    /\ p \in pending
    /\ publishCh = <<>>
    /\ publishCh' = <<[from |-> p, seq |-> published[p] + 1]>>
    /\ published' = [published EXCEPT ![p] = @ + 1]
    /\ pending' = pending \ {p}
    /\ UNCHANGED <<subCh, unsubCh, loopVars, subVars, log, inbox>>

-----------------------------------------------------------------------------
(* Subscribe: the call, the send that may block, and the goroutine that    *)
(* waits for the subscriber's context and unsubscribes.                    *)

Subscribe(s) ==
    /\ stage[s] = "new"
    /\ stage' = [stage EXCEPT ![s] = "subscribing"]
    /\ UNCHANGED <<chanVars, loopVars, pubVars, read, log, inbox>>

\* Faulty variant of SubscribeSend: a non-blocking send that may be dropped.
SubscribeSendDropped(s) ==
    /\ stage[s] = "subscribing"
    /\ subCh' = IF subCh = <<>> THEN <<s>> ELSE subCh
    /\ stage' = [stage EXCEPT ![s] = "subscribed"]
    /\ UNCHANGED <<publishCh, unsubCh, loopVars, pubVars, read, log, inbox>>

SubscribeSend(s) ==
    /\ stage[s] = "subscribing"
    /\ subCh = <<>>
    /\ subCh' = <<s>>
    /\ stage' = [stage EXCEPT ![s] = "subscribed"]
    /\ UNCHANGED <<publishCh, unsubCh, loopVars, pubVars, read, log, inbox>>

ContextDone(s) ==
    /\ stage[s] = "subscribed"
    /\ stage' = [stage EXCEPT ![s] = "done"]
    /\ UNCHANGED <<chanVars, loopVars, pubVars, read, log, inbox>>

\* Faulty variant of UnsubscribeSend: a non-blocking send that may be dropped.
UnsubscribeSendDropped(s) ==
    /\ stage[s] = "done"
    /\ unsubCh' = IF unsubCh = <<>> THEN <<s>> ELSE unsubCh
    /\ stage' = [stage EXCEPT ![s] = "unsubscribed"]
    /\ UNCHANGED <<publishCh, subCh, loopVars, pubVars, read, log, inbox>>

UnsubscribeSend(s) ==
    /\ stage[s] = "done"
    /\ unsubCh = <<>>
    /\ unsubCh' = <<s>>
    /\ stage' = [stage EXCEPT ![s] = "unsubscribed"]
    /\ UNCHANGED <<publishCh, subCh, loopVars, pubVars, read, log, inbox>>

\* The source that reads the message channel.
Receive(s) ==
    /\ read[s] < Len(inbox[s])
    /\ read' = [read EXCEPT ![s] = @ + 1]
    /\ UNCHANGED <<chanVars, loopVars, pubVars, stage, log, inbox>>

-----------------------------------------------------------------------------
(* The loop: broker.Start.  Any ready case of the select may be taken.     *)

Selecting == running /\ todo = {}

\* The manager stops: the function NewBroker adds to it cancels the loop.
Cancel ==
    /\ ~cancelled
    /\ cancelled' = TRUE
    /\ UNCHANGED <<chanVars, subs, todo, running, pubVars, subVars, log, inbox>>

LoopReturns ==
    /\ Selecting
    /\ cancelled
    /\ running' = FALSE
    /\ UNCHANGED <<chanVars, subs, todo, cancelled, pubVars, subVars, log, inbox>>

\* Faulty variant of LoopSubscribes: the subscription is left in the channel.
LoopSubscribesAgain ==
    /\ Selecting
    /\ subCh # <<>>
    /\ subs' = subs \cup {Head(subCh)}
    /\ UNCHANGED <<chanVars, todo, running, cancelled, pubVars, subVars, log, inbox>>

LoopSubscribes ==
    /\ Selecting
    /\ subCh # <<>>
    /\ subs' = subs \cup {Head(subCh)}
    /\ subCh' = Tail(subCh)
    /\ UNCHANGED <<publishCh, unsubCh, todo, running, cancelled, pubVars, subVars,
                   log, inbox>>

LoopUnsubscribes ==
    /\ Selecting
    /\ unsubCh # <<>>
    /\ subs' = subs \ {Head(unsubCh)}
    /\ unsubCh' = Tail(unsubCh)
    /\ UNCHANGED <<publishCh, subCh, todo, running, cancelled, pubVars, subVars,
                   log, inbox>>

\* Faulty variant of LoopTakes: the event is looked at but not taken.
LoopPeeks ==
    /\ Selecting
    /\ publishCh # <<>>
    /\ log' = Append(log, [from |-> Head(publishCh).from, seq |-> Head(publishCh).seq,
                           audience |-> subs])
    /\ todo' = subs
    /\ UNCHANGED <<chanVars, subs, running, cancelled, pubVars, subVars, inbox>>

LoopTakes ==
    /\ Selecting
    /\ publishCh # <<>>
    /\ log' = Append(log, [from |-> Head(publishCh).from, seq |-> Head(publishCh).seq,
                           audience |-> subs])
    /\ publishCh' = Tail(publishCh)
    /\ todo' = subs
    /\ UNCHANGED <<subCh, unsubCh, subs, running, cancelled, pubVars, subVars, inbox>>

\* Faulty variants of Room: off by one in either direction.
RoomTooLarge(s) == Len(inbox[s]) <= read[s] + Buffer

RoomTooSmall(s) == Len(inbox[s]) + 1 < read[s] + Buffer

\* The message channel of s has room.
Room(s) == Len(inbox[s]) < read[s] + Buffer

LoopSends(s) ==
    /\ running
    /\ s \in todo
    /\ Room(s)
    /\ inbox' = [inbox EXCEPT ![s] = Append(@, Len(log))]
    /\ todo' = todo \ {s}
    /\ UNCHANGED <<chanVars, subs, running, cancelled, pubVars, subVars, log>>

\* Faulty variant of LoopDrops: the send has no default case and waits.
LoopWaits(s) ==
    /\ running
    /\ s \in todo
    /\ ~Room(s)
    /\ UNCHANGED vars

\* The default case of the non-blocking send.
LoopDrops(s) ==
    /\ running
    /\ s \in todo
    /\ ~Room(s)
    /\ todo' = todo \ {s}
    /\ UNCHANGED <<chanVars, subs, running, cancelled, pubVars, subVars, log, inbox>>

-----------------------------------------------------------------------------
LoopStep ==
    \/ LoopReturns
    \/ LoopSubscribes
    \/ LoopUnsubscribes
    \/ LoopTakes
    \/ \E s \in Subscribers : LoopSends(s) \/ LoopDrops(s)

Next ==
    \/ LoopStep
    \/ Cancel
    \/ \E p \in Publishers : Publish(p) \/ PublishSend(p)
    \/ \E s \in Subscribers :
          \/ Subscribe(s) \/ SubscribeSend(s)
          \/ ContextDone(s) \/ UnsubscribeSend(s)
          \/ Receive(s)

Spec == Init /\ [][Next]_vars

(* The loop runs whenever a case of its select is ready, and whoever waits *)
(* to send on a channel sends once there is room for good.  Nobody has to  *)
(* receive, subscribe, publish or cancel.  (Go serves waiting senders in   *)
(* order and select picks ready cases at random, which is more; with       *)
(* MaxPublish events nobody can be overtaken for ever.)                    *)
Fairness ==
    /\ WF_vars(LoopStep)
    /\ \A p \in Publishers : WF_vars(PublishSend(p))
    /\ \A s \in Subscribers : WF_vars(SubscribeSend(s)) /\ WF_vars(UnsubscribeSend(s))

FairSpec == Spec /\ Fairness

-----------------------------------------------------------------------------
(* Every variable has its type; the channels hold no more than they can.   *)
TypeOK ==
    /\ publishCh \in Seq(Event) /\ Len(publishCh) <= 1
    /\ subCh \in Seq(Subscribers) /\ Len(subCh) <= 1
    /\ unsubCh \in Seq(Subscribers) /\ Len(unsubCh) <= 1
    /\ subs \subseteq Subscribers
    /\ todo \subseteq Subscribers
    /\ running \in BOOLEAN /\ cancelled \in BOOLEAN
    /\ pending \subseteq Publishers
    /\ published \in [Publishers -> Nat]
    /\ stage \in [Subscribers -> Stages]
    /\ log \in Seq([from : Publishers, seq : Nat, audience : SUBSET Subscribers])
    /\ inbox \in [Subscribers -> Seq(Nat)]
    /\ read \in [Subscribers -> Nat]
    /\ \A s \in Subscribers :
          read[s] <= Len(inbox[s]) /\ Len(inbox[s]) <= read[s] + Buffer

\* The loop is done with event i for subscriber s, who was subscribed when the
\* loop took it, and has not sent it.
Missed(s, i) ==
    /\ s \in log[i].audience
    /\ i = Len(log) => s \notin todo
    /\ \A j \in 1 .. Len(inbox[s]) : inbox[s][j] # i

\* The non-blocking send of broker.Start drops an event for a subscriber only
\* after Buffer earlier events have filled that subscriber's channel: the first
\* Buffer events of a subscription always arrive, whoever else is slow.
OnlyFullChannelDrops ==
    \A s \in Subscribers : \A i \in 1 .. Len(log) :
        Missed(s, i) => Len(inbox[s]) >= Buffer /\ inbox[s][Buffer] < i

\* No subscription gets lost between Subscribe and the loop, and none is made up: from
\* the return of Subscribe until the loop takes its end, a subscription is in subCh or
\* in the map, never in both, and before it is in neither.
SubscriptionsKept ==
    \A s \in Subscribers :
        /\ stage[s] \in {"subscribed", "done"} \/ unsubCh = <<s>> =>
              (s \in subs) # (subCh = <<s>>)
        /\ stage[s] \in {"new", "subscribing"} => s \notin subs /\ subCh # <<s>>

\* Whatever the order in which the select takes the start and the end of a
\* subscription, its events are consecutive: a subscriber that misses the audience of
\* an event, having been in one before, is in none again.
SubscriptionIsInterval ==
    \A s \in Subscribers : \A i, j, k \in 1 .. Len(log) :
        i < j /\ j < k /\ s \in log[i].audience /\ s \notin log[j].audience =>
            s \notin log[k].audience

\* client/broker.go:201: the non-blocking send protects the broker.  A broadcast ends
\* though no subscriber ever receives, and Publish returns, unless the loop has
\* returned: the event handlers of the informers are not held up by subscribers.
SubscribersHoldUpNobody ==
    /\ (todo # {}) ~> (todo = {})
    /\ \A p \in Publishers : (p \in pending) ~> (p \notin pending \/ ~running)

\* Subscribe returns and the loop knows the subscriber, unless the loop has returned or
\* the subscriber's context has ended; a subscriber the loop knows when its context
\* ends is forgotten by the loop.
SubscriptionsTakeEffect ==
    \A s \in Subscribers :
        /\ (stage[s] = "subscribing") ~>
              (s \in subs \/ stage[s] \in {"done", "unsubscribed"} \/ ~running)
        /\ (stage[s] = "done" /\ s \in subs) ~> (s \notin subs \/ ~running)

\* README.md:105: a resource is reprocessed when a tracked duck is updated, so
\* as long as the manager runs every event reaches every subscriber.
EveryEventDelivered ==
    ~cancelled => \A s \in Subscribers : \A i \in 1 .. Len(log) : ~Missed(s, i)

-----------------------------------------------------------------------------
(* The broker implements PubSub.  An event is accepted when the loop takes *)
(* it from publishCh.                                                      *)

Accepted ==
    [p \in Publishers |->
        IF publishCh # <<>> /\ Head(publishCh).from = p THEN published[p] - 1
                                                        ELSE published[p]]

PS == INSTANCE PubSub WITH accepted <- Accepted

\* The loop hands a subscriber events at most once, in the order it took them,
\* and only those it took while that subscriber was subscribed; events of one
\* publisher are taken once and in order.
ImplementsPubSub == PS!Spec

\* So what PubSub lets subscribers rely on holds of broker.Start: no event that Publish
\* handed over is skipped or taken twice, and none overtakes another on its way.
DeliveredInOrder == PS!OnceInOrder

=============================================================================
