\* Two publishers with three events, two subscribers; the second event in a row
\* finds a full channel.
SPECIFICATION FairSpec
CONSTANTS
    Subscribers = {s1, s2}
    Publishers = {p1, p2}
    Buffer = 1
    MaxPublish <- TwoAndOne
INVARIANTS
    TypeOK
    OnlyFullChannelDrops
    SubscriptionsKept
    SubscriptionIsInterval
PROPERTIES
    ImplementsPubSub
    SubscribersHoldUpNobody
    SubscriptionsTakeEffect
\* Once the loop has returned nothing need happen.
CHECK_DEADLOCK FALSE
