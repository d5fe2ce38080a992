\* One subscriber, six events, room for five as in the code.
SPECIFICATION Spec
CONSTANTS
    Subscribers = {s1}
    Publishers = {p1}
    Buffer = 5
    MaxPublish <- Six
INVARIANT
    EveryEventDelivered
CHECK_DEADLOCK FALSE
