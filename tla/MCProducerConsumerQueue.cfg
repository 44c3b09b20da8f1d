SPECIFICATION Spec
CONSTANTS
    i1 = i1
    i2 = i2
    i3 = i3
    c1 = c1
    c2 = c2
    c3 = c3
    NoItem = NoItem
    Items <- MCItems
    Consumers <- MCConsumers
INVARIANTS
    ExactlyOnceInOrder
    NoLostWakeup
PROPERTIES
    QueuedIsServed
    CancelEndsConsumers
    Implements
CHECK_DEADLOCK FALSE
