\* The consumers may wait for ever for an element nobody pushes.
SPECIFICATION Spec
CONSTANTS
    Producers = {p1, p2}
    Consumers = {c1, c2}
    NoThread = NoThread
    MaxPushes = 2
PROPERTIES
    ImplementsFifo
    EveryElementPopped
    ReleaseWakesWaiting
CHECK_DEADLOCK FALSE
