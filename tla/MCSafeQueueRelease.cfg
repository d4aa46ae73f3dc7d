\* The comment on Release, which the code does not keep.
SPECIFICATION Spec
CONSTANTS
    Producers = {p1}
    Consumers = {c1}
    NoThread = NoThread
    MaxPushes = 1
PROPERTIES
    ReleaseStopsBlocking
CHECK_DEADLOCK FALSE
