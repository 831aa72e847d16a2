SPECIFICATION LiveSpec
CONSTANTS
    t1 = t1
    t2 = t2
    c1 = c1
    None = None
    Producers = {t1, t2}
    Consumers = {c1}
    PageSize = 2
    MaxEvents = 5
INVARIANTS
    NothingSkipped
PROPERTIES
    EventsArrive
