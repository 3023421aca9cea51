SPECIFICATION FairSpec
CONSTANTS
    e1 = e1
    e2 = e2
    f1 = f1
    f2 = f2
    p1 = p1
    p2 = p2
    p3 = p3
    NoEvent = NoEvent
    Events = {e1, e2}
    Facts = {f1, f2}
    FactOf <- OwnFacts
    Producers = {p1, p2, p3}
    MaxAborts = 2
INVARIANTS
    AllOrNothing
PROPERTIES
    PersistReturns
