----------------------- MODULE MCOperationalPersistence -----------------------
EXTENDS OperationalPersistence, TLC

CONSTANTS e1, e2, f1, f2, p1, p2, p3

\* One fact per event.
OwnFacts == e1 :> f1 @@ e2 :> f2
=============================================================================
