--------------------------- MODULE ExactlyOnceEffect ---------------------------
(***************************************************************************)
(* What the delivery pipeline promises of an operational event: once its   *)
(* transaction commits its effect is applied at most once, unless the      *)
(* message is given up, and never before the commit or after giving up.    *)
(* task-7-outbox-inbox-idempotency.md calls it exactly-once effect over    *)
(* at-least-once delivery.                                                 *)
(***************************************************************************)
EXTENDS Naturals

CONSTANT Events

VARIABLES
    fate,     \* fate[e]: how far event e came
    effects   \* effects[e]: how often the business effect of e took place

effectVars == <<fate, effects>>

Init == fate = [e \in Events |-> "unknown"] /\ effects = [e \in Events |-> 0]

Become(e, before, after) == fate[e] = before /\ fate' = [fate EXCEPT ![e] = after]

Commit(e) == Become(e, "unknown", "committed") /\ UNCHANGED effects

Apply(e) == Become(e, "committed", "applied") /\ effects' = [effects EXCEPT ![e] = 1]

GiveUp(e) == Become(e, "committed", "given_up") /\ UNCHANGED effects

Next == \E e \in Events : Commit(e) \/ Apply(e) \/ GiveUp(e)

Spec == Init /\ [][Next]_effectVars
=============================================================================
