-------------------------- MODULE MCServerLifecycle --------------------------
(***************************************************************************)
(* Three requests over two connections, so that the pool can be exhausted  *)
(* when the signal comes: one of any kind, beside a booking that is moved  *)
(* (which nests a query) and a search or a refusal (which do not).         *)
(***************************************************************************)
EXTENDS ServerLifecycle

CONSTANTS r1, r2, r3

AnyBesideTwo == [r \in Req |-> CASE r = r1 -> AllPlans
                                 [] r = r2 -> {MovePlan}
                                 [] r = r3 -> {DeclinePlan, AvailabilityPlan}]
=============================================================================
