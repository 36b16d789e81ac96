----------------------------- MODULE MCWebhooks -----------------------------
(* An instance of Webhooks for TLC: one subscription and one delivery of it.*)
EXTENDS Webhooks, TLC

CONSTANT s1

MCSubOf == [d \in Deliveries |-> s1]

(* Subscriptions are explored before there is a delivery, deliveries while *)
(* no request for the subscription runs: the dispatcher looks at neither   *)
(* column of a subscription, and the product of the two would not fit.     *)
Focus ==
    \/ \A d \in Deliveries : deliveries[d] = Null /\ sent[d] = 0
    \/ secrets <= 1 /\ \A r \in Calls : calls[r].op \notin {"update", "rotate"}

Symmetry == Permutations(Calls) \cup Permutations(Workers)
=============================================================================
