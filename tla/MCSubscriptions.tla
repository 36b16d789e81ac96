-------------------------- MODULE MCSubscriptions --------------------------
(* Instances of Subscriptions for TLC. *)
EXTENDS Subscriptions, TLC

Symmetry ==
    Permutations(Charges) \cup Permutations(Attempts) \cup Permutations(Workers)

(* What OpenPay does in one behaviour: three captures, declines or ends,   *)
(* or the capture of one charge and its reversal.                          *)
Focus ==
    LET ended == IF provider \in {"cancelled", "unpaid"} THEN 1 ELSE 0
    IN  IF reversed = {}
        THEN Cardinality(captured) + Cardinality(declined) + ended <= 3
        ELSE Cardinality(captured) + ended = 1 /\ declined = {}
=============================================================================
