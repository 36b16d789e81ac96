--------------------------- MODULE MCSettlement ---------------------------
(* Instances of Settlement for TLC. *)
EXTENDS Settlement, TLC

CONSTANTS c1, c2, t1

MCTenantOf == [c \in Charges |-> t1]
(* What OpenPay reports, in thousandths of a peso and off half a centavo.  *)
Centavos(millipesos) == CHOOSE c \in FloatToCentavos(millipesos) : TRUE
MCGross == [c \in Charges |-> Centavos(IF c = c1 THEN 10000 ELSE 4000)]
MCOpenpayFee == [c \in Charges |-> Centavos(IF c = c1 THEN 496 ELSE 204)]

(* 1.5 % added; a constant total fee that does not cover OpenPay's fee, so *)
(* that the payments table refuses the split.                              *)
Added == [percentageBPS |-> 150, fixedCentavos |-> 0, feeType |-> "added"]
Thin == [percentageBPS |-> 0, fixedCentavos |-> 10, feeType |-> "inclusive"]

OneFee == {Added}
TwoFees == {Added, Thin}
MCInitialFee == [t \in Tenants |-> Added]

WorkerSymmetry == Permutations(Workers)
=============================================================================
