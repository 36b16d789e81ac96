------------------------------- MODULE Fees -------------------------------
(***************************************************************************)
(* The three-way split of a charge (internal/domain/payment.go) and the    *)
(* rules that decide which tenant fees and which splits can be stored.     *)
(*                                                                         *)
(* Everything is a pure operator on integers: amounts are centavos, and a  *)
(* peso amount that OpenPay reports as a float is an integer number of     *)
(* thousandths of a peso.  int64 overflow is out of reach (gross times     *)
(* basis points would need a charge of some 9*10^14 centavos), so the      *)
(* integers are unbounded.                                                 *)
(***************************************************************************)
EXTENDS Integers

FeeTypes == {"added", "inclusive"}

(* A tenant's fee: the two columns of PlatformFeeConfig and the fee type.  *)
FeeConfigSet(bps, fixed) ==
    [percentageBPS : bps, fixedCentavos : fixed, feeType : FeeTypes]

FeeConfig == FeeConfigSet(Int, Int)

(* validateFee: at least one component, none negative, no upper bound.     *)
FeeValid(fee) ==
    /\ fee.percentageBPS # 0 \/ fee.fixedCentavos # 0
    /\ fee.percentageBPS >= 0
    /\ fee.fixedCentavos >= 0

(* The fee of feeFromProto when a request carries none: 1.5 %.             *)
DefaultFee == [percentageBPS |-> 150, fixedCentavos |-> 0]

(* math.Round(pesos * 100) on a float64: what it may return.  The product  *)
(* of the binary fraction misses the decimal one by less than a thousandth *)
(* of a centavo (for amounts up to 10^10 pesos), which decides only about  *)
(* an amount on half a centavo: 1.005 pesos become 100 centavos, 4.965     *)
(* become 497.                                                             *)
FloatToCentavos(millipesos) ==
    {(100 * millipesos + noise + 500) \div 1000 : noise \in -1 .. 1}

(* What the tenant's fee comes to on a charge.  Go's division truncates,   *)
(* which is \div on the non-negative operands met here.                    *)
ComputedFee(gross, fee) ==
    (gross * fee.percentageBPS) \div 10000 + fee.fixedCentavos

PlatformFee(gross, openpayFee, fee) ==
    IF fee.feeType = "inclusive"
    THEN ComputedFee(gross, fee) - openpayFee
    ELSE ComputedFee(gross, fee)

NetAmount(gross, openpayFee, fee) ==
    IF fee.feeType = "inclusive"
    THEN gross - ComputedFee(gross, fee)
    ELSE gross - openpayFee - ComputedFee(gross, fee)

(* repository.PaymentFees as the webhook handlers fill it in.              *)
NetAmountForCharge(gross, openpayFee, fee) ==
    [gross |-> gross,
     openpayFee |-> openpayFee,
     platformFee |-> PlatformFee(gross, openpayFee, fee),
     net |-> NetAmount(gross, openpayFee, fee)]

(* The CHECK constraints of the payments table on the four fee columns:    *)
(* an UPDATE that breaks one of them fails and changes nothing.            *)
RowAccepted(fees) ==
    /\ fees.gross >= 0
    /\ fees.openpayFee >= 0
    /\ fees.platformFee >= 0
    /\ fees.net >= 0

(* The split accounts for every centavo that the member paid.              *)
Conserves(fees) == fees.gross = fees.openpayFee + fees.platformFee + fees.net
=============================================================================
