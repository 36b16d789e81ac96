------------------------------ MODULE Tables ------------------------------
(***************************************************************************)
(* The rows of the payments and balances tables and the SQL statements     *)
(* that PaymentRepo and BalanceRepo run on them.  Every statement is one   *)
(* atomic step of PostgreSQL; the code never puts two of them in one       *)
(* transaction, so the modules that use these operators take one step per  *)
(* statement.                                                              *)
(***************************************************************************)
EXTENDS Fees, Sequences

PaymentStatus ==
    {"pending", "in_progress", "completed", "failed", "cancelled",
     "refunded", "chargeback"}

(* A row of payments; status "none" stands for the absence of a row.  The  *)
(* CHECK constraints make the four amounts natural numbers.                *)
PaymentRow ==
    [status : PaymentStatus \cup {"none"},
     gross : Nat, openpayFee : Nat, platformFee : Nat, net : Nat]

NoPayment ==
    [status |-> "none", gross |-> 0, openpayFee |-> 0, platformFee |-> 0,
     net |-> 0]

(* INSERT of a new payment: the fee columns stay zero until the charge is  *)
(* settled.                                                                *)
CreateRow(gross, status) ==
    [status |-> status, gross |-> gross, openpayFee |-> 0, platformFee |-> 0,
     net |-> 0]

(* Deviation: the stored net leaves out the platform fee.                  *)
SettleRowWithoutFee(fees) ==
    [status |-> "completed", gross |-> fees.gross,
     openpayFee |-> fees.openpayFee, platformFee |-> fees.platformFee,
     net |-> fees.gross - fees.openpayFee]

(* SettlePayment: one unconditional UPDATE of the four amounts and of the  *)
(* status, whatever the status was.                                        *)
SettleRow(fees) ==
    [status |-> "completed", gross |-> fees.gross,
     openpayFee |-> fees.openpayFee, platformFee |-> fees.platformFee,
     net |-> fees.net]

(* Deviation: the status is written together with cleared amounts.         *)
UpdateStatusClears(row, status) == CreateRow(row.gross, status)

(* UpdateStatus: one unconditional UPDATE of the status.                   *)
UpdateStatusRow(row, status) == [row EXCEPT !.status = status]

-----------------------------------------------------------------------------
(* A tenant's rows in balances, in insertion order: the UNIQUE constraint  *)
(* does not bind rows whose member_id is NULL, so there may be several.    *)
BalanceRow == [available : Nat, pending : Nat]

Greatest(a, b) == IF a >= b THEN a ELSE b

(* Deviations: the gross amount is credited; pending may fall below zero.  *)
CreditUpdateGross(rows, gross, net) ==
    [i \in DOMAIN rows |->
        [available |-> rows[i].available + gross,
         pending |-> Greatest(0, rows[i].pending - gross)]]
CreditUpdateUnclamped(rows, gross, net) ==
    [i \in DOMAIN rows |->
        [available |-> rows[i].available + net,
         pending |-> rows[i].pending - gross]]

(* The UPDATE of CreditSettlement reaches every row of the tenant.         *)
CreditUpdateRows(rows, gross, net) ==
    [i \in DOMAIN rows |->
        [available |-> rows[i].available + net,
         pending |-> Greatest(0, rows[i].pending - gross)]]

(* The INSERT of CreditSettlement, run when the UPDATE matched no row.     *)
CreditInsertRow(rows, net) == Append(rows, [available |-> net, pending |-> 0])
=============================================================================
