---------------------------- MODULE Settlement ----------------------------
(***************************************************************************)
(* How a one-time charge becomes money in a tenant's balance.              *)
(*                                                                         *)
(* RedeemPaymentLink charges the card at OpenPay and then stores a payment *)
(* row; OpenPay notifies the outcome through webhook events, which it      *)
(* delivers again until one delivery is answered with 200; the ingress     *)
(* handlers settle the payment and credit the balance, one SQL statement   *)
(* at a time and outside any transaction; RefundPayment refunds at OpenPay *)
(* and then updates the row; an administrator deletes tenants and changes  *)
(* fees meanwhile.                                                         *)
(***************************************************************************)
EXTENDS Tables, FiniteSets, Functions

CONSTANTS
    Charges,       \* OpenPay charge ids
    NoCharge,      \* not a charge
    Tenants,
    TenantOf,      \* [Charges -> Tenants]
    Gross,         \* [Charges -> Nat], what the member pays
    OpenpayFee,    \* [Charges -> Nat], charge.fee_details in the notification
    FeeConfigs,    \* fees an administrator may give a tenant
    InitialFee,    \* [Tenants -> FeeConfigs]
    Workers,       \* requests to the ingress that may be in progress at once
    MaxFaults      \* bound on faults: crashes, lost answers, failed statements

ASSUME SettlementAssumption ==
    /\ NoCharge \notin Charges
    /\ IsFiniteSet(Workers)
    /\ TenantOf \in [Charges -> Tenants]
    /\ Gross \in [Charges -> Nat \ {0}]
    /\ OpenpayFee \in [Charges -> Nat]
    /\ FeeConfigs \subseteq FeeConfig
    /\ \A fee \in FeeConfigs : FeeValid(fee)
    /\ InitialFee \in [Tenants -> FeeConfigs]
    /\ MaxFaults \in Nat

VARIABLES
    (* OpenPay *)
    provider,   \* [Charges -> status of the charge at OpenPay]
    outbox,     \* events OpenPay has still to see acknowledged
    (* the database *)
    payments,   \* [Charges -> PaymentRow]: openpay_transaction_id is unique
    balances,   \* [Tenants -> Seq(BalanceRow)]
    active,     \* tenants that are not soft-deleted
    feeOf,      \* [Tenants -> FeeConfigs]
    (* requests in progress *)
    redeem,     \* [Charges -> where RedeemPaymentLink stands]
    refunding,  \* charges whose refund waits for its UPDATE
    handler,    \* [Workers -> where the webhook request stands]
    (* Kafka, and the CRITICAL log entry *)
    published,  \* [Charges -> SUBSET PaymentStatus]
    critical,   \* charges logged as settled but not credited
    (* observations, which no action reads *)
    credits,    \* [Charges -> number of credits of money to the balance]
    credited,   \* [Tenants -> money credited by them]
    faults      \* faults so far

database == <<payments, balances, active, feeOf>>
observed == <<published, critical, credits, credited>>
vars == <<provider, outbox, database, redeem, refunding, handler, observed,
          faults>>

-----------------------------------------------------------------------------
ProviderStatus == (PaymentStatus \ {"pending"}) \cup {"none"}

(* The money has been taken from the member's card.                        *)
Captured == {"completed", "refunded", "chargeback"}

(* An event announces that a charge reached a status.  By event type:      *)
(* charge.succeeded, charge.failed, charge.cancelled, charge.refunded and  *)
(* chargeback.accepted.                                                    *)
Announced == {"completed", "failed", "cancelled", "refunded", "chargeback"}

Event == [charge : Charges, status : Announced]
NoEvent == [charge |-> NoCharge, status |-> "none"]
EventFor(c, status) == [charge |-> c, status |-> status]
Success(c) == EventFor(c, "completed")

NoFees == [gross |-> 0, openpayFee |-> 0, platformFee |-> 0, net |-> 0]

(* A request: the statement it runs next, the event it serves, and the     *)
(* amounts it carries from one statement to the next.                      *)
Statement == {"find", "tenant", "settle", "status", "credit", "insert",
              "publish"}
Handler ==
    [pc : Statement \cup {"idle"}, event : Event \cup {NoEvent},
     fees : [gross : Nat, openpayFee : Nat, platformFee : Int, net : Int]]
Idle == [pc |-> "idle", event |-> NoEvent, fees |-> NoFees]

Serving(e) == {w \in Workers : handler[w].event = e}
ChargeAt(w) == handler[w].event.charge
TenantAt(w) == TenantOf[ChargeAt(w)]
IsSuccess(w) == handler[w].event.status = "completed"

(* The fee columns have been written by SettlePayment.                     *)
Settled(c) == payments[c].status # "none" /\ Conserves(payments[c])

(* The money was credited, or logged for manual reconciliation.            *)
Accounted(c) == credits[c] > 0 \/ c \in critical

TypeOK ==
    /\ provider \in [Charges -> ProviderStatus]
    /\ outbox \subseteq Event
    /\ payments \in [Charges -> PaymentRow]
    /\ balances \in [Tenants -> Seq(BalanceRow)]
    /\ active \subseteq Tenants
    /\ feeOf \in [Tenants -> FeeConfigs]
    /\ redeem \in [Charges ->
          {"idle", "in_progress", "completed", "recorded", "lost"}]
    /\ refunding \subseteq Charges
    /\ handler \in [Workers -> Handler]
    /\ published \in [Charges -> SUBSET PaymentStatus]
    /\ critical \subseteq Charges
    /\ credits \in [Charges -> Nat]
    /\ credited \in [Tenants -> Nat]
    /\ faults \in 0 .. MaxFaults

Init ==
    /\ provider = [c \in Charges |-> "none"]
    /\ outbox = {}
    /\ payments = [c \in Charges |-> NoPayment]
    /\ balances = [t \in Tenants |-> <<>>]
    /\ active = Tenants
    /\ feeOf = InitialFee
    /\ redeem = [c \in Charges |-> "idle"]
    /\ refunding = {}
    /\ handler = [w \in Workers |-> Idle]
    /\ published = [c \in Charges |-> {}]
    /\ critical = {}
    /\ credits = [c \in Charges |-> 0]
    /\ credited = [t \in Tenants |-> 0]
    /\ faults = 0

Fault == faults < MaxFaults /\ faults' = faults + 1

-----------------------------------------------------------------------------
(* OpenPay.                                                                *)

Notify(c, status) ==
    outbox' = IF status \in Announced
              THEN outbox \cup {EventFor(c, status)} ELSE outbox

(* A charge that was in progress (3-D Secure, a store) gets its outcome, a *)
(* captured one is refunded from OpenPay's dashboard or charged back.      *)
ProviderResolves(c) ==
    \E to \in Announced :
        /\ \/ /\ provider[c] = "in_progress"
              /\ to \in {"completed", "failed", "cancelled"}
           \/ /\ provider[c] = "completed"
              /\ to \in {"refunded", "chargeback"}
        /\ provider' = [provider EXCEPT ![c] = to]
        /\ Notify(c, to)
        /\ UNCHANGED <<database, redeem, refunding, handler, observed, faults>>

-----------------------------------------------------------------------------
(* RedeemPaymentLink: CreateCharge at OpenPay, then payments.Create.       *)

RedeemCharges(c) ==
    /\ redeem[c] = "idle"
    /\ TenantOf[c] \in active
    /\ \E status \in {"in_progress", "completed"} :
        /\ provider' = [provider EXCEPT ![c] = status]
        /\ redeem' = [redeem EXCEPT ![c] = status]
        /\ Notify(c, status)
    /\ UNCHANGED <<database, refunding, handler, observed, faults>>

(* Deviation: every row is inserted as completed.                          *)
RedeemRecordsCompleted(c) ==
    /\ redeem[c] \in {"in_progress", "completed"}
    /\ payments' = [payments EXCEPT ![c] = CreateRow(Gross[c], "completed")]
    /\ redeem' = [redeem EXCEPT ![c] = "recorded"]
    /\ UNCHANGED <<provider, outbox, balances, active, feeOf, refunding,
                   handler, observed, faults>>

(* The row takes its status from OpenPay's answer to CreateCharge.         *)
RedeemRecords(c) ==
    /\ redeem[c] \in {"in_progress", "completed"}
    /\ payments' = [payments EXCEPT ![c] = CreateRow(Gross[c], redeem[c])]
    /\ redeem' = [redeem EXCEPT ![c] = "recorded"]
    /\ UNCHANGED <<provider, outbox, balances, active, feeOf, refunding,
                   handler, observed, faults>>

(* The INSERT fails, or OpenPay's answer or the process is lost before it: *)
(* the charge exists and the payment never will.                           *)
RedeemLosesRecord(c) ==
    /\ redeem[c] \in {"in_progress", "completed"}
    /\ Fault
    /\ redeem' = [redeem EXCEPT ![c] = "lost"]
    /\ UNCHANGED <<provider, outbox, database, refunding, handler, observed>>

-----------------------------------------------------------------------------
(* RefundPayment.                                                          *)

(* The tenant's key must be valid, the row completed, and OpenPay must     *)
(* accept the refund, which it does of a captured charge.  Nothing is      *)
(* written between these.                                                  *)
RefundAtProvider(c) ==
    /\ TenantOf[c] \in active
    /\ payments[c].status = "completed"
    /\ provider[c] = "completed"
    /\ provider' = [provider EXCEPT ![c] = "refunded"]
    /\ Notify(c, "refunded")
    /\ refunding' = refunding \cup {c}
    /\ UNCHANGED <<database, redeem, handler, observed, faults>>

RefundStores(c) ==
    /\ c \in refunding
    /\ payments' = [payments EXCEPT ![c] = UpdateStatusRow(@, "refunded")]
    /\ refunding' = refunding \ {c}
    /\ UNCHANGED <<provider, outbox, balances, active, feeOf, redeem, handler,
                   observed, faults>>

(* "refund issued but status update failed".                               *)
RefundStoreFails(c) ==
    /\ c \in refunding
    /\ Fault
    /\ refunding' = refunding \ {c}
    /\ UNCHANGED <<provider, outbox, database, redeem, handler, observed>>

-----------------------------------------------------------------------------
(* The administrator: DeleteTenant and UpdateTenant.                       *)

DeleteTenant(t) ==
    /\ t \in active
    /\ active' = active \ {t}
    /\ UNCHANGED <<provider, outbox, payments, balances, feeOf, redeem,
                   refunding, handler, observed, faults>>

UpdateTenantFee(t) ==
    /\ t \in active
    /\ \E fee \in FeeConfigs :
        /\ fee # feeOf[t]
        /\ feeOf' = [feeOf EXCEPT ![t] = fee]
    /\ UNCHANGED <<provider, outbox, payments, balances, active, redeem,
                   refunding, handler, observed, faults>>

-----------------------------------------------------------------------------
(* The ingress: handleChargeSucceeded and handleChargeStatus.  A request   *)
(* that ends without a 200 leaves its event in the outbox.                 *)

Proceed(w, pc, fees) ==
    handler' = [handler EXCEPT ![w] =
                   [pc |-> pc, event |-> handler[w].event, fees |-> fees]]
Goto(w, pc) == Proceed(w, pc, handler[w].fees)
Answer(w) == handler' = [handler EXCEPT ![w] = Idle]

(* OpenPay delivers an event that is not acknowledged.  It waits for the   *)
(* answer, unless it times out and delivers the event once more.           *)
Deliver(w, e) ==
    /\ handler[w].pc = "idle"
    /\ e \in outbox
    /\ IF Serving(e) = {} THEN UNCHANGED faults ELSE Fault
    /\ handler' = [handler EXCEPT ![w] =
                      [pc |-> "find", event |-> e, fees |-> NoFees]]
    /\ UNCHANGED <<provider, outbox, database, redeem, refunding, observed>>

(* Deviation: a row that is completed already is taken for a settled one.  *)
FindPaymentSkipsCompleted(w) ==
    /\ handler[w].pc = "find"
    /\ payments[ChargeAt(w)].status # "none"
    /\ IF IsSuccess(w)
       THEN Goto(w, IF payments[ChargeAt(w)].status = "completed"
                    THEN "publish" ELSE "tenant")
       ELSE Proceed(w, "status",
                    [NoFees EXCEPT !.gross = payments[ChargeAt(w)].gross])
    /\ UNCHANGED <<provider, outbox, database, redeem, refunding, observed,
                   faults>>

(* GetByOpenpayTransactionID.  A handler of another outcome remembers the  *)
(* gross amount it read, to release it later.                              *)
FindPayment(w) ==
    /\ handler[w].pc = "find"
    /\ payments[ChargeAt(w)].status # "none"
    /\ IF IsSuccess(w)
       THEN Goto(w, "tenant")
       ELSE Proceed(w, "status",
                    [NoFees EXCEPT !.gross = payments[ChargeAt(w)].gross])
    /\ UNCHANGED <<provider, outbox, database, redeem, refunding, observed,
                   faults>>


(* Deviation: an unknown charge is answered 200.                           *)
PaymentNotFoundIgnored(w) ==
    /\ handler[w].pc = "find"
    /\ payments[ChargeAt(w)].status = "none"
    /\ outbox' = outbox \ {handler[w].event}
    /\ Answer(w)
    /\ UNCHANGED <<provider, database, redeem, refunding, observed, faults>>
PaymentNotFound(w) ==
    /\ handler[w].pc = "find"
    /\ payments[ChargeAt(w)].status = "none"
    /\ Answer(w)
    /\ UNCHANGED <<provider, outbox, database, redeem, refunding, observed,
                   faults>>

(* Deviation: the credit comes before the settlement.                      *)
ReadTenantCreditsFirst(w) ==
    /\ handler[w].pc = "tenant"
    /\ TenantAt(w) \in active
    /\ Proceed(w, "credit",
               NetAmountForCharge(Gross[ChargeAt(w)], OpenpayFee[ChargeAt(w)],
                                  feeOf[TenantAt(w)]))
    /\ UNCHANGED <<provider, outbox, database, redeem, refunding, observed,
                   faults>>

(* tenants.GetByID and the split at the fee the tenant has by then.        *)
ReadTenant(w) ==
    /\ handler[w].pc = "tenant"
    /\ TenantAt(w) \in active
    /\ Proceed(w, "settle",
               NetAmountForCharge(Gross[ChargeAt(w)], OpenpayFee[ChargeAt(w)],
                                  feeOf[TenantAt(w)]))
    /\ UNCHANGED <<provider, outbox, database, redeem, refunding, observed,
                   faults>>

(* GetByID does not see a soft-deleted tenant.                             *)
TenantNotFound(w) ==
    /\ handler[w].pc = "tenant"
    /\ TenantAt(w) \notin active
    /\ Answer(w)
    /\ UNCHANGED <<provider, outbox, database, redeem, refunding, observed,
                   faults>>

Settle(w) ==
    /\ handler[w].pc = "settle"
    /\ RowAccepted(handler[w].fees)
    /\ payments' = [payments EXCEPT ![ChargeAt(w)] =
                       SettleRow(handler[w].fees)]
    /\ Goto(w, "credit")
    /\ UNCHANGED <<provider, outbox, balances, active, feeOf, redeem,
                   refunding, observed, faults>>

(* A CHECK constraint of the table refuses the split.                      *)
SettleRejected(w) ==
    /\ handler[w].pc = "settle"
    /\ ~RowAccepted(handler[w].fees)
    /\ Answer(w)
    /\ UNCHANGED <<provider, outbox, database, redeem, refunding, observed,
                   faults>>

(* Deviation: only a payment in progress takes another outcome.            *)
StoreStatusOnce(w) ==
    /\ handler[w].pc = "status"
    /\ IF payments[ChargeAt(w)].status = "in_progress"
       THEN /\ payments' = [payments EXCEPT ![ChargeAt(w)] =
                               UpdateStatusRow(@, handler[w].event.status)]
            /\ Goto(w, IF handler[w].fees.gross > 0 THEN "credit" ELSE "publish")
       ELSE Answer(w) /\ UNCHANGED payments
    /\ UNCHANGED <<provider, outbox, balances, active, feeOf, redeem,
                   refunding, observed, faults>>

(* UpdateStatus to the status announced; the release of the gross amount   *)
(* is skipped if the row read before had none.                             *)
StoreStatus(w) ==
    /\ handler[w].pc = "status"
    /\ payments' = [payments EXCEPT ![ChargeAt(w)] =
                       UpdateStatusRow(@, handler[w].event.status)]
    /\ Goto(w, IF handler[w].fees.gross > 0 THEN "credit" ELSE "publish")
    /\ UNCHANGED <<provider, outbox, balances, active, feeOf, redeem,
                   refunding, observed, faults>>

(* What CreditSettlement did for a charge, once its statement succeeded.   *)
Observe(w) ==
    /\ credited' = [credited EXCEPT ![TenantAt(w)] = @ + handler[w].fees.net]
    /\ credits' = IF IsSuccess(w) THEN [credits EXCEPT ![ChargeAt(w)] = @ + 1]
                                  ELSE credits

(* The UPDATE of CreditSettlement; another outcome passes a net of zero.   *)
CreditUpdate(w) ==
    /\ handler[w].pc = "credit"
    /\ balances[TenantAt(w)] # <<>>
    /\ balances' = [balances EXCEPT ![TenantAt(w)] =
           CreditUpdateRows(@, handler[w].fees.gross, handler[w].fees.net)]
    /\ Observe(w)
    /\ Goto(w, "publish")
    /\ UNCHANGED <<provider, outbox, payments, active, feeOf, redeem,
                   refunding, published, critical, faults>>

(* The UPDATE matched no row: an INSERT follows, as a statement of its own.*)
CreditMissesRow(w) ==
    /\ handler[w].pc = "credit"
    /\ balances[TenantAt(w)] = <<>>
    /\ Goto(w, "insert")
    /\ UNCHANGED <<provider, outbox, database, redeem, refunding, observed,
                   faults>>


(* Deviation: the INSERT is followed by the UPDATE once more.              *)
CreditInsertThenUpdate(w) ==
    /\ handler[w].pc = "insert"
    /\ balances' = [balances EXCEPT ![TenantAt(w)] =
                       CreditInsertRow(@, handler[w].fees.net)]
    /\ Observe(w)
    /\ Goto(w, "credit")
    /\ UNCHANGED <<provider, outbox, payments, active, feeOf, redeem,
                   refunding, published, critical, faults>>
CreditInsert(w) ==
    /\ handler[w].pc = "insert"
    /\ balances' = [balances EXCEPT ![TenantAt(w)] =
                       CreditInsertRow(@, handler[w].fees.net)]
    /\ Observe(w)
    /\ Goto(w, "publish")
    /\ UNCHANGED <<provider, outbox, payments, active, feeOf, redeem,
                   refunding, published, critical, faults>>

(* Deviation: the failure leaves no CRITICAL entry.                        *)
CreditFailsSilently(w) ==
    /\ handler[w].pc \in {"credit", "insert"}
    /\ Fault
    /\ Goto(w, "publish")
    /\ UNCHANGED <<provider, outbox, database, redeem, refunding, observed>>

(* The credit fails: the handler logs it and goes on to answer 200.        *)
CreditFails(w) ==
    /\ handler[w].pc \in {"credit", "insert"}
    /\ Fault
    /\ critical' = IF IsSuccess(w) THEN critical \cup {ChargeAt(w)}
                                   ELSE critical
    /\ Goto(w, "publish")
    /\ UNCHANGED <<provider, outbox, database, redeem, refunding, published,
                   credits, credited>>

PublishEvent(w) ==
    published' = [published EXCEPT ![ChargeAt(w)] =
                     @ \cup {handler[w].event.status}]

(* PublishPaymentEvent and the answer 200.                                 *)
PublishAndAnswer(w) ==
    /\ handler[w].pc = "publish"
    /\ PublishEvent(w)
    /\ outbox' = outbox \ {handler[w].event}
    /\ Answer(w)
    /\ UNCHANGED <<provider, database, redeem, refunding, critical, credits,
                   credited, faults>>

(* A failure to publish is logged and the answer is 200 all the same.      *)
PublishFails(w) ==
    /\ handler[w].pc = "publish"
    /\ Fault
    /\ outbox' = outbox \ {handler[w].event}
    /\ Answer(w)
    /\ UNCHANGED <<provider, database, redeem, refunding, observed>>

(* The answer 200 does not reach OpenPay.                                  *)
AnswerLost(w) ==
    /\ handler[w].pc = "publish"
    /\ Fault
    /\ PublishEvent(w)
    /\ Answer(w)
    /\ UNCHANGED <<provider, outbox, database, redeem, refunding, critical,
                   credits, credited>>

(* The process stops anywhere in a handler, or a statement before the      *)
(* credit fails and the answer is 500.                                     *)
Abort(w) ==
    /\ handler[w].pc # "idle"
    /\ Fault
    /\ Answer(w)
    /\ UNCHANGED <<provider, outbox, database, redeem, refunding, observed>>

-----------------------------------------------------------------------------
HandlerStep(w) ==
    \/ FindPayment(w) \/ PaymentNotFound(w)
    \/ ReadTenant(w) \/ TenantNotFound(w)
    \/ Settle(w) \/ SettleRejected(w)
    \/ StoreStatus(w)
    \/ CreditUpdate(w) \/ CreditMissesRow(w) \/ CreditInsert(w)
    \/ PublishAndAnswer(w)

HandlerFault(w) ==
    CreditFails(w) \/ PublishFails(w) \/ AnswerLost(w) \/ Abort(w)

ChargeStep(c) ==
    \/ ProviderResolves(c)
    \/ RedeemCharges(c) \/ RedeemRecords(c) \/ RedeemLosesRecord(c)
    \/ RefundAtProvider(c) \/ RefundStores(c) \/ RefundStoreFails(c)

Next ==
    \/ \E c \in Charges : ChargeStep(c)
    \/ \E t \in Tenants : DeleteTenant(t) \/ UpdateTenantFee(t)
    \/ \E w \in Workers : HandlerStep(w) \/ HandlerFault(w)
    \/ \E w \in Workers, e \in outbox : Deliver(w, e)

Spec == Init /\ [][Next]_vars

(* A goroutine keeps running, so each request in progress takes its next   *)
(* statement.  OpenPay retries every event on a schedule of its own and    *)
(* each delivery gets a goroutine, so no event is passed over for ever.    *)
Fairness ==
    /\ \A w \in Workers : WF_vars(HandlerStep(w))
    /\ \A c \in Charges : WF_vars(RedeemRecords(c)) /\ WF_vars(RefundStores(c))
    /\ \A e \in Event : SF_vars(\E w \in Workers : Deliver(w, e))

FairSpec == Spec /\ Fairness

-----------------------------------------------------------------------------
(* Safety.                                                                 *)

(* A charge is credited at most once more than there were faults: each     *)
(* crash, lost answer or early redelivery lets handleChargeSucceeded run   *)
(* its credit one more time, and nothing else does.                        *)
CreditsBoundedByFaults == \A c \in Charges : credits[c] <= 1 + faults

(* OpenPay is told 200 for a captured charge only after the payment row    *)
(* carries its split and the balance was credited or the CRITICAL entry    *)
(* for manual reconciliation was logged.                                   *)
AckedSuccessIsAccounted ==
    \A c \in Charges :
        provider[c] \in Captured /\ Success(c) \notin outbox =>
            Settled(c) /\ Accounted(c)

(* The status of a stored payment was the status of the charge at OpenPay  *)
(* at some time: the code never runs ahead of OpenPay, through the webhook,*)
(* the redemption or the refund.                                           *)
StatusNeverAheadOfProvider ==
    \A c \in Charges :
        /\ payments[c].status = "completed" => provider[c] \in Captured
        /\ payments[c].status \notin {"none", "in_progress", "completed"} =>
              provider[c] = payments[c].status

(* Only captured money is ever credited, and it is credited after the      *)
(* split that explains it was stored.                                      *)
CreditedIsSettled ==
    \A c \in Charges :
        credits[c] > 0 => Settled(c) /\ provider[c] \in Captured

RowTotal(t) ==
    SumFunction([i \in DOMAIN balances[t] |-> balances[t][i].available])

(* Whatever row GetTenantBalance happens to return, it never shows more    *)
(* than was credited, and the rows together never show less: duplicate     *)
(* rows of a tenant overlap, they do not lose money.                       *)
BalanceBrackets ==
    \A t \in Tenants :
        /\ \A i \in DOMAIN balances[t] : balances[t][i].available <= credited[t]
        /\ credited[t] <= RowTotal(t)

(* While fees do not change, what was credited to a tenant is the net of   *)
(* the stored splits of its charges, once for each credit.                 *)
LedgerAgreesWithSplits ==
    \A t \in Tenants :
        credited[t] = SumFunctionOnSet(
            [c \in Charges |-> credits[c] * payments[c].net],
            {c \in Charges : TenantOf[c] = t})

-----------------------------------------------------------------------------
(* Action properties.                                                      *)

(* The split of a settled payment changes only through another settlement, *)
(* and that one makes the payment completed; refunds, chargebacks and late *)
(* notifications keep the amounts.                                         *)
SplitSurvives ==
    [][\A c \in Charges :
          Settled(c) =>
             \/ payments'[c] = [payments[c] EXCEPT !.status = payments'[c].status]
             \/ payments'[c].status = "completed" /\ Settled(c)']_payments

-----------------------------------------------------------------------------
(* Liveness.                                                               *)

(* The fee that the tenant has now makes a split the payments table        *)
(* refuses, so that SettlePayment fails at every delivery.                 *)
Unstorable(c) ==
    ~RowAccepted(NetAmountForCharge(Gross[c], OpenpayFee[c], feeOf[TenantOf[c]]))

(* A captured charge whose payment was stored is credited in the end, or   *)
(* logged for reconciliation, unless its tenant is deleted or has a fee    *)
(* whose split cannot be stored.                                           *)
SuccessIsAccountedFor ==
    \A c \in Charges :
        provider[c] = "completed" /\ redeem[c] = "recorded"
            ~> \/ Accounted(c)
               \/ TenantOf[c] \notin active
               \/ Unstorable(c)

(* Every notification of a stored payment is acknowledged in the end; only *)
(* the deletion of the tenant or an unstorable split makes a handler fail  *)
(* for ever, and only that of a captured charge.                           *)
OutboxDrains ==
    \A c \in Charges : \A status \in Announced :
        EventFor(c, status) \in outbox /\ redeem[c] = "recorded"
            ~> \/ EventFor(c, status) \notin outbox
               \/ /\ status = "completed"
                  /\ TenantOf[c] \notin active \/ Unstorable(c)

-----------------------------------------------------------------------------
(* Refinement.                                                             *)

Promise == INSTANCE ChargePromise WITH
    captured <- {c \in Charges : provider[c] \in Captured},
    settled <- {c \in Charges : Settled(c)},
    accounted <- {c \in Charges : Accounted(c)},
    acknowledged <- {c \in Charges : /\ provider[c] \in Captured
                                     /\ Success(c) \notin outbox}

(* Crashes, repeated deliveries and refunds included, the money of each    *)
(* charge goes through capture, split, credit and acknowledgement in this  *)
(* order and never back.                                                   *)
KeepsPromise == Promise!Spec

-----------------------------------------------------------------------------
(* What comments of the code state and the program does not ensure.        *)

(* One credit per charge, however often OpenPay notifies it.               *)
CreditedAtMostOnce == \A c \in Charges : credits[c] <= 1

(* The webhook settles a charge whose payment row could not be stored.     *)
WebhookSettlesLostRecord ==
    \A c \in Charges :
        provider[c] = "completed" /\ redeem[c] = "lost"
            ~> Settled(c) \/ TenantOf[c] \notin active
=============================================================================
