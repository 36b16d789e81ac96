---------------------------- MODULE Subscriptions ----------------------------
(***************************************************************************)
(* One subscription of a member to a plan.  OpenPay bills it by itself and *)
(* notifies every charge that it captures (twice: as charge.succeeded and  *)
(* as subscription.charge.succeeded), every attempt that is declined       *)
(* (twice: as charge.failed and as subscription.charge.failed), the        *)
(* refund, cancellation or chargeback of a captured charge, and the end of *)
(* the subscription.  The ingress creates and settles a payment for each   *)
(* captured charge, credits the tenant, and keeps status, failure counter  *)
(* and last charge of the subscriptions row, one statement at a time.  The *)
(* row is stored by CreateSubscription or by RedeemSubscriptionLink after  *)
(* OpenPay has created the subscription; RefundPayment refunds a payment   *)
(* of it as any other.                                                     *)
(* Amounts, which Settlement models, are left out: a credit is counted,    *)
(* and the release of a pending balance, which credits nothing, is not.    *)
(* So is cancel_at_period_end, which CancelSubscription sets and nothing   *)
(* reads.                                                                  *)
(***************************************************************************)
EXTENDS Integers, FiniteSets

CONSTANTS
    Charges,     \* OpenPay charge ids
    NoCharge,
    Attempts,    \* to capture one charge, of those that are declined
    Workers,     \* requests to the ingress that may be in progress at once
    MaxFaults    \* bound on faults: crashes, lost answers, failed statements

ASSUME SubscriptionsAssumption ==
    /\ IsFiniteSet(Charges) /\ IsFiniteSet(Attempts) /\ IsFiniteSet(Workers)
    /\ NoCharge \notin Charges
    /\ MaxFaults \in Nat

VARIABLES
    (* OpenPay *)
    provider,    \* status of the subscription
    captured,    \* charges that took the member's money
    declined,    \* the attempts that failed, with their charges
    reversed,    \* captured charges refunded, cancelled or charged back
    outbox,      \* events OpenPay has still to see acknowledged
    (* the database *)
    sub,         \* the row of subscriptions, or NoRow
    payments,    \* [Charges -> status of the payment, or "none"]
    split,       \* charges whose payment has its fee columns
    (* requests in progress *)
    creating,    \* the request that creates the subscription
    refunding,   \* charges whose RefundPayment waits for its UPDATE
    handler,     \* [Workers -> the webhook request]
    (* the log, and observations *)
    logged,      \* charges logged as settled but not credited
    credits,     \* [Charges -> number of credits of money to the balance]
    recorded,    \* charges that were the last charge of the row at some time
    faults       \* faults so far

openpay == <<provider, captured, declined, reversed>>
database == <<sub, payments, split>>
rpcs == <<creating, refunding>>
vars == <<openpay, outbox, database, rpcs, handler, logged, credits, recorded,
          faults>>

-----------------------------------------------------------------------------
SuccessTypes == {"charge.succeeded", "subscription.charge.succeeded"}
FailureTypes == {"charge.failed", "subscription.charge.failed"}
ReversalTypes == {"charge.cancelled", "charge.refunded", "chargeback.accepted"}
EndTypes == {"subscription.cancelled", "subscription.deactivated"}

EventOf(type, c) == [type |-> type, charge |-> c]
FailureOf(type, c, a) == [type |-> type, charge |-> c, attempt |-> a]
Event ==
    [type : SuccessTypes \cup ReversalTypes, charge : Charges]
    \cup [type : FailureTypes, charge : Charges, attempt : Attempts]
    \cup [type : EndTypes, charge : {NoCharge}]

Live == {"trial", "active", "past_due"}
SubscriptionStatus == Live \cup {"cancelled", "unpaid"}

(* OpenPay's status of a subscription that ended, and the event's type.    *)
StatusOf(type) ==
    IF type = "subscription.cancelled" THEN "cancelled" ELSE "unpaid"

PaymentStatus ==
    {"in_progress", "completed", "failed", "cancelled", "refunded", "chargeback"}

(* The status that a reversal gives the payment.                           *)
ReversedTo(type) ==
    CASE type = "charge.cancelled" -> "cancelled"
      [] type = "charge.refunded" -> "refunded"
      [] type = "chargeback.accepted" -> "chargeback"

Row ==
    [status : SubscriptionStatus, failed_charge_count : Nat,
     last_charge : Charges \cup {NoCharge}]
NoRow == [status |-> "none"]

Statement ==
    {"lookup", "create", "settle", "credit", "record",   \* a captured charge
     "increment", "fail",                                \* a declined attempt
     "reverse",                                          \* a refund, ...
     "update",                                           \* the end
     "answer"}
Idle == [pc |-> "idle"]

EventAt(w) == handler[w].event
ChargeAt(w) == EventAt(w).charge
Serving(e) == {w \in Workers : handler[w] # Idle /\ EventAt(w) = e}

TypeOK ==
    /\ provider \in SubscriptionStatus \cup {"none"}
    /\ captured \subseteq Charges /\ declined \subseteq Charges \X Attempts
    /\ reversed \subseteq Charges
    /\ outbox \subseteq Event
    /\ sub \in Row \cup {NoRow}
    /\ payments \in [Charges -> PaymentStatus \cup {"none"}]
    /\ split \subseteq Charges
    /\ creating \in {"idle", "trial", "active", "stored", "lost"}
    /\ refunding \subseteq Charges
    /\ handler \in [Workers -> {Idle} \cup [pc : Statement, event : Event]]
    /\ logged \subseteq Charges
    /\ credits \in [Charges -> Nat]
    /\ recorded \subseteq Charges
    /\ faults \in 0 .. MaxFaults

Init ==
    /\ provider = "none" /\ captured = {} /\ declined = {} /\ reversed = {}
    /\ outbox = {}
    /\ sub = NoRow
    /\ payments = [c \in Charges |-> "none"] /\ split = {}
    /\ creating = "idle" /\ refunding = {}
    /\ handler = [w \in Workers |-> Idle]
    /\ logged = {}
    /\ credits = [c \in Charges |-> 0] /\ recorded = {}
    /\ faults = 0

Fault == faults < MaxFaults /\ faults' = faults + 1

-----------------------------------------------------------------------------
(* OpenPay bills a cycle, or tries a declined charge again.                *)
ProviderCaptures(c) ==
    /\ provider \in Live /\ c \notin captured
    /\ captured' = captured \cup {c}
    /\ provider' = "active"
    /\ outbox' = outbox \cup {EventOf(type, c) : type \in SuccessTypes}
    /\ UNCHANGED <<declined, reversed, database, rpcs, handler, logged, credits,
                   recorded, faults>>

(* An attempt fails, and OpenPay tries again until it runs out of retries. *)
ProviderDeclines(c, a) ==
    /\ provider \in Live /\ c \notin captured /\ <<c, a>> \notin declined
    /\ declined' = declined \cup {<<c, a>>}
    /\ provider' = "past_due"
    /\ outbox' = outbox \cup {FailureOf(type, c, a) : type \in FailureTypes}
    /\ UNCHANGED <<captured, reversed, database, rpcs, handler, logged, credits,
                   recorded, faults>>

(* The charge is refunded or cancelled from OpenPay's dashboard, or charged *)
(* back.                                                                   *)
ProviderReverses(c) ==
    /\ c \in captured \ reversed
    /\ reversed' = reversed \cup {c}
    /\ \E type \in ReversalTypes : outbox' = outbox \cup {EventOf(type, c)}
    /\ UNCHANGED <<provider, captured, declined, database, rpcs, handler, logged,
                   credits, recorded, faults>>

(* The period of a cancelled subscription ends, or the retries do.         *)
ProviderEnds ==
    /\ provider \in Live
    /\ \E type \in EndTypes :
        /\ provider' = StatusOf(type)
        /\ outbox' = outbox \cup {EventOf(type, NoCharge)}
    /\ UNCHANGED <<captured, declined, reversed, database, rpcs, handler, logged,
                   credits, recorded, faults>>

-----------------------------------------------------------------------------
(* CreateSubscription, RedeemSubscriptionLink: at OpenPay, ...             *)
Subscribe ==
    /\ creating = "idle"
    /\ \E status \in {"trial", "active"} :
          provider' = status /\ creating' = status
    /\ UNCHANGED <<captured, declined, reversed, outbox, database, refunding,
                   handler, logged, credits, recorded, faults>>

(* ... and then the row, with the status of OpenPay's answer.              *)
StoreSubscription ==
    /\ creating \in {"trial", "active"}
    /\ sub' = [status |-> creating, failed_charge_count |-> 0,
               last_charge |-> NoCharge]
    /\ creating' = "stored"
    /\ UNCHANGED <<openpay, outbox, payments, split, refunding, handler, logged,
                   credits, recorded, faults>>

(* "subscription created on OpenPay but failed to persist locally".        *)
SubscriptionLost ==
    /\ creating \in {"trial", "active"}
    /\ Fault
    /\ creating' = "lost"
    /\ UNCHANGED <<openpay, outbox, database, refunding, handler, logged, credits,
                   recorded>>

(* RefundPayment: at OpenPay, which refunds a captured charge once.  The   *)
(* request has read the payment as completed, which only a settled one has *)
(* ever been; the status may have changed since.                           *)
RefundAtProvider(c) ==
    /\ c \in split \ reversed
    /\ reversed' = reversed \cup {c}
    /\ outbox' = outbox \cup {EventOf("charge.refunded", c)}
    /\ refunding' = refunding \cup {c}
    /\ UNCHANGED <<provider, captured, declined, database, creating, handler,
                   logged, credits, recorded, faults>>

RefundStores(c) ==
    /\ c \in refunding
    /\ payments' = [payments EXCEPT ![c] = "refunded"]
    /\ refunding' = refunding \ {c}
    /\ UNCHANGED <<openpay, outbox, sub, split, creating, handler, logged, credits,
                   recorded, faults>>

(* "refund issued but status update failed".                               *)
RefundStoreFails(c) ==
    /\ c \in refunding
    /\ Fault
    /\ refunding' = refunding \ {c}
    /\ UNCHANGED <<openpay, outbox, database, creating, handler, logged, credits,
                   recorded>>

-----------------------------------------------------------------------------
(* The ingress.  A request that ends without a 200 leaves its event in the *)
(* outbox.                                                                 *)
Goto(w, pc) ==
    handler' = [handler EXCEPT ![w] = [pc |-> pc, event |-> EventAt(w)]]
Drop(w) == handler' = [handler EXCEPT ![w] = Idle]

First(e) ==
    CASE e.type \in SuccessTypes -> "lookup"
      [] e.type \in FailureTypes -> "increment"
      [] e.type \in ReversalTypes -> "reverse"
      [] e.type \in EndTypes -> "update"

(* An event is delivered, and its subscription and (for a success) tenant  *)
(* are found; if not, the request changes nothing and is as good as none.  *)
(* OpenPay waits for the answer, unless it times out and delivers the      *)
(* event once more.                                                        *)
Receive(w, e) ==
    /\ handler[w] = Idle
    /\ e \in outbox
    /\ sub # NoRow
    /\ IF Serving(e) = {} THEN UNCHANGED faults ELSE Fault
    /\ handler' = [handler EXCEPT ![w] = [pc |-> First(e), event |-> e]]
    /\ UNCHANGED <<openpay, outbox, database, rpcs, logged, credits, recorded>>

(* Deviation: a payment that has its fee columns is taken for one that is  *)
(* done.                                                                   *)
LookUpSkipsSettled(w) ==
    /\ handler[w].pc = "lookup"
    /\ Goto(w, IF payments[ChargeAt(w)] = "none" THEN "create"
               ELSE IF ChargeAt(w) \in split THEN "answer"
               ELSE "settle")
    /\ UNCHANGED <<openpay, outbox, database, rpcs, logged, credits, recorded,
                   faults>>

(* GetByOpenpayTransactionID.                                              *)
LookUp(w) ==
    /\ handler[w].pc = "lookup"
    /\ Goto(w, IF payments[ChargeAt(w)] = "none" THEN "create" ELSE "settle")
    /\ UNCHANGED <<openpay, outbox, database, rpcs, logged, credits, recorded,
                   faults>>

CreatePayment(w) ==
    /\ handler[w].pc = "create"
    /\ payments[ChargeAt(w)] = "none"
    /\ payments' = [payments EXCEPT ![ChargeAt(w)] = "in_progress"]
    /\ Goto(w, "settle")
    /\ UNCHANGED <<openpay, outbox, sub, split, rpcs, logged, credits, recorded,
                   faults>>

(* Deviation: a payment that exists by now is taken for one that is done.  *)
CreateConflictAnswers(w) ==
    /\ handler[w].pc = "create"
    /\ payments[ChargeAt(w)] # "none"
    /\ outbox' = outbox \ {EventAt(w)}
    /\ Drop(w)
    /\ UNCHANGED <<openpay, database, rpcs, logged, credits, recorded, faults>>

(* Another request has stored the payment meanwhile: the unique index on   *)
(* openpay_transaction_id refuses a second one.                            *)
CreateConflicts(w) ==
    /\ handler[w].pc = "create"
    /\ payments[ChargeAt(w)] # "none"
    /\ Drop(w)
    /\ UNCHANGED <<openpay, outbox, database, rpcs, logged, credits, recorded,
                   faults>>

(* SettlePayment: fee columns and status, whatever the status was.         *)
Settle(w) ==
    /\ handler[w].pc = "settle"
    /\ payments' = [payments EXCEPT ![ChargeAt(w)] = "completed"]
    /\ split' = split \cup {ChargeAt(w)}
    /\ Goto(w, "credit")
    /\ UNCHANGED <<openpay, outbox, sub, rpcs, logged, credits, recorded,
                   faults>>

(* Deviation: a failed credit leads back to a new settlement.              *)
CreditRetries(w) ==
    /\ handler[w].pc = "credit"
    /\ credits' = [credits EXCEPT ![ChargeAt(w)] = @ + 1]
    /\ \E pc \in {"record", "settle"} : Goto(w, pc)
    /\ UNCHANGED <<openpay, outbox, database, rpcs, logged, recorded, faults>>

Credit(w) ==
    /\ handler[w].pc = "credit"
    /\ credits' = [credits EXCEPT ![ChargeAt(w)] = @ + 1]
    /\ Goto(w, "record")
    /\ UNCHANGED <<openpay, outbox, database, rpcs, logged, recorded, faults>>

(* "CRITICAL: subscription payment settled but balance credit failed".     *)
CreditFails(w) ==
    /\ handler[w].pc = "credit"
    /\ Fault
    /\ logged' = logged \cup {ChargeAt(w)}
    /\ Goto(w, "record")
    /\ UNCHANGED <<openpay, outbox, database, rpcs, credits, recorded>>

(* Deviation: every success makes the subscription active.                 *)
RecordActivates(w) ==
    /\ handler[w].pc = "record"
    /\ sub' = [sub EXCEPT !.last_charge = ChargeAt(w),
                          !.failed_charge_count = 0,
                          !.status = "active"]
    /\ recorded' = recorded \cup {ChargeAt(w)}
    /\ Goto(w, "answer")
    /\ UNCHANGED <<openpay, outbox, payments, split, rpcs, logged, credits, faults>>

RecordCharge(w) ==
    /\ handler[w].pc = "record"
    /\ sub' = [sub EXCEPT
                  !.last_charge = ChargeAt(w),
                  !.failed_charge_count = 0,
                  !.status = IF @ \in {"trial", "past_due"} THEN "active" ELSE @]
    /\ recorded' = recorded \cup {ChargeAt(w)}
    /\ Goto(w, "answer")
    /\ UNCHANGED <<openpay, outbox, payments, split, rpcs, logged, credits, faults>>

(* Logged, and answered 200 all the same.                                  *)
RecordFails(w) ==
    /\ handler[w].pc = "record"
    /\ Fault
    /\ Goto(w, "answer")
    /\ UNCHANGED <<openpay, outbox, database, rpcs, logged, credits, recorded>>

IncrementFailedCharge(w) ==
    /\ handler[w].pc = "increment"
    /\ sub' = [sub EXCEPT !.failed_charge_count = @ + 1, !.status = "past_due"]
    /\ Goto(w, "fail")
    /\ UNCHANGED <<openpay, outbox, payments, split, rpcs, logged, credits,
                   recorded, faults>>

(* UpdateStatus, if there is a payment.  An error is ignored.  The release *)
(* of the pending balance that follows credits nothing.                    *)
FailPayment(w) ==
    /\ handler[w].pc = "fail"
    /\ IF payments[ChargeAt(w)] = "none"
       THEN UNCHANGED <<payments, faults>>
       ELSE \/ /\ payments' = [payments EXCEPT ![ChargeAt(w)] = "failed"]
               /\ UNCHANGED faults
            \/ Fault /\ UNCHANGED payments
    /\ Goto(w, "answer")
    /\ UNCHANGED <<openpay, outbox, sub, split, rpcs, logged, credits, recorded>>

(* handleChargeStatus, for a refund, a cancellation or a chargeback: the   *)
(* payment is found and gets the status; the release of a pending balance  *)
(* credits nothing.                                                        *)
ReversePayment(w) ==
    /\ handler[w].pc = "reverse"
    /\ payments[ChargeAt(w)] # "none"
    /\ payments' = [payments EXCEPT ![ChargeAt(w)] = ReversedTo(EventAt(w).type)]
    /\ Goto(w, "answer")
    /\ UNCHANGED <<openpay, outbox, sub, split, rpcs, logged, credits, recorded,
                   faults>>

(* The notification came before the payment was created: 500.              *)
NoPayment(w) ==
    /\ handler[w].pc = "reverse"
    /\ payments[ChargeAt(w)] = "none"
    /\ Drop(w)
    /\ UNCHANGED <<openpay, outbox, database, rpcs, logged, credits, recorded,
                   faults>>

(* Deviation: the status is the word that OpenPay's event uses.            *)
UpdateStatusRaw(w) ==
    /\ handler[w].pc = "update"
    /\ sub' = [sub EXCEPT !.status =
                  IF EventAt(w).type = "subscription.cancelled"
                  THEN "cancelled" ELSE "deactivated"]
    /\ Goto(w, "answer")
    /\ UNCHANGED <<openpay, outbox, payments, split, rpcs, logged, credits,
                   recorded, faults>>

(* handleSubscriptionStatusChange.                                         *)
UpdateStatus(w) ==
    /\ handler[w].pc = "update"
    /\ sub' = [sub EXCEPT !.status = StatusOf(EventAt(w).type)]
    /\ Goto(w, "answer")
    /\ UNCHANGED <<openpay, outbox, payments, split, rpcs, logged, credits,
                   recorded, faults>>

(* Kafka, whose failure is only logged, and the 200.                       *)
PublishAndAnswer(w) ==
    /\ handler[w].pc = "answer"
    /\ outbox' = outbox \ {EventAt(w)}
    /\ Drop(w)
    /\ UNCHANGED <<openpay, database, rpcs, logged, credits, recorded, faults>>

(* A statement fails, the process stops, or the answer is lost.            *)
RequestFails(w) ==
    /\ handler[w] # Idle
    /\ Fault
    /\ Drop(w)
    /\ UNCHANGED <<openpay, outbox, database, rpcs, logged, credits, recorded>>

HandlerStep(w) ==
    \/ LookUp(w) \/ CreatePayment(w) \/ CreateConflicts(w)
    \/ Settle(w) \/ Credit(w) \/ CreditFails(w)
    \/ RecordCharge(w) \/ RecordFails(w)
    \/ IncrementFailedCharge(w) \/ FailPayment(w)
    \/ ReversePayment(w) \/ NoPayment(w)
    \/ UpdateStatus(w)
    \/ PublishAndAnswer(w) \/ RequestFails(w)

Next ==
    \/ \E c \in Charges :
        \/ ProviderCaptures(c) \/ \E a \in Attempts : ProviderDeclines(c, a)
        \/ ProviderReverses(c)
        \/ RefundAtProvider(c) \/ RefundStores(c) \/ RefundStoreFails(c)
    \/ ProviderEnds
    \/ Subscribe \/ StoreSubscription \/ SubscriptionLost
    \/ \E w \in Workers : HandlerStep(w) \/ \E e \in outbox : Receive(w, e)

Spec == Init /\ [][Next]_vars

-----------------------------------------------------------------------------
(* The money of a captured charge of which any notification was answered   *)
(* with 200 is in the balance, or the log says that it is missing: also    *)
(* when two requests race to create its payment.                           *)
AckedChargeIsAccounted ==
    \A c \in captured :
        \/ \A type \in SuccessTypes : EventOf(type, c) \in outbox
        \/ credits[c] > 0
        \/ c \in logged

(* What a notification adds is bounded, whatever is delivered again: a     *)
(* charge is credited once for each of its two notifications and once more *)
(* for each fault, and failed_charge_count counts a declined attempt once  *)
(* for each of its two notifications and once more for each fault.         *)
EffectsBounded ==
    /\ \A c \in Charges : credits[c] <= 2 + faults
    /\ sub # NoRow =>
           sub.failed_charge_count <= 2 * Cardinality(declined) + faults

(* No billed cycle goes by unnoticed: last_charge_id names a captured      *)
(* charge whose money is accounted for, and a charge of which both         *)
(* notifications were answered 200 has been that last charge, unless       *)
(* RecordCharge failed for both of them.                                   *)
ChargesAreRecorded ==
    /\ sub # NoRow /\ sub.last_charge # NoCharge =>
           /\ sub.last_charge \in captured \cap split
           /\ credits[sub.last_charge] > 0 \/ sub.last_charge \in logged
    /\ LET Unnoticed == {c \in captured \ recorded :
                             \A type \in SuccessTypes : EventOf(type, c) \notin outbox}
       IN  2 * Cardinality(Unnoticed) <= faults

(* Once everything is answered, the row shows the end that OpenPay         *)
(* announced; a late success does not undo it.  Only a declined attempt    *)
(* that was counted after the end hides it, behind past_due or, with the   *)
(* success of a later attempt, active.                                     *)
Quiet == outbox = {} /\ \A w \in Workers : handler[w] = Idle
EndIsMirrored ==
    Quiet /\ provider \in {"cancelled", "unpaid"} /\ sub # NoRow =>
        \/ sub.status = provider
        \/ declined # {} /\ sub.status \in {"past_due", "active"}

-----------------------------------------------------------------------------
(* Refinement.                                                             *)

Promise == INSTANCE ChargePromise WITH
    settled <- split,
    accounted <- {c \in Charges : credits[c] > 0 \/ c \in logged},
    acknowledged <- {c \in captured :
                        \E type \in SuccessTypes : EventOf(type, c) \notin outbox}

(* Also a charge that no RPC of the service started, and whose payment two *)
(* requests may race to create, goes through capture, settlement of its    *)
(* payment, credit and acknowledgement in this order and never back,       *)
(* whatever fails, is delivered twice or comes late, and whatever status a *)
(* decline, a refund or a chargeback gives the payment in between.         *)
KeepsPromise == Promise!Spec
=============================================================================
