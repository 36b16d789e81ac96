-------------------------------- MODULE Links --------------------------------
(***************************************************************************)
(* A link that a tenant sends to a member, and the requests that redeem    *)
(* it: RedeemPaymentLink, which charges the member once, and               *)
(* RedeemSubscriptionLink, which subscribes them to a plan.  The endpoints *)
(* are public and a member may submit the page again at any time, so       *)
(* attempts overlap.  Each reads the link, talks to OpenPay, and only at   *)
(* its end marks the link; a tenant may expire a payment link meanwhile.   *)
(* An order is the charge or the subscription that an attempt makes at     *)
(* OpenPay; cards, orders and rows are named by their attempt.             *)
(***************************************************************************)
EXTENDS Integers, FiniteSets

CONSTANTS
    Attempts,    \* redemption requests for the link
    NoAttempt,
    MaxFaults    \* bound on faults: crashes, lost answers, failed statements

ASSUME LinksAssumption ==
    /\ IsFiniteSet(Attempts)
    /\ NoAttempt \notin Attempts
    /\ MaxFaults \in Nat

VARIABLES
    link,        \* the row of payment_links or subscription_links
    due,         \* expires_at has passed
    attempt,     \* [Attempts -> the step each takes next]
    expiring,    \* an ExpirePaymentLink has read the link as active
    (* OpenPay *)
    cards,       \* registered cards
    orders,      \* charges or subscriptions
    (* the database *)
    cardRows,    \* member_cards
    orderRows,   \* payments or subscriptions
    (* observations *)
    overlaps,    \* attempts that began while another one was in progress
    faults       \* faults so far

vars == <<link, due, attempt, expiring, cards, orders, cardRows, orderRows,
          overlaps, faults>>

-----------------------------------------------------------------------------
Kinds == {"payment", "subscription"}
Open(kind) == IF kind = "payment" THEN "active" ELSE "pending"
Done(kind) == IF kind = "payment" THEN "redeemed" ELSE "completed"

(* by is redeemed_at of a payment link or subscription_id of the other:    *)
(* the attempt that marked the link.                                       *)
Link ==
    UNION {[kind : {k}, status : {Open(k), Done(k), "expired", "cancelled"},
            by : Attempts \cup {NoAttempt}] : k \in Kinds}

Usable == link.status = Open(link.kind)

Before == {"card", "check", "order"}      \* nothing is ordered yet
After == {"row", "mark"}                  \* something is ordered
At(steps) == {a \in Attempts : attempt[a] \in steps}
InProgress == At(Before \cup After)

TypeOK ==
    /\ link \in Link
    /\ due \in BOOLEAN
    /\ attempt \in [Attempts ->
          Before \cup After \cup {"new", "expire", "answered", "failed"}]
    /\ expiring \in BOOLEAN
    /\ cards \subseteq Attempts /\ orders \subseteq Attempts
    /\ cardRows \subseteq Attempts /\ orderRows \subseteq Attempts
    /\ overlaps \in Nat
    /\ faults \in 0 .. MaxFaults

(* CreatePaymentLink or CreateSubscriptionLink.                            *)
Init ==
    /\ \E k \in Kinds :
          link = [kind |-> k, status |-> Open(k), by |-> NoAttempt]
    /\ due = FALSE
    /\ attempt = [a \in Attempts |-> "new"]
    /\ expiring = FALSE
    /\ cards = {} /\ orders = {} /\ cardRows = {} /\ orderRows = {}
    /\ overlaps = 0
    /\ faults = 0

Fault == faults < MaxFaults /\ faults' = faults + 1

Step(a, from, to) ==
    /\ attempt[a] = from
    /\ attempt' = [attempt EXCEPT ![a] = to]

(* UpdatePaymentLink, UpdateSubscriptionLink.  The row is written by its   *)
(* id, whatever its status has become.                                     *)
WriteLink(status, by) ==
    link' = [link EXCEPT !.status = status, !.by = by]

-----------------------------------------------------------------------------
(* Deviation: the status of the link is not looked at.                     *)
BeginUnchecked(a) ==
    /\ ~due
    /\ Step(a, "new", "card")
    /\ overlaps' = IF InProgress = {} THEN overlaps ELSE overlaps + 1
    /\ UNCHANGED <<link, due, expiring, cards, orders, cardRows, orderRows,
                   faults>>

(* The link is read by its token, usable and in time; the member has an    *)
(* OpenPay customer and the plan is active.                                *)
Begin(a) ==
    /\ Usable /\ ~due
    /\ Step(a, "new", "card")
    /\ overlaps' = IF InProgress = {} THEN overlaps ELSE overlaps + 1
    /\ UNCHANGED <<link, due, expiring, cards, orders, cardRows, orderRows,
                   faults>>

(* The link is not usable, or the member or the plan is not: nothing is    *)
(* done.                                                                   *)
Refuse(a) ==
    /\ ~Usable \/ ~due
    /\ Step(a, "new", "failed")
    /\ UNCHANGED <<link, due, expiring, cards, orders, cardRows, orderRows,
                   overlaps, faults>>

(* A usable link past its time: the attempt writes that, then fails.  The  *)
(* copy it writes back had no redeemer.                                    *)
FindsExpired(a) ==
    /\ Usable /\ due
    /\ Step(a, "new", "expire")
    /\ UNCHANGED <<link, due, expiring, cards, orders, cardRows, orderRows,
                   overlaps, faults>>

WritesExpired(a) ==
    /\ Step(a, "expire", "failed")
    /\ WriteLink("expired", NoAttempt)
    /\ UNCHANGED <<due, expiring, cards, orders, cardRows, orderRows,
                   overlaps, faults>>

(* CreateCard at OpenPay, from the page's token.                           *)
CreateCard(a) ==
    /\ Step(a, "card", "check")
    /\ cards' = cards \cup {a}
    /\ UNCHANGED <<link, due, expiring, orders, cardRows, orderRows, overlaps,
                   faults>>

(* The tenant is gone or denies the card's network: the card stays at      *)
(* OpenPay.                                                                *)
DenyCard(a) ==
    /\ Step(a, "check", "failed")
    /\ UNCHANGED <<link, due, expiring, cards, orders, cardRows, orderRows,
                   overlaps, faults>>

(* Deviation: the link is marked before the order is made.                 *)
StoreCardMarks(a) ==
    /\ Step(a, "check", "order")
    /\ cardRows' = cardRows \cup {a}
    /\ WriteLink(Done(link.kind), a)
    /\ UNCHANGED <<due, expiring, cards, orders, orderRows, overlaps, faults>>

StoreCard(a) ==
    /\ Step(a, "check", "order")
    /\ cardRows' = cardRows \cup {a}
    /\ UNCHANGED <<link, due, expiring, cards, orders, orderRows, overlaps,
                   faults>>

(* Deviation: the row is left for the webhook to create.                   *)
OrderSkipsRow(a) ==
    /\ Step(a, "order", "mark")
    /\ orders' = orders \cup {a}
    /\ UNCHANGED <<link, due, expiring, cards, cardRows, orderRows, overlaps,
                   faults>>

(* CreateCharge or CreateSubscription at OpenPay.                          *)
Order(a) ==
    /\ Step(a, "order", "row")
    /\ orders' = orders \cup {a}
    /\ UNCHANGED <<link, due, expiring, cards, cardRows, orderRows, overlaps,
                   faults>>

(* OpenPay declines the card, or no longer has the plan.                   *)
DeclineOrder(a) ==
    /\ Step(a, "order", "failed")
    /\ UNCHANGED <<link, due, expiring, cards, orders, cardRows, orderRows,
                   overlaps, faults>>

(* payments.Create or subscriptions.Create.                                *)
StoreRow(a) ==
    /\ Step(a, "row", "mark")
    /\ orderRows' = orderRows \cup {a}
    /\ UNCHANGED <<link, due, expiring, cards, orders, cardRows, overlaps,
                   faults>>

(* A payment that cannot be stored is logged and the link still marked; a  *)
(* subscription that cannot be stored ends the attempt.                    *)
RowFails(a) ==
    /\ Step(a, "row", IF link.kind = "payment" THEN "mark" ELSE "failed")
    /\ Fault
    /\ UNCHANGED <<link, due, expiring, cards, orders, cardRows, orderRows,
                   overlaps>>

(* Deviation: both kinds are marked with the status of one.                *)
MarkRedeemed(a) ==
    /\ Step(a, "mark", "answered")
    /\ WriteLink("redeemed", a)
    /\ UNCHANGED <<due, expiring, cards, orders, cardRows, orderRows, overlaps,
                   faults>>

Mark(a) ==
    /\ Step(a, "mark", "answered")
    /\ WriteLink(Done(link.kind), a)
    /\ UNCHANGED <<due, expiring, cards, orders, cardRows, orderRows, overlaps,
                   faults>>

(* The failure is logged and the member is told of success all the same.   *)
MarkFails(a) ==
    /\ Step(a, "mark", "answered")
    /\ Fault
    /\ UNCHANGED <<link, due, expiring, cards, orders, cardRows, orderRows,
                   overlaps>>

(* A statement fails, OpenPay's answer is lost, or the process stops.      *)
AttemptFails(a) ==
    /\ attempt[a] \in Before \cup After \cup {"expire"}
    /\ attempt' = [attempt EXCEPT ![a] = "failed"]
    /\ Fault
    /\ UNCHANGED <<link, due, expiring, cards, orders, cardRows, orderRows,
                   overlaps>>

(* ExpirePaymentLink reads the link, and then writes it.                   *)
ExpireReads ==
    /\ link.kind = "payment" /\ Usable
    /\ ~expiring /\ expiring' = TRUE
    /\ UNCHANGED <<link, due, attempt, cards, orders, cardRows, orderRows,
                   overlaps, faults>>

ExpireWrites ==
    /\ expiring /\ expiring' = FALSE
    /\ WriteLink("cancelled", NoAttempt)
    /\ UNCHANGED <<due, attempt, cards, orders, cardRows, orderRows, overlaps,
                   faults>>

ExpireFails ==
    /\ expiring /\ expiring' = FALSE
    /\ UNCHANGED <<link, due, attempt, cards, orders, cardRows, orderRows,
                   overlaps, faults>>

TimePasses ==
    /\ ~due /\ due' = TRUE
    /\ UNCHANGED <<link, attempt, expiring, cards, orders, cardRows, orderRows,
                   overlaps, faults>>

AttemptStep(a) ==
    \/ Begin(a) \/ Refuse(a) \/ FindsExpired(a) \/ WritesExpired(a)
    \/ CreateCard(a) \/ DenyCard(a) \/ StoreCard(a)
    \/ Order(a) \/ DeclineOrder(a)
    \/ StoreRow(a) \/ RowFails(a) \/ Mark(a) \/ MarkFails(a)
    \/ AttemptFails(a)

Next ==
    \/ \E a \in Attempts : AttemptStep(a)
    \/ ExpireReads \/ ExpireWrites \/ ExpireFails
    \/ TimePasses

Spec == Init /\ [][Next]_vars

-----------------------------------------------------------------------------
(* How many orders one link can cause: one, and one more for each attempt  *)
(* that began while another was in progress, and for each fault.  A member *)
(* who tries again after an answer, with no fault, orders nothing more:    *)
(* the status that the redemption writes last is what holds them back.     *)
OrdersBounded ==
    Cardinality(orders) + Cardinality(At(Before)) <= 1 + overlaps + faults

(* An order that no row tells of, once its attempt is over, took a fault.  *)
UnrecordedBounded ==
    Cardinality((orders \ orderRows) \ At({"row"})) <= faults

(* A link is marked by an attempt exactly while it is redeemed, and that   *)
(* attempt has ordered: overlapping attempts and expiries overwrite each   *)
(* other's mark, but never leave half of one.  The subscription that a     *)
(* link names is stored, and every order was made with a stored card.      *)
RedeemedIsOrdered ==
    /\ link.status = Done(link.kind) <=> link.by # NoAttempt
    /\ link.by # NoAttempt =>
          /\ link.by \in orders
          /\ link.kind = "subscription" => link.by \in orderRows
    /\ orders \subseteq cardRows
=============================================================================
