------------------------- MODULE SubscriptionsProofs -------------------------
(***************************************************************************)
(* Theorems about Subscriptions for any number of charges, requests and    *)
(* faults: the types, the safety properties from one inductive invariant,  *)
(* and the counts of credits, of declined attempts and of unrecorded       *)
(* charges.                                                                *)
(***************************************************************************)
EXTENDS Subscriptions, FiniteSetTheorems, TLAPS

-----------------------------------------------------------------------------
(* Types.                                                                  *)

(* The event that a request serves is of the kind its statements are for,  *)
(* and the subscription has a row.                                         *)
Fits(w) ==
    handler[w] # Idle =>
        /\ sub # NoRow
        /\ handler[w].pc \in {"lookup", "create", "settle", "credit", "record"} =>
               EventAt(w).type \in SuccessTypes
        /\ handler[w].pc \in {"increment", "fail"} =>
               EventAt(w).type \in FailureTypes
        /\ handler[w].pc = "reverse" => EventAt(w).type \in ReversalTypes
        /\ handler[w].pc = "update" => EventAt(w).type \in EndTypes

Typed == TypeOK /\ \A w \in Workers : Fits(w)

(* The row is stored once.                                                 *)
RowStored == creating \in {"idle", "trial", "active"} => sub = NoRow

(* What an event announces has happened at OpenPay.                        *)
Ended == {"cancelled", "unpaid"}
EventTrue(e) ==
    /\ e.type \in SuccessTypes \cup ReversalTypes => e.charge \in captured
    /\ e.type \in FailureTypes => <<e.charge, e.attempt>> \in declined
    /\ e.type \in EndTypes => provider = StatusOf(e.type)

Accounted(c) == credits[c] > 0 \/ c \in logged
Paid(c) == c \in split

(* The row shows the end, or a declined attempt that was counted later.    *)
Mirrored ==
    /\ sub # NoRow /\ provider \in Ended
    /\ \/ sub.status = provider
       \/ declined # {} /\ sub.status \in {"past_due", "active"}

(* What a request at its statement has already done.                       *)
Progress(w) ==
    handler[w] # Idle =>
        /\ EventTrue(EventAt(w))
        /\ EventAt(w).type \in SuccessTypes =>
               /\ handler[w].pc \in {"credit", "record", "answer"} => Paid(ChargeAt(w))
               /\ handler[w].pc \in {"record", "answer"} => Accounted(ChargeAt(w))
        /\ EventAt(w).type \in EndTypes /\ handler[w].pc = "answer" => Mirrored

EventsTrue == \A e \in outbox : EventTrue(e)

AckedAccounted ==
    \A c \in captured, type \in SuccessTypes :
        EventOf(type, c) \in outbox \/ Accounted(c)

LastAccounted ==
    sub # NoRow /\ sub.last_charge # NoCharge =>
        /\ sub.last_charge \in captured
        /\ Paid(sub.last_charge) /\ Accounted(sub.last_charge)

EndShown ==
    provider \in Ended =>
        \/ \E type \in EndTypes : EventOf(type, NoCharge) \in outbox
        \/ Mirrored

(* A settled payment is one of a charge that took the member's money.      *)
SplitCaptured == split \subseteq captured

IInv ==
    /\ Typed /\ RowStored /\ (creating = "idle" => provider = "none")
    /\ EventsTrue /\ \A w \in Workers : Progress(w)
    /\ AckedAccounted /\ LastAccounted /\ EndShown /\ SplitCaptured

(* The counts.                                                             *)
Pending(c) ==
    {w \in Workers : /\ handler[w] # Idle /\ EventAt(w).type \in SuccessTypes
                     /\ ChargeAt(w) = c
                     /\ handler[w].pc \in {"lookup", "create", "settle", "credit"}}

(* OpenPay will start a request for the event without any fault.           *)
Owed(type, c) ==
    c \notin captured \/ (EventOf(type, c) \in outbox /\ Serving(EventOf(type, c)) = {})

OwedOf(type, c) == IF Owed(type, c) THEN 1 ELSE 0

OwedBoth(c) ==
    OwedOf("charge.succeeded", c) + OwedOf("subscription.charge.succeeded", c)

CreditBudget ==
    \A c \in Charges : credits[c] + Cardinality(Pending(c)) + OwedBoth(c) <= 2 + faults

Counting == {w \in Workers : handler[w] # Idle /\ handler[w].pc = "increment"}
Uncounted == {e \in outbox : e.type \in FailureTypes /\ Serving(e) = {}}
Count == IF sub = NoRow THEN 0 ELSE sub.failed_charge_count

CountBudget ==
    /\ IsFiniteSet(Uncounted) /\ Cardinality(Uncounted) \in Nat
    /\ Count + Cardinality(Counting) + Cardinality(Uncounted)
           <= 2 * Cardinality(declined) + faults

(* The notifications of charges that were never recorded whose requests    *)
(* got past RecordCharge.                                                  *)
Missed ==
    {n \in SuccessTypes \X (captured \ recorded) :
        \/ EventOf(n[1], n[2]) \notin outbox
        \/ \E w \in Workers : /\ handler[w] # Idle /\ handler[w].pc = "answer"
                              /\ EventAt(w) = EventOf(n[1], n[2])}

MissedBudget == IsFiniteSet(Missed) /\ Cardinality(Missed) <= faults

-----------------------------------------------------------------------------
(* Requests and events.                                                    *)

LEMMA EventKinds ==
    ASSUME NEW e \in Event
    PROVE  /\ e.type \in SuccessTypes \cup FailureTypes \cup ReversalTypes \cup EndTypes
           /\ e.type \in SuccessTypes \cup ReversalTypes \cup FailureTypes =>
                  e.charge \in Charges
           /\ e.type \in SuccessTypes => e = EventOf(e.type, e.charge)
           /\ e.type \in FailureTypes => /\ e.attempt \in Attempts
                                        /\ e = FailureOf(e.type, e.charge, e.attempt)
<1>1. CASE e \in [type : SuccessTypes \cup ReversalTypes, charge : Charges]
    BY <1>1 DEF EventOf, SuccessTypes, ReversalTypes, FailureTypes, EndTypes
<1>2. CASE e \in [type : FailureTypes, charge : Charges, attempt : Attempts]
    BY <1>2 DEF FailureOf, SuccessTypes, ReversalTypes, FailureTypes, EndTypes
<1>3. CASE e \in [type : EndTypes, charge : {NoCharge}]
    BY <1>3 DEF EventOf, SuccessTypes, ReversalTypes, FailureTypes, EndTypes
<1>4. QED
    BY <1>1, <1>2, <1>3 DEF Event

LEMMA BusyHandler ==
    ASSUME TypeOK, NEW w \in Workers, handler[w] # Idle
    PROVE  handler[w].pc \in Statement /\ EventAt(w) \in Event
BY DEF TypeOK, EventAt

(* The statements that a request goes through.                             *)
Order ==
    {<<"lookup", "create">>, <<"lookup", "settle">>, <<"create", "settle">>,
     <<"settle", "credit">>, <<"credit", "record">>, <<"record", "answer">>,
     <<"increment", "fail">>, <<"fail", "answer">>, <<"reverse", "answer">>,
     <<"update", "answer">>}

LEMMA GotoEffect ==
    ASSUME TypeOK, NEW w \in Workers, handler[w] # Idle, NEW pc \in Statement, Goto(w, pc)
    PROVE  /\ \A x \in Workers \ {w} : handler'[x] = handler[x]
           /\ handler'[w] # Idle /\ handler'[w].pc = pc /\ handler'[w].event = EventAt(w)
           /\ handler' \in [Workers -> {Idle} \cup [pc : Statement, event : Event]]
<1>1. handler' = [handler EXCEPT ![w] = [pc |-> pc, event |-> EventAt(w)]]
    BY DEF Goto
<1>2. EventAt(w) \in Event
    BY BusyHandler
<1>3. [pc |-> pc, event |-> EventAt(w)] # Idle
    <2>1. [pc |-> pc, event |-> EventAt(w)].pc # Idle.pc
        BY DEF Idle, Statement
    <2>2. QED
        BY <2>1
<1>4. handler \in [Workers -> {Idle} \cup [pc : Statement, event : Event]]
    BY DEF TypeOK
<1>5. QED
    BY <1>1, <1>2, <1>3, <1>4

LEMMA DropEffect ==
    ASSUME TypeOK, NEW w \in Workers, Drop(w)
    PROVE  /\ \A x \in Workers \ {w} : handler'[x] = handler[x]
           /\ handler'[w] = Idle
           /\ handler' \in [Workers -> {Idle} \cup [pc : Statement, event : Event]]
<1>1. handler \in [Workers -> {Idle} \cup [pc : Statement, event : Event]]
    BY DEF TypeOK
<1>2. QED
    BY <1>1 DEF Drop

(* A request is at a statement only while it is served.                    *)
LEMMA StatementBusy ==
    ASSUME NEW w \in Workers, handler[w].pc \in Statement
    PROVE  handler[w] # Idle
BY DEF Idle, Statement

LEMMA RequestStep ==
    ASSUME TypeOK, NEW w \in Workers, HandlerStep(w)
    PROVE  /\ handler[w] # Idle /\ UNCHANGED <<openpay, rpcs>>
           /\ \A x \in Workers \ {w} : handler'[x] = handler[x]
           /\ handler' \in [Workers -> {Idle} \cup [pc : Statement, event : Event]]
           /\ handler'[w] # Idle =>
                  /\ handler'[w].event = EventAt(w)
                  /\ <<handler[w].pc, handler'[w].pc>> \in Order
<1>1. handler[w] # Idle /\ UNCHANGED <<openpay, rpcs>>
    BY StatementBusy DEF HandlerStep, ReversePayment, NoPayment, LookUp,
        CreatePayment, CreateConflicts, Settle, Credit, CreditFails,
        RecordCharge, RecordFails, IncrementFailedCharge, FailPayment,
        UpdateStatus, PublishAndAnswer, RequestFails, Statement
<1>2. \/ Drop(w)
      \/ \E pc \in Statement : Goto(w, pc) /\ <<handler[w].pc, pc>> \in Order
    BY DEF HandlerStep, ReversePayment, NoPayment, LookUp, CreatePayment,
        CreateConflicts, Settle, Credit, CreditFails, RecordCharge, RecordFails,
        IncrementFailedCharge, FailPayment, UpdateStatus, PublishAndAnswer,
        RequestFails, Statement, Order
<1>3. CASE Drop(w)
    BY <1>1, <1>3, DropEffect
<1>4. ASSUME NEW pc \in Statement, Goto(w, pc), <<handler[w].pc, pc>> \in Order
      PROVE  /\ \A x \in Workers \ {w} : handler'[x] = handler[x]
             /\ handler' \in [Workers -> {Idle} \cup [pc : Statement, event : Event]]
             /\ handler'[w].event = EventAt(w) /\ handler'[w].pc = pc
    BY <1>1, <1>4, GotoEffect
<1>5. QED
    BY <1>1, <1>2, <1>3, <1>4

LEMMA ReceiveEffect ==
    ASSUME TypeOK, NEW w \in Workers, NEW e \in outbox, Receive(w, e)
    PROVE  /\ e \in Event /\ handler[w] = Idle
           /\ \A x \in Workers \ {w} : handler'[x] = handler[x]
           /\ handler' \in [Workers -> {Idle} \cup [pc : Statement, event : Event]]
           /\ handler'[w] # Idle /\ handler'[w].event = e
           /\ handler'[w].pc =
                  IF e.type \in SuccessTypes THEN "lookup"
                  ELSE IF e.type \in FailureTypes THEN "increment"
                  ELSE IF e.type \in ReversalTypes THEN "reverse" ELSE "update"
<1>1. e \in Event
    BY DEF TypeOK
<1>2. First(e) = IF e.type \in SuccessTypes THEN "lookup"
                 ELSE IF e.type \in FailureTypes THEN "increment"
                 ELSE IF e.type \in ReversalTypes THEN "reverse" ELSE "update"
    BY <1>1, EventKinds DEF First, SuccessTypes, EndTypes, FailureTypes,
        ReversalTypes
<1>3. First(e) \in Statement
    BY <1>2 DEF Statement
<1>4. [pc |-> First(e), event |-> e] # Idle
    <2>1. [pc |-> First(e), event |-> e].pc # Idle.pc
        BY <1>2 DEF Idle
    <2>2. QED
        BY <2>1
<1>5. handler \in [Workers -> {Idle} \cup [pc : Statement, event : Event]]
    BY DEF TypeOK
<1>6. QED
    BY <1>1, <1>2, <1>3, <1>4, <1>5 DEF Receive

-----------------------------------------------------------------------------
(* Types are kept.                                                         *)

LEMMA RowIsRow ==
    ASSUME NEW r \in Row
    PROVE  r # NoRow
<1>1. r.status \in SubscriptionStatus
    BY DEF Row
<1>2. r.status # "none"
    BY <1>1 DEF SubscriptionStatus, Live
<1>3. QED
    BY <1>2 DEF NoRow

LEMMA FaultTyped ==
    ASSUME faults \in 0..MaxFaults, Fault
    PROVE  faults' \in 0..MaxFaults
BY SubscriptionsAssumption DEF Fault

(* What a request does to the database, by its statement.                  *)
LEMMA RequestTyped ==
    ASSUME Typed, NEW w \in Workers, HandlerStep(w)
    PROVE  /\ sub' \in Row
           /\ payments' \in [Charges -> PaymentStatus \cup {"none"}]
           /\ split' \subseteq Charges /\ recorded' \subseteq Charges
           /\ logged' \subseteq Charges /\ credits' \in [Charges -> Nat]
           /\ faults' \in 0..MaxFaults /\ outbox' \subseteq outbox
<1>1. handler[w] # Idle /\ EventAt(w) \in Event /\ TypeOK /\ Fits(w)
    BY RequestStep, BusyHandler DEF Typed
<1>2. sub \in Row
    BY <1>1 DEF Fits, TypeOK
<1>3. /\ payments \in [Charges -> PaymentStatus \cup {"none"}] /\ split \subseteq Charges
      /\ recorded \subseteq Charges
      /\ logged \subseteq Charges /\ credits \in [Charges -> Nat]
      /\ faults \in 0..MaxFaults
    BY <1>1 DEF TypeOK
<1>4. sub' \in Row
    <2>1. CASE RecordCharge(w)
        <3>1. ChargeAt(w) \in Charges
            BY <1>1, <2>1, EventKinds DEF RecordCharge, Fits, ChargeAt
        <3>2. sub.status \in SubscriptionStatus
            BY <1>2 DEF Row
        <3>3. PICK status \in SubscriptionStatus :
                  sub' = [sub EXCEPT !.last_charge = ChargeAt(w),
                                     !.failed_charge_count = 0, !.status = status]
            BY <2>1, <3>2 DEF RecordCharge, SubscriptionStatus, Live
        <3>4. QED
            BY <1>2, <3>1, <3>3 DEF Row
    <2>2. CASE IncrementFailedCharge(w)
        <3>1. sub.failed_charge_count + 1 \in Nat
            BY <1>2 DEF Row
        <3>2. sub' = [sub EXCEPT !.failed_charge_count = sub.failed_charge_count + 1,
                                 !.status = "past_due"]
            BY <2>2 DEF IncrementFailedCharge
        <3>3. QED
            BY <1>2, <3>1, <3>2 DEF Row, SubscriptionStatus, Live
    <2>3. CASE UpdateStatus(w)
        <3>1. StatusOf(EventAt(w).type) \in SubscriptionStatus
            BY DEF StatusOf, SubscriptionStatus
        <3>2. QED
            BY <1>2, <2>3, <3>1 DEF UpdateStatus, Row
    <2>4. CASE ~(RecordCharge(w) \/ IncrementFailedCharge(w) \/ UpdateStatus(w))
        <3>1. sub' = sub
            BY <2>4 DEF HandlerStep, ReversePayment, NoPayment, LookUp,
                CreatePayment, CreateConflicts, Settle, Credit, CreditFails,
                RecordFails, FailPayment, PublishAndAnswer, RequestFails,
                database
        <3>2. QED
            BY <1>2, <3>1
    <2>5. QED
        BY <2>1, <2>2, <2>3, <2>4
<1>5. payments' \in [Charges -> PaymentStatus \cup {"none"}] /\ split' \subseteq Charges
    <2>1. ReversePayment(w) => ReversedTo(EventAt(w).type) \in PaymentStatus
        BY <1>1 DEF ReversePayment, Fits, ReversedTo, ReversalTypes, PaymentStatus
    <2>2. Settle(w) => ChargeAt(w) \in Charges
        BY <1>1, EventKinds DEF Settle, Fits, ChargeAt, SuccessTypes, EndTypes
    <2>3. PICK status \in PaymentStatus :
              \/ payments' = payments
              \/ payments' = [payments EXCEPT ![ChargeAt(w)] = status]
        BY <2>1 DEF HandlerStep, ReversePayment, NoPayment, LookUp, CreatePayment,
            CreateConflicts, Settle, Credit, CreditFails, RecordCharge, RecordFails,
            IncrementFailedCharge, FailPayment, UpdateStatus, PublishAndAnswer,
            RequestFails, database, PaymentStatus
    <2>4. split' = split \/ (Settle(w) /\ split' = split \cup {ChargeAt(w)})
        BY DEF HandlerStep, ReversePayment, NoPayment, LookUp, CreatePayment,
            CreateConflicts, Settle, Credit, CreditFails, RecordCharge, RecordFails,
            IncrementFailedCharge, FailPayment, UpdateStatus, PublishAndAnswer,
            RequestFails, database
    <2>5. QED
        BY <1>3, <2>2, <2>3, <2>4
<1>6. faults' \in 0..MaxFaults
    BY <1>3, FaultTyped DEF HandlerStep, ReversePayment, NoPayment, LookUp,
        CreatePayment, CreateConflicts, Settle, Credit, CreditFails,
        RecordCharge, RecordFails, IncrementFailedCharge, FailPayment,
        UpdateStatus, PublishAndAnswer, RequestFails
<1>7. outbox' \subseteq outbox
    BY DEF HandlerStep, ReversePayment, NoPayment, LookUp, CreatePayment,
        CreateConflicts, Settle, Credit, CreditFails, RecordCharge, RecordFails,
        IncrementFailedCharge, FailPayment, UpdateStatus, PublishAndAnswer,
        RequestFails
<1>8. logged' \subseteq Charges /\ credits' \in [Charges -> Nat]
    <2>1. CASE Credit(w)
        <3>1. PICK c \in Charges : c = ChargeAt(w)
            BY <1>1, <2>1, EventKinds DEF Credit, Fits, ChargeAt
        <3>2. credits[c] + 1 \in Nat
            BY <1>3
        <3>3. credits' = [credits EXCEPT ![c] = credits[c] + 1] /\ logged' = logged
            BY <2>1, <3>1 DEF Credit
        <3>4. QED
            BY <1>3, <3>2, <3>3
    <2>2. CASE CreditFails(w)
        <3>1. ChargeAt(w) \in Charges
            BY <1>1, <2>2, EventKinds DEF CreditFails, Fits, ChargeAt
        <3>2. QED
            BY <1>3, <2>2, <3>1 DEF CreditFails
    <2>3. CASE ~(Credit(w) \/ CreditFails(w))
        <3>1. logged' = logged /\ credits' = credits
            BY <2>3 DEF HandlerStep, ReversePayment, NoPayment, LookUp,
                CreatePayment, CreateConflicts, Settle, RecordCharge,
                RecordFails, IncrementFailedCharge, FailPayment, UpdateStatus,
                PublishAndAnswer, RequestFails
        <3>2. QED
            BY <1>3, <3>1
    <2>4. QED
        BY <2>1, <2>2, <2>3
<1>9. recorded' \subseteq Charges
    <2>1. RecordCharge(w) => ChargeAt(w) \in Charges
        BY <1>1, EventKinds DEF RecordCharge, Fits, ChargeAt, SuccessTypes, EndTypes
    <2>2. \/ recorded' = recorded
          \/ RecordCharge(w) /\ recorded' = recorded \cup {ChargeAt(w)}
        BY DEF HandlerStep, ReversePayment, NoPayment, LookUp, CreatePayment,
            CreateConflicts, Settle, Credit, CreditFails, RecordCharge, RecordFails,
            IncrementFailedCharge, FailPayment, UpdateStatus, PublishAndAnswer,
            RequestFails
    <2>3. QED
        BY <1>3, <2>1, <2>2
<1>10. QED
    BY <1>4, <1>5, <1>6, <1>7, <1>8, <1>9

LEMMA FitsStays ==
    ASSUME NEW x \in Workers, Fits(x), handler'[x] = handler[x],
           sub # NoRow => sub' # NoRow
    PROVE  Fits(x)'
BY DEF Fits, EventAt

LEMMA InitTyped ==
    ASSUME Init
    PROVE  Typed
<1>1. 0 \in 0..MaxFaults
    BY SubscriptionsAssumption
<1>2. TypeOK
    BY <1>1 DEF Init, TypeOK
<1>3. \A w \in Workers : Fits(w)
    BY DEF Init, Fits
<1>4. QED
    BY <1>2, <1>3 DEF Typed

ProviderStep ==
    \/ \E c \in Charges :
        \/ ProviderCaptures(c) \/ \E a \in Attempts : ProviderDeclines(c, a)
        \/ ProviderReverses(c)
        \/ RefundAtProvider(c) \/ RefundStores(c) \/ RefundStoreFails(c)
    \/ ProviderEnds \/ Subscribe \/ StoreSubscription \/ SubscriptionLost

(* What OpenPay adds to the outbox.                                        *)
LEMMA Announced ==
    ASSUME ProviderStep
    PROVE  \/ outbox' = outbox
           \/ \E c \in Charges :
                  /\ ProviderCaptures(c)
                  /\ outbox' = outbox \cup {EventOf(type, c) : type \in SuccessTypes}
           \/ \E c \in Charges, a \in Attempts :
                  outbox' = outbox \cup {FailureOf(type, c, a) : type \in FailureTypes}
           \/ \E c \in Charges, type \in ReversalTypes :
                  outbox' = outbox \cup {EventOf(type, c)}
           \/ \E type \in EndTypes : outbox' = outbox \cup {EventOf(type, NoCharge)}
<1>1. ASSUME NEW c \in Charges, NEW a \in Attempts, ProviderDeclines(c, a)
      PROVE  outbox' = outbox \cup {FailureOf(type, c, a) : type \in FailureTypes}
    BY <1>1 DEF ProviderDeclines
<1>2. ASSUME NEW c \in Charges, ProviderReverses(c) \/ RefundAtProvider(c)
      PROVE  \E type \in ReversalTypes : outbox' = outbox \cup {EventOf(type, c)}
    BY <1>2 DEF ProviderReverses, RefundAtProvider, ReversalTypes
<1>3. ASSUME NEW c \in Charges, ProviderCaptures(c)
      PROVE  outbox' = outbox \cup {EventOf(type, c) : type \in SuccessTypes}
    BY <1>3 DEF ProviderCaptures
<1>4. ProviderEnds => \E type \in EndTypes : outbox' = outbox \cup {EventOf(type, NoCharge)}
    BY DEF ProviderEnds
<1>5. ASSUME \/ Subscribe \/ StoreSubscription \/ SubscriptionLost
             \/ \E c \in Charges : RefundStores(c) \/ RefundStoreFails(c)
      PROVE  outbox' = outbox
    BY <1>5 DEF Subscribe, StoreSubscription, SubscriptionLost, RefundStores,
        RefundStoreFails
<1>6. QED
    BY <1>1, <1>2, <1>3, <1>4, <1>5 DEF ProviderStep

LEMMA ProviderTyped ==
    ASSUME Typed, ProviderStep
    PROVE  Typed'
<1>1. UNCHANGED <<handler, logged, credits, recorded, split>>
    BY DEF ProviderStep, ProviderCaptures, ProviderDeclines, ProviderEnds, Subscribe,
        StoreSubscription, SubscriptionLost, ProviderReverses, RefundAtProvider,
        RefundStores, RefundStoreFails, database
<1>2. sub' = sub \/ sub' \in Row
    <2>1. CASE StoreSubscription
        <3>1. creating \in SubscriptionStatus
            BY <2>1 DEF StoreSubscription, SubscriptionStatus, Live
        <3>2. QED
            BY <2>1, <3>1 DEF StoreSubscription, Row
    <2>2. CASE ~StoreSubscription
        BY <2>2 DEF ProviderStep, ProviderCaptures, ProviderDeclines, ProviderEnds, Subscribe,
            SubscriptionLost, ProviderReverses, RefundAtProvider, RefundStores,
            RefundStoreFails, database
    <2>3. QED
        BY <2>1, <2>2
<1>3. /\ provider \in SubscriptionStatus \cup {"none"} /\ captured \subseteq Charges
      /\ declined \subseteq Charges \X Attempts /\ reversed \subseteq Charges
      /\ refunding \subseteq Charges /\ outbox \subseteq Event
      /\ creating \in {"idle", "trial", "active", "stored", "lost"}
      /\ split \subseteq Charges
    BY DEF Typed, TypeOK
<1>4. /\ provider' \in SubscriptionStatus \cup {"none"}
      /\ creating' \in {"idle", "trial", "active", "stored", "lost"}
    BY <1>3 DEF ProviderStep, ProviderCaptures, ProviderDeclines, ProviderEnds,
        Subscribe, StoreSubscription, SubscriptionLost, ProviderReverses,
        RefundAtProvider, RefundStores, RefundStoreFails, openpay, rpcs,
        SubscriptionStatus, Live, StatusOf
<1>5. /\ captured' \subseteq Charges /\ declined' \subseteq Charges \X Attempts
      /\ reversed' \subseteq Charges /\ refunding' \subseteq Charges
    <2>1. PICK c \in Charges \cup {NoCharge}, a \in Attempts \cup {NoCharge} :
             /\ captured' = captured \/ (c \in Charges /\ captured' = captured \cup {c})
             /\ \/ declined' = declined
                \/ /\ c \in Charges /\ a \in Attempts
                   /\ declined' = declined \cup {<<c, a>>}
             /\ reversed' = reversed \/ (c \in Charges /\ reversed' = reversed \cup {c})
             /\ \/ refunding' = refunding \/ refunding' = refunding \ {c}
                \/ c \in Charges /\ refunding' = refunding \cup {c}
        BY DEF ProviderStep, ProviderCaptures, ProviderDeclines, ProviderEnds,
            Subscribe, StoreSubscription, SubscriptionLost, ProviderReverses,
            RefundAtProvider, RefundStores, RefundStoreFails, openpay, rpcs
    <2>2. QED
        BY <1>3, <2>1
<1>6. outbox' \subseteq Event
    <2>1. \A c \in Charges, type \in SuccessTypes \cup ReversalTypes :
             EventOf(type, c) \in Event
        BY DEF Event, EventOf
    <2>2. \A c \in Charges, a \in Attempts, type \in FailureTypes :
             FailureOf(type, c, a) \in Event
        BY DEF Event, FailureOf
    <2>3. \A type \in EndTypes : EventOf(type, NoCharge) \in Event
        BY DEF Event, EventOf
    <2>4. QED
        BY <1>3, <2>1, <2>2, <2>3, Announced
<1>7. faults' \in 0..MaxFaults
    BY FaultTyped DEF Typed, TypeOK, ProviderStep, ProviderCaptures, ProviderDeclines,
        ProviderEnds, Subscribe, StoreSubscription, SubscriptionLost,
        ProviderReverses, RefundAtProvider, RefundStores, RefundStoreFails
<1>8. payments' \in [Charges -> PaymentStatus \cup {"none"}]
    BY DEF Typed, TypeOK, ProviderStep, ProviderCaptures, ProviderDeclines,
        ProviderEnds, Subscribe, StoreSubscription, SubscriptionLost,
        ProviderReverses, RefundAtProvider, RefundStores, RefundStoreFails,
        database, PaymentStatus
<1>9. TypeOK'
    BY <1>1, <1>2, <1>4, <1>6, <1>7, <1>8, <1>5 DEF Typed, TypeOK
<1>10. \A w \in Workers : Fits(w)'
    BY <1>1, <1>2, RowIsRow, FitsStays DEF Typed
<1>11. QED
    BY <1>9, <1>10 DEF Typed

LEMMA RequestKeepsTypes ==
    ASSUME Typed, NEW w \in Workers, HandlerStep(w)
    PROVE  Typed'
<1>1. /\ handler[w] # Idle /\ UNCHANGED <<openpay, rpcs>>
      /\ \A x \in Workers \ {w} : handler'[x] = handler[x]
      /\ handler' \in [Workers -> {Idle} \cup [pc : Statement, event : Event]]
      /\ handler'[w] # Idle =>
             /\ handler'[w].event = EventAt(w)
             /\ <<handler[w].pc, handler'[w].pc>> \in Order
    BY RequestStep DEF Typed
<1>2. TypeOK'
    BY <1>1, RequestTyped DEF Typed, TypeOK, openpay, rpcs
<1>3. sub' # NoRow
    BY RequestTyped, RowIsRow
<1>4. Fits(w)'
    BY <1>1, <1>3 DEF Fits, Order, Typed, EventAt
<1>5. QED
    BY <1>1, <1>2, <1>3, <1>4, FitsStays DEF Typed

LEMMA ReceiveKeepsTypes ==
    ASSUME Typed, NEW w \in Workers, NEW e \in outbox, Receive(w, e)
    PROVE  Typed'
<1>1. /\ e \in Event
      /\ \A x \in Workers \ {w} : handler'[x] = handler[x]
      /\ handler' \in [Workers -> {Idle} \cup [pc : Statement, event : Event]]
      /\ handler'[w] # Idle /\ handler'[w].event = e
      /\ handler'[w].pc =
             IF e.type \in SuccessTypes THEN "lookup"
             ELSE IF e.type \in FailureTypes THEN "increment"
             ELSE IF e.type \in ReversalTypes THEN "reverse" ELSE "update"
    BY ReceiveEffect DEF Typed
<1>2. /\ UNCHANGED <<openpay, outbox, database, rpcs, logged, credits, recorded>>
      /\ sub # NoRow /\ (faults' = faults \/ Fault)
    BY DEF Receive
<1>3. TypeOK'
    BY <1>1, <1>2, FaultTyped DEF Typed, TypeOK, openpay, rpcs, database
<1>4. Fits(w)'
    BY <1>1, <1>2, EventKinds DEF Fits, EventAt, database
<1>5. QED
    BY <1>1, <1>2, <1>3, <1>4, FitsStays DEF Typed, database

LEMMA StepTyped ==
    ASSUME Typed, [Next]_vars
    PROVE  Typed'
<1>1. CASE UNCHANGED vars
    BY <1>1 DEF vars, openpay, rpcs, database, Typed, TypeOK, Fits, EventAt
<1>2. CASE Next
    BY <1>2, ProviderTyped, RequestKeepsTypes, ReceiveKeepsTypes
       DEF Next, ProviderStep
<1>3. QED
    BY <1>1, <1>2

(* OpenPay's side, the row, the payments and the requests keep their types *)
(* under any overlap of requests and faults; no request touches a row that *)
(* is not there.                                                           *)
THEOREM TypeInvariant == Spec => []TypeOK
<1>1. Spec => []Typed
    BY InitTyped, StepTyped, PTL DEF Spec
<1>2. QED
    BY <1>1, PTL DEF Typed

-----------------------------------------------------------------------------
(* What no step undoes.                                                    *)

LEMMA MoneyStays ==
    ASSUME Typed, [Next]_vars, NEW c \in Charges
    PROVE  /\ Accounted(c) => Accounted(c)'
           /\ Paid(c) => Paid(c)'
<1>1. /\ credits \in [Charges -> Nat] /\ logged \subseteq Charges
    BY DEF Typed, TypeOK
<1>2. CASE UNCHANGED <<credits, logged, split>>
    BY <1>2 DEF Accounted, Paid
<1>3. ASSUME NEW w \in Workers, HandlerStep(w)
      PROVE  /\ Accounted(c) => Accounted(c)'
             /\ Paid(c) => Paid(c)'
    <2>1. CASE Settle(w)
        BY <2>1 DEF Settle, Accounted, Paid
    <2>2. CASE Credit(w)
        <3>1. split' = split /\ logged' = logged
            BY <2>2 DEF Credit, database
        <3>2. credits' = [credits EXCEPT ![ChargeAt(w)] = credits[ChargeAt(w)] + 1]
            BY <2>2 DEF Credit
        <3>3. credits'[c] = credits[c] \/ credits'[c] = credits[c] + 1
            BY <1>1, <3>2
        <3>4. credits[c] > 0 => credits'[c] > 0
            BY <1>1, <3>3
        <3>5. QED
            BY <3>1, <3>4 DEF Accounted, Paid
    <2>3. CASE CreditFails(w)
        BY <2>3 DEF CreditFails, database, Accounted, Paid
    <2>4. CASE ~(Settle(w) \/ Credit(w) \/ CreditFails(w))
        <3>1. UNCHANGED <<credits, logged, split>>
            BY <1>3, <2>4 DEF HandlerStep, ReversePayment, NoPayment, LookUp,
                CreatePayment, CreateConflicts, RecordCharge, RecordFails,
                IncrementFailedCharge, FailPayment, UpdateStatus,
                PublishAndAnswer, RequestFails, database
        <3>2. QED
            BY <1>2, <3>1
    <2>5. QED
        BY <2>1, <2>2, <2>3, <2>4
<1>4. CASE ProviderStep \/ \E w \in Workers : \E e \in outbox : Receive(w, e)
    <2>1. UNCHANGED <<credits, logged, split>>
        BY <1>4 DEF ProviderStep, ProviderCaptures, ProviderDeclines, ProviderEnds,
            Subscribe, StoreSubscription, SubscriptionLost, ProviderReverses,
            RefundAtProvider, RefundStores, RefundStoreFails, Receive, database
    <2>2. QED
        BY <1>2, <2>1
<1>5. QED
    BY <1>2, <1>3, <1>4 DEF Next, ProviderStep, vars, database

LEMMA FactsStay ==
    ASSUME Typed, creating = "idle" => provider = "none", [Next]_vars
    PROVE  /\ captured \subseteq captured' /\ declined \subseteq declined'
           /\ provider \in Ended => provider' = provider
           /\ sub # NoRow => sub' # NoRow
           /\ \A e \in Event : EventTrue(e) => EventTrue(e)'
<1>1. /\ captured \subseteq captured' /\ declined \subseteq declined'
      /\ provider \in Ended => provider' = provider
      /\ sub # NoRow => sub' # NoRow
    <2>1. CASE ProviderStep
        <3>1. /\ captured \subseteq captured' /\ declined \subseteq declined'
              /\ provider \in Ended => provider' = provider
            BY <2>1 DEF ProviderStep, ProviderCaptures, ProviderDeclines,
                ProviderEnds, Subscribe, StoreSubscription, SubscriptionLost,
                ProviderReverses, RefundAtProvider, RefundStores,
                RefundStoreFails, openpay, rpcs, Ended, Live
        <3>2. sub' = sub \/ StoreSubscription
            BY <2>1 DEF ProviderStep, ProviderCaptures, ProviderDeclines,
                ProviderEnds, Subscribe, SubscriptionLost, ProviderReverses,
                RefundAtProvider, RefundStores, RefundStoreFails, database
        <3>3. StoreSubscription => sub' # NoRow
            BY DEF StoreSubscription, NoRow
        <3>4. QED
            BY <3>1, <3>2, <3>3
    <2>2. ASSUME NEW w \in Workers, HandlerStep(w)
          PROVE  UNCHANGED openpay /\ sub' # NoRow
        BY <2>2, RequestStep, RequestTyped, RowIsRow DEF Typed
    <2>3. ASSUME NEW w \in Workers, NEW e \in outbox, Receive(w, e)
          PROVE  UNCHANGED <<openpay, sub>>
        BY <2>3 DEF Receive, database
    <2>4. QED
        BY <2>1, <2>2, <2>3 DEF Next, ProviderStep, vars, database, openpay,
            rpcs
<1>2. \A type : StatusOf(type) \in Ended
    BY DEF StatusOf, Ended
<1>3. QED
    BY <1>1, <1>2 DEF EventTrue

(* What the row shows after the end stays so.                              *)
LEMMA MirrorStays ==
    ASSUME IInv, [Next]_vars, Mirrored
    PROVE  Mirrored'
<1>1. /\ provider' = provider /\ sub' # NoRow /\ declined \subseteq declined'
    BY FactsStay DEF IInv, Mirrored
<1>2. CASE sub' = sub
    BY <1>1, <1>2 DEF Mirrored
<1>3. ASSUME NEW w \in Workers, HandlerStep(w), sub' # sub
      PROVE  Mirrored'
    <2>1. /\ handler[w] # Idle /\ EventTrue(EventAt(w)) /\ Fits(w)
          /\ sub \in Row
        BY <1>3, RequestStep DEF IInv, Typed, TypeOK, Progress, Mirrored
    <2>2. CASE RecordCharge(w)
        <3>1. sub'.status = IF sub.status \in {"trial", "past_due"} THEN "active"
                            ELSE sub.status
            BY <2>1, <2>2 DEF RecordCharge, Row
        <3>2. QED
            BY <1>1, <3>1 DEF Mirrored, Ended
    <2>3. CASE UpdateStatus(w)
        <3>1. StatusOf(EventAt(w).type) = provider
            BY <2>1, <2>3 DEF UpdateStatus, Fits, EventTrue
        <3>2. sub'.status = provider
            BY <2>1, <2>3, <3>1 DEF UpdateStatus, Row
        <3>3. QED
            BY <1>1, <3>2 DEF Mirrored
    <2>4. CASE IncrementFailedCharge(w)
        <3>1. EventAt(w).type \in FailureTypes
            BY <2>1, <2>4 DEF IncrementFailedCharge, Fits
        <3>2. declined' # {}
            BY <1>1, <2>1, <3>1 DEF EventTrue
        <3>3. sub'.status = "past_due"
            BY <2>1, <2>4 DEF IncrementFailedCharge, Row
        <3>4. QED
            BY <1>1, <3>2, <3>3 DEF Mirrored
    <2>5. QED
        BY <1>3, <2>2, <2>3, <2>4 DEF HandlerStep, ReversePayment, NoPayment,
            LookUp, CreatePayment, CreateConflicts, Settle, Credit, CreditFails,
            RecordFails, FailPayment, PublishAndAnswer, RequestFails, database
<1>4. CASE StoreSubscription
    BY <1>4 DEF StoreSubscription, IInv, RowStored, Mirrored
<1>5. CASE ProviderStep /\ ~StoreSubscription
    <2>1. sub' = sub
        BY <1>5 DEF ProviderStep, ProviderCaptures, ProviderDeclines,
            ProviderEnds, Subscribe, SubscriptionLost, ProviderReverses,
            RefundAtProvider, RefundStores, RefundStoreFails, database
    <2>2. QED
        BY <1>2, <2>1
<1>6. ASSUME NEW w \in Workers, NEW e \in outbox, Receive(w, e)
      PROVE  Mirrored'
    BY <1>2, <1>6 DEF Receive, database
<1>7. QED
    BY <1>2, <1>3, <1>4, <1>5, <1>6 DEF Next, ProviderStep, vars, database

-----------------------------------------------------------------------------
(* The invariant is inductive.                                             *)

LEMMA StepCreating ==
    ASSUME IInv, [Next]_vars
    PROVE  RowStored' /\ (creating = "idle" => provider = "none")'
<1>1. CASE ProviderStep
    BY <1>1 DEF IInv, RowStored, ProviderStep, ProviderCaptures,
        ProviderDeclines, ProviderEnds, Subscribe, StoreSubscription,
        SubscriptionLost, ProviderReverses, RefundAtProvider, RefundStores,
        RefundStoreFails, openpay, rpcs, database, Live
<1>2. ASSUME NEW w \in Workers, HandlerStep(w)
      PROVE  RowStored' /\ (creating = "idle" => provider = "none")'
    <2>1. /\ UNCHANGED <<openpay, rpcs>> /\ handler[w] # Idle /\ Fits(w)
        BY <1>2, RequestStep DEF IInv, Typed
    <2>2. sub # NoRow
        BY <2>1 DEF Fits
    <2>3. QED
        BY <2>1, <2>2 DEF IInv, RowStored, openpay, rpcs
<1>3. ASSUME NEW w \in Workers, NEW e \in outbox, Receive(w, e)
      PROVE  RowStored' /\ (creating = "idle" => provider = "none")'
    BY <1>3 DEF IInv, RowStored, Receive, openpay, rpcs, database
<1>4. CASE UNCHANGED vars
    BY <1>4 DEF IInv, RowStored, vars, openpay, rpcs, database
<1>5. QED
    BY <1>1, <1>2, <1>3, <1>4 DEF Next, ProviderStep

LEMMA StepEvents ==
    ASSUME IInv, [Next]_vars
    PROVE  EventsTrue'
<1> SUFFICES ASSUME NEW e \in outbox'
             PROVE  EventTrue(e)'
    BY DEF EventsTrue
<1>1. CASE e \in outbox
    BY <1>1, FactsStay DEF IInv, Typed, TypeOK, EventsTrue
<1>2. ASSUME NEW c \in Charges, ProviderCaptures(c), e \notin outbox
      PROVE  EventTrue(e)'
    <2>1. PICK type \in SuccessTypes : e = EventOf(type, c)
        BY <1>2 DEF ProviderCaptures
    <2>2. e.type = type /\ e.charge = c /\ c \in captured'
        BY <1>2, <2>1 DEF ProviderCaptures, EventOf
    <2>3. QED
        BY <2>2 DEF EventTrue, SuccessTypes, EndTypes, FailureTypes,
            ReversalTypes
<1>3. ASSUME NEW c \in Charges, NEW a \in Attempts, ProviderDeclines(c, a),
             e \notin outbox
      PROVE  EventTrue(e)'
    <2>1. PICK type \in FailureTypes : e = FailureOf(type, c, a)
        BY <1>3 DEF ProviderDeclines
    <2>2. e.type = type /\ <<e.charge, e.attempt>> \in declined'
        BY <1>3, <2>1 DEF ProviderDeclines, FailureOf
    <2>3. QED
        BY <2>2 DEF EventTrue, SuccessTypes, EndTypes, FailureTypes, ReversalTypes
<1>4. ASSUME ProviderEnds, e \notin outbox
      PROVE  EventTrue(e)'
    <2>1. PICK type \in EndTypes : e = EventOf(type, NoCharge) /\ provider' = StatusOf(type)
        BY <1>4 DEF ProviderEnds
    <2>2. e.type = type
        BY <2>1 DEF EventOf
    <2>3. QED
        BY <2>1, <2>2 DEF EventTrue, SuccessTypes, EndTypes, FailureTypes,
            ReversalTypes
<1>5. CASE Subscribe \/ StoreSubscription \/ SubscriptionLost \/ UNCHANGED vars
    BY <1>1, <1>5 DEF Subscribe, StoreSubscription, SubscriptionLost,
        ProviderReverses, RefundAtProvider, RefundStores, RefundStoreFails, vars
<1>6. ASSUME NEW w \in Workers, HandlerStep(w)
      PROVE  EventTrue(e)'
    BY <1>1, <1>6, RequestTyped DEF IInv
<1>7. ASSUME NEW w \in Workers, NEW f \in outbox, Receive(w, f)
      PROVE  EventTrue(e)'
    BY <1>1, <1>7 DEF Receive
<1>8. ASSUME NEW c \in Charges, ProviderReverses(c) \/ RefundAtProvider(c),
             e \notin outbox
      PROVE  EventTrue(e)'
    <2>1. PICK type \in ReversalTypes : e = EventOf(type, c)
        BY <1>8 DEF ProviderReverses, RefundAtProvider, ReversalTypes
    <2>2. e.type = type /\ e.charge = c
        BY <2>1 DEF EventOf
    <2>3. c \in captured'
        BY <1>8 DEF ProviderReverses, RefundAtProvider, IInv, SplitCaptured
    <2>4. QED
        BY <2>2, <2>3 DEF EventTrue, SuccessTypes, EndTypes, FailureTypes,
            ReversalTypes
<1>9. ASSUME NEW c \in Charges, RefundStores(c) \/ RefundStoreFails(c)
      PROVE  EventTrue(e)'
    BY <1>1, <1>9 DEF RefundStores, RefundStoreFails
<1>10. QED
    BY <1>1, <1>2, <1>3, <1>4, <1>5, <1>6, <1>7, <1>8, <1>9 DEF Next

(* A request that did not move has still done what it had done.            *)
LEMMA ProgressStays ==
    ASSUME IInv, [Next]_vars, NEW x \in Workers, handler'[x] = handler[x]
    PROVE  Progress(x)'
<1> SUFFICES ASSUME handler[x] # Idle
             PROVE  Progress(x)'
    BY DEF Progress
<1>1. PICK e \in Event : e = handler[x].event
    BY BusyHandler DEF IInv, Typed, EventAt
<1>2. EventTrue(e)'
    BY <1>1, FactsStay DEF IInv, Progress, EventAt
<1>3. ASSUME e.type \in SuccessTypes
      PROVE  /\ handler[x].pc \in {"credit", "record", "answer"} => Paid(e.charge)'
             /\ handler[x].pc \in {"record", "answer"} => Accounted(e.charge)'
    <2>1. PICK c \in Charges : c = e.charge
        BY <1>3, EventKinds
    <2>2. /\ handler[x].pc \in {"credit", "record", "answer"} => Paid(c)
          /\ handler[x].pc \in {"record", "answer"} => Accounted(c)
        BY <1>1, <1>3, <2>1 DEF IInv, Progress, EventAt, ChargeAt
    <2>3. (Accounted(c) => Accounted(c)') /\ (Paid(c) => Paid(c)')
        BY MoneyStays DEF IInv
    <2>4. QED
        BY <2>1, <2>2, <2>3
<1>4. ASSUME e.type \in EndTypes, handler[x].pc = "answer"
      PROVE  Mirrored'
    <2>1. Mirrored
        BY <1>1, <1>4 DEF IInv, Progress, EventAt
    <2>2. QED
        BY <2>1, MirrorStays
<1>5. EventAt(x)' = e /\ ChargeAt(x)' = e.charge
    BY <1>1 DEF EventAt, ChargeAt
<1>6. QED
    BY <1>1, <1>2, <1>3, <1>4, <1>5 DEF Progress, EventAt, ChargeAt

LEMMA ProgressOfRequest ==
    ASSUME IInv, NEW w \in Workers, HandlerStep(w)
    PROVE  Progress(w)'
<1> SUFFICES ASSUME handler'[w] # Idle
             PROVE  Progress(w)'
    BY DEF Progress
<1>0. [Next]_vars
    BY DEF Next
<1>1. /\ handler[w] # Idle /\ UNCHANGED <<openpay, rpcs>>
      /\ handler'[w].event = EventAt(w)
      /\ <<handler[w].pc, handler'[w].pc>> \in Order
    BY RequestStep DEF IInv, Typed
<1>2. PICK e \in Event : e = EventAt(w)
    BY <1>1, BusyHandler DEF IInv, Typed
<1>3. EventTrue(e)'
    BY <1>0, <1>1, <1>2, FactsStay DEF IInv, Progress
<1>4. ASSUME e.type \in SuccessTypes
      PROVE  /\ handler'[w].pc \in {"credit", "record", "answer"} => Paid(e.charge)'
             /\ handler'[w].pc \in {"record", "answer"} => Accounted(e.charge)'
    <2>1. PICK c \in Charges : c = e.charge
        BY <1>4, EventKinds
    <2>2. /\ handler[w].pc \in {"credit", "record", "answer"} => Paid(c)
          /\ handler[w].pc \in {"record", "answer"} => Accounted(c)
        BY <1>1, <1>2, <1>4, <2>1 DEF IInv, Progress, ChargeAt
    <2>3. (Accounted(c) => Accounted(c)') /\ (Paid(c) => Paid(c)')
        BY <1>0, MoneyStays DEF IInv
    <2>4. handler[w].pc \in {"lookup", "create", "settle", "credit", "record"}
        BY <1>1, <1>2, <1>4 DEF Order, IInv, Typed, Fits, FailureTypes,
            ReversalTypes, SuccessTypes, EndTypes
    <2>5. CASE handler[w].pc \in {"lookup", "create"}
        BY <1>1, <2>5 DEF Order
    <2>6. CASE handler[w].pc = "settle"
        <3>1. Settle(w)
            BY <1>1, <2>6 DEF HandlerStep, ReversePayment, NoPayment, LookUp,
                CreatePayment, CreateConflicts, Credit, CreditFails,
                RecordCharge, RecordFails, IncrementFailedCharge, FailPayment,
                UpdateStatus, PublishAndAnswer, RequestFails, Drop, IInv, Typed,
                TypeOK
        <3>2. c \in split'
            BY <1>2, <2>1, <3>1 DEF Settle, ChargeAt
        <3>3. QED
            BY <1>1, <2>1, <2>6, <3>2 DEF Paid, Order
    <2>7. CASE handler[w].pc = "credit"
        <3>1. Credit(w) \/ CreditFails(w)
            BY <1>1, <2>7 DEF HandlerStep, ReversePayment, NoPayment, LookUp,
                CreatePayment, CreateConflicts, Settle, RecordCharge,
                RecordFails, IncrementFailedCharge, FailPayment, UpdateStatus,
                PublishAndAnswer, RequestFails, Drop, IInv, Typed, TypeOK
        <3>2. CASE Credit(w)
            <4>1. credits' = [credits EXCEPT ![c] = credits[c] + 1]
                BY <1>2, <2>1, <3>2 DEF Credit, ChargeAt
            <4>2. credits \in [Charges -> Nat]
                BY DEF IInv, Typed, TypeOK
            <4>3. credits'[c] > 0
                BY <4>1, <4>2
            <4>4. QED
                BY <2>1, <2>2, <2>3, <2>7, <4>3 DEF Accounted
        <3>3. CASE CreditFails(w)
            BY <1>2, <2>1, <2>2, <2>3, <2>7, <3>3 DEF CreditFails, ChargeAt, Accounted
        <3>4. QED
            BY <3>1, <3>2, <3>3
    <2>8. CASE handler[w].pc = "record"
        BY <2>1, <2>2, <2>3, <2>8
    <2>9. QED
        BY <2>4, <2>5, <2>6, <2>7, <2>8
<1>5. ASSUME e.type \in EndTypes, handler'[w].pc = "answer"
      PROVE  Mirrored'
    <2>1. handler[w].pc = "update"
        BY <1>1, <1>2, <1>5 DEF Order, IInv, Typed, Fits, FailureTypes,
            ReversalTypes, SuccessTypes, EndTypes
    <2>2. UpdateStatus(w)
        BY <1>1, <1>5, <2>1 DEF HandlerStep, ReversePayment, NoPayment, LookUp,
            CreatePayment, CreateConflicts, Settle, Credit, CreditFails,
            RecordCharge, RecordFails, IncrementFailedCharge, FailPayment,
            PublishAndAnswer, RequestFails, Drop, IInv, Typed, TypeOK
    <2>3. StatusOf(e.type) = provider /\ provider' = provider
        BY <1>1, <1>2, <1>5 DEF IInv, Progress, EventTrue, openpay, rpcs
    <2>4. sub \in Row
        BY <1>1 DEF IInv, Typed, TypeOK, Fits
    <2>5. sub'.status = provider'
        BY <1>2, <2>2, <2>3, <2>4 DEF UpdateStatus, Row
    <2>6. sub' # NoRow
        BY RequestTyped, RowIsRow DEF IInv
    <2>7. provider' \in Ended
        BY <2>3 DEF StatusOf, Ended
    <2>8. QED
        BY <2>5, <2>6, <2>7 DEF Mirrored
<1>6. EventAt(w)' = e /\ ChargeAt(w)' = e.charge
    BY <1>1, <1>2 DEF EventAt, ChargeAt
<1>7. QED
    BY <1>3, <1>4, <1>5, <1>6 DEF Progress

LEMMA StepProgress ==
    ASSUME IInv, [Next]_vars, NEW x \in Workers
    PROVE  Progress(x)'
<1>1. CASE handler'[x] = handler[x]
    BY <1>1, ProgressStays
<1>2. ASSUME NEW w \in Workers, HandlerStep(w)
      PROVE  Progress(x)'
    <2>1. CASE x = w
        BY <1>2, <2>1, ProgressOfRequest
    <2>2. CASE x # w
        BY <1>1, <1>2, <2>2, RequestStep DEF IInv, Typed
    <2>3. QED
        BY <2>1, <2>2
<1>3. ASSUME NEW w \in Workers, NEW e \in outbox, Receive(w, e)
      PROVE  Progress(x)'
    <2>1. /\ e \in Event /\ handler'[w] # Idle /\ handler'[w].event = e
          /\ \A y \in Workers \ {w} : handler'[y] = handler[y]
          /\ handler'[w].pc \in {"lookup", "increment", "reverse", "update"}
        BY <1>3, ReceiveEffect DEF IInv, Typed
    <2>2. CASE x = w
        <3>1. EventTrue(e)'
            BY <1>3, <2>1, FactsStay DEF IInv, EventsTrue
        <3>2. EventAt(x)' = e
            BY <2>1, <2>2 DEF EventAt
        <3>3. QED
            BY <2>1, <2>2, <3>1, <3>2 DEF Progress
    <2>3. CASE x # w
        BY <1>1, <2>1, <2>3
    <2>4. QED
        BY <2>2, <2>3
<1>4. CASE ProviderStep \/ UNCHANGED vars
    <2>1. handler' = handler
        BY <1>4 DEF ProviderStep, ProviderCaptures, ProviderDeclines,
            ProviderEnds, Subscribe, StoreSubscription, SubscriptionLost,
            ProviderReverses, RefundAtProvider, RefundStores, RefundStoreFails,
            vars
    <2>2. QED
        BY <1>1, <2>1
<1>5. QED
    BY <1>2, <1>3, <1>4 DEF Next, ProviderStep

(* Only an answer takes an event from the outbox.                          *)
LEMMA OutboxShrinks ==
    ASSUME IInv, [Next]_vars, NEW e \in outbox, e \notin outbox'
    PROVE  \E w \in Workers : /\ handler[w] # Idle /\ handler[w].pc = "answer"
                              /\ EventAt(w) = e
<1>1. PICK w \in Workers : HandlerStep(w)
    BY DEF Next, ProviderCaptures, ProviderDeclines, ProviderEnds, Subscribe,
        StoreSubscription, SubscriptionLost, ProviderReverses, RefundAtProvider,
        RefundStores, RefundStoreFails, Receive, vars
<1>2. PublishAndAnswer(w)
    BY <1>1 DEF HandlerStep, ReversePayment, NoPayment, LookUp, CreatePayment,
        CreateConflicts, Settle, Credit, CreditFails, RecordCharge, RecordFails,
        IncrementFailedCharge, FailPayment, UpdateStatus, RequestFails
<1>3. handler[w] # Idle
    BY <1>1, RequestStep DEF IInv, Typed
<1>4. QED
    BY <1>2, <1>3 DEF PublishAndAnswer

LEMMA StepAcked ==
    ASSUME IInv, [Next]_vars
    PROVE  AckedAccounted'
<1> SUFFICES ASSUME NEW c \in captured', NEW type \in SuccessTypes,
                    EventOf(type, c) \notin outbox'
             PROVE  Accounted(c)'
    BY DEF AckedAccounted, EventOf
<1>1. CASE c \in captured
    <2>1. c \in Charges
        BY <1>1 DEF IInv, Typed, TypeOK
    <2>2. Accounted(c)
        <3>1. CASE EventOf(type, c) \notin outbox
            BY <1>1, <3>1 DEF IInv, AckedAccounted
        <3>2. CASE EventOf(type, c) \in outbox
            <4>1. PICK w \in Workers : /\ handler[w] # Idle /\ handler[w].pc = "answer"
                                       /\ EventAt(w) = EventOf(type, c)
                BY <3>2, OutboxShrinks
            <4>2. EventAt(w).type = type /\ ChargeAt(w) = c
                BY <4>1 DEF EventOf, ChargeAt
            <4>3. QED
                BY <4>1, <4>2 DEF IInv, Progress
        <3>3. QED
            BY <3>1, <3>2
    <2>3. QED
        BY <2>1, <2>2, MoneyStays DEF IInv
<1>2. CASE c \notin captured
    <2>1. \A w \in Workers : ~HandlerStep(w)
        BY <1>2, RequestStep DEF IInv, Typed, openpay, rpcs
    <2>2. PICK d \in Charges : ProviderCaptures(d)
        BY <1>2, <2>1 DEF Next, ProviderDeclines, ProviderEnds, Subscribe,
            StoreSubscription, SubscriptionLost, ProviderReverses,
            RefundAtProvider, RefundStores, RefundStoreFails, Receive, vars,
            openpay, rpcs
    <2>3. c = d
        BY <1>2, <2>2 DEF ProviderCaptures
    <2>4. QED
        BY <2>2, <2>3 DEF ProviderCaptures
<1>3. QED
    BY <1>1, <1>2

LEMMA StepLast ==
    ASSUME IInv, [Next]_vars
    PROVE  LastAccounted'
<1> SUFFICES ASSUME sub' # NoRow, sub'.last_charge # NoCharge
             PROVE  /\ sub'.last_charge \in captured'
                    /\ Paid(sub.last_charge)' /\ Accounted(sub.last_charge)'
    BY DEF LastAccounted
<1>0. PICK d : d = sub'.last_charge
    OBVIOUS
<1>1. d \in captured /\ Paid(d) /\ Accounted(d)
    <2>1. CASE sub' = sub
        BY <1>0, <2>1 DEF IInv, LastAccounted
    <2>2. ASSUME NEW w \in Workers, HandlerStep(w), sub' # sub
          PROVE  d \in captured /\ Paid(d) /\ Accounted(d)
        <3>1. /\ handler[w] # Idle /\ Fits(w) /\ Progress(w)
            BY <2>2, RequestStep DEF IInv, Typed
        <3>2. sub \in Row /\ sub # NoRow
            BY <3>1 DEF Fits, IInv, Typed, TypeOK
        <3>3. CASE RecordCharge(w)
            <4>1. d = ChargeAt(w)
                BY <1>0, <3>2, <3>3 DEF RecordCharge, Row
            <4>2. EventAt(w).type \in SuccessTypes /\ handler[w].pc = "record"
                BY <3>1, <3>3 DEF RecordCharge, Fits
            <4>3. QED
                BY <3>1, <4>1, <4>2 DEF Progress, EventTrue, ChargeAt
        <3>4. CASE IncrementFailedCharge(w) \/ UpdateStatus(w)
            <4>1. d = sub.last_charge
                BY <1>0, <3>2, <3>4 DEF IncrementFailedCharge, UpdateStatus, Row
            <4>2. QED
                BY <1>0, <3>2, <4>1 DEF IInv, LastAccounted
        <3>5. QED
            BY <2>2, <3>3, <3>4 DEF HandlerStep, ReversePayment, NoPayment,
                LookUp, CreatePayment, CreateConflicts, Settle, Credit,
                CreditFails, RecordFails, FailPayment, PublishAndAnswer,
                RequestFails, database
    <2>3. ~StoreSubscription
        BY DEF StoreSubscription
    <2>4. CASE ProviderStep
        <3>1. sub' = sub
            BY <2>3, <2>4 DEF ProviderStep, ProviderCaptures, ProviderDeclines,
                ProviderEnds, Subscribe, SubscriptionLost, ProviderReverses,
                RefundAtProvider, RefundStores, RefundStoreFails, database
        <3>2. QED
            BY <2>1, <3>1
    <2>5. ASSUME NEW w \in Workers, NEW e \in outbox, Receive(w, e)
          PROVE  d \in captured /\ Paid(d) /\ Accounted(d)
        BY <2>1, <2>5 DEF Receive, database
    <2>6. QED
        BY <2>1, <2>2, <2>4, <2>5 DEF Next, ProviderStep, vars, database
<1>2. d \in Charges
    BY <1>1 DEF IInv, Typed, TypeOK
<1>3. d \in captured' /\ Paid(d)' /\ Accounted(d)'
    BY <1>1, <1>2, MoneyStays, FactsStay DEF IInv
<1>4. QED
    BY <1>0, <1>3 DEF Paid, Accounted

LEMMA StepSplit ==
    ASSUME IInv, [Next]_vars
    PROVE  SplitCaptured'
<1>1. captured \subseteq captured'
    BY FactsStay DEF IInv
<1>2. split' = split \/ \E w \in Workers : HandlerStep(w) /\ Settle(w)
    BY DEF Next, HandlerStep, ReversePayment, NoPayment, LookUp, CreatePayment,
        CreateConflicts, Settle, Credit, CreditFails, RecordCharge, RecordFails,
        IncrementFailedCharge, FailPayment, UpdateStatus, PublishAndAnswer,
        RequestFails, Receive, ProviderCaptures, ProviderDeclines, ProviderEnds,
        Subscribe, StoreSubscription, SubscriptionLost, ProviderReverses,
        RefundAtProvider, RefundStores, RefundStoreFails, vars, database
<1>3. ASSUME NEW w \in Workers, HandlerStep(w), Settle(w)
      PROVE  split' \subseteq split \cup captured
    <2>1. /\ handler[w] # Idle /\ Fits(w) /\ Progress(w)
        BY <1>3, RequestStep DEF IInv, Typed
    <2>2. EventAt(w).type \in SuccessTypes
        BY <1>3, <2>1 DEF Settle, Fits
    <2>3. ChargeAt(w) \in captured
        BY <2>1, <2>2 DEF Progress, EventTrue, ChargeAt
    <2>4. QED
        BY <1>3, <2>3 DEF Settle
<1>4. QED
    BY <1>1, <1>2, <1>3 DEF IInv, SplitCaptured

LEMMA StepEnd ==
    ASSUME IInv, [Next]_vars
    PROVE  EndShown'
<1> SUFFICES ASSUME provider' \in Ended,
                    \A type \in EndTypes : EventOf(type, NoCharge) \notin outbox'
             PROVE  Mirrored'
    BY DEF EndShown, EventOf
<1>2. CASE provider \in Ended
    <2>1. Mirrored
        <3>1. CASE \E type \in EndTypes : EventOf(type, NoCharge) \in outbox
            <4>1. PICK type \in EndTypes : EventOf(type, NoCharge) \in outbox
                BY <3>1
            <4>2. PICK w \in Workers : /\ handler[w] # Idle /\ handler[w].pc = "answer"
                                       /\ EventAt(w) = EventOf(type, NoCharge)
                BY <4>1, OutboxShrinks
            <4>3. EventAt(w).type = type
                BY <4>2 DEF EventOf
            <4>4. QED
                BY <4>2, <4>3 DEF IInv, Progress
        <3>2. CASE ~\E type \in EndTypes : EventOf(type, NoCharge) \in outbox
            BY <1>2, <3>2 DEF IInv, EndShown
        <3>3. QED
            BY <3>1, <3>2
    <2>2. QED
        BY <2>1, MirrorStays
<1>3. CASE provider \notin Ended
    <2>1. \A w \in Workers : ~HandlerStep(w)
        BY <1>3, RequestStep DEF IInv, Typed, openpay, rpcs
    <2>2. ProviderEnds
        BY <1>3, <2>1 DEF Next, ProviderCaptures, ProviderDeclines, Subscribe,
            StoreSubscription, SubscriptionLost, ProviderReverses,
            RefundAtProvider, RefundStores, RefundStoreFails, Receive, vars,
            openpay, rpcs, Ended
    <2>3. QED
        BY <2>2 DEF ProviderEnds
<1>4. QED
    BY <1>2, <1>3

LEMMA InitIInv ==
    ASSUME Init
    PROVE  IInv
<1>1. Typed
    BY InitTyped
<1>2. RowStored /\ (creating = "idle" => provider = "none")
    BY DEF Init, RowStored
<1>3. EventsTrue /\ AckedAccounted /\ LastAccounted /\ SplitCaptured
    BY DEF Init, EventsTrue, AckedAccounted, LastAccounted, SplitCaptured
<1>4. EndShown
    BY DEF Init, EndShown, Ended
<1>5. \A w \in Workers : Progress(w)
    BY DEF Init, Progress
<1>6. QED
    BY <1>1, <1>2, <1>3, <1>4, <1>5 DEF IInv

LEMMA StepIInv ==
    ASSUME IInv, [Next]_vars
    PROVE  IInv'
BY StepTyped, StepCreating, StepEvents, StepProgress, StepAcked, StepLast,
    StepSplit, StepEnd DEF IInv

THEOREM Inductive == Spec => []IInv
BY InitIInv, StepIInv, PTL DEF Spec

(* A charge of which a notification was answered 200 is in the balance or  *)
(* in the log, also when two requests raced to create its payment.         *)
THEOREM AckedIsAccounted == Spec => []AckedChargeIsAccounted
<1>1. IInv => AckedChargeIsAccounted
    BY DEF IInv, AckedAccounted, AckedChargeIsAccounted, Accounted
<1>2. QED
    BY <1>1, Inductive, PTL

(* Once everything is answered the row shows the end that OpenPay          *)
(* announced, or the past_due (or active) that only the notification of a  *)
(* declined attempt, handled after the end's, can have put in its place.   *)
THEOREM Mirror == Spec => []EndIsMirrored
<1>1. IInv => EndIsMirrored
    BY DEF IInv, EndShown, EndIsMirrored, Quiet, Mirrored, Ended
<1>2. QED
    BY <1>1, Inductive, PTL

-----------------------------------------------------------------------------
(* Who serves an event, before and after a step.                           *)

LEMMA ServingStays ==
    ASSUME TypeOK, NEW w \in Workers, HandlerStep(w), NEW e,
           e # EventAt(w) \/ handler'[w] # Idle
    PROVE  Serving(e)' = Serving(e)
BY RequestStep DEF Serving, EventAt

LEMMA ServingGrows ==
    ASSUME TypeOK, NEW w \in Workers, NEW f \in outbox, Receive(w, f), NEW e
    PROVE  Serving(e)' = IF e = f THEN Serving(e) \cup {w} ELSE Serving(e)
BY ReceiveEffect DEF Serving, EventAt

LEMMA HandlersSame ==
    ASSUME handler' = handler, NEW e, NEW c
    PROVE  Serving(e)' = Serving(e) /\ Pending(c)' = Pending(c) /\ Counting' = Counting
BY DEF Serving, Pending, Counting, EventAt, ChargeAt

LEMMA RequestsFinite ==
    ASSUME NEW c
    PROVE  /\ IsFiniteSet(Pending(c)) /\ Cardinality(Pending(c)) \in Nat
           /\ IsFiniteSet(Counting) /\ Cardinality(Counting) \in Nat
<1>1. Pending(c) \subseteq Workers /\ Counting \subseteq Workers
    BY DEF Pending, Counting
<1>2. IsFiniteSet(Workers)
    BY SubscriptionsAssumption
<1>3. QED
    BY <1>1, <1>2, FS_Subset, FS_CardinalityType

LEMMA FaultsGrow ==
    ASSUME TypeOK, [Next]_vars
    PROVE  faults \in Nat /\ faults' \in Nat /\ faults' >= faults
<1>1. faults \in Nat
    BY SubscriptionsAssumption DEF TypeOK
<1>2. faults' = faults \/ faults' = faults + 1
    BY DEF Next, ProviderCaptures, ProviderDeclines, ProviderEnds, Subscribe,
        StoreSubscription, SubscriptionLost, ProviderReverses, RefundAtProvider,
        RefundStores, RefundStoreFails, Receive, vars, HandlerStep,
        ReversePayment, NoPayment, LookUp, CreatePayment, CreateConflicts,
        Settle, Credit, CreditFails, RecordCharge, RecordFails,
        IncrementFailedCharge, FailPayment, UpdateStatus, PublishAndAnswer,
        RequestFails, Fault
<1>3. QED
    BY <1>1, <1>2

-----------------------------------------------------------------------------
(* Credits.                                                                *)

(* The steps of a request for another charge, or for none.                 *)
LEMMA CreditElsewhere ==
    ASSUME IInv, NEW w \in Workers, HandlerStep(w), NEW c \in Charges,
           ~(EventAt(w).type \in SuccessTypes /\ ChargeAt(w) = c)
    PROVE  /\ Pending(c)' = Pending(c) /\ credits'[c] = credits[c]
           /\ \A type \in SuccessTypes : OwedOf(type, c)' = OwedOf(type, c)
<1>1. /\ handler[w] # Idle /\ UNCHANGED <<openpay, rpcs>>
      /\ \A x \in Workers \ {w} : handler'[x] = handler[x]
      /\ handler'[w] # Idle => handler'[w].event = EventAt(w)
    BY RequestStep DEF IInv, Typed
<1>2. Pending(c)' = Pending(c)
    BY <1>1 DEF Pending, EventAt, ChargeAt
<1>3. credits'[c] = credits[c]
    <2>1. CASE Credit(w)
        <3>1. EventAt(w).type \in SuccessTypes
            BY <1>1, <2>1 DEF Credit, IInv, Typed, Fits
        <3>2. credits' = [credits EXCEPT ![ChargeAt(w)] = credits[ChargeAt(w)] + 1]
            BY <2>1 DEF Credit
        <3>3. QED
            BY <3>1, <3>2 DEF IInv, Typed, TypeOK
    <2>2. CASE ~Credit(w)
        BY <2>2 DEF HandlerStep, ReversePayment, NoPayment, LookUp,
            CreatePayment, CreateConflicts, Settle, CreditFails, RecordCharge,
            RecordFails, IncrementFailedCharge, FailPayment, UpdateStatus,
            PublishAndAnswer, RequestFails
    <2>3. QED
        BY <2>1, <2>2
<1>4. ASSUME NEW type \in SuccessTypes
      PROVE  OwedOf(type, c)' = OwedOf(type, c)
    <2>1. EventOf(type, c) # EventAt(w)
        BY DEF EventOf, ChargeAt
    <2>2. Serving(EventOf(type, c))' = Serving(EventOf(type, c))
        <3>1. PICK e : e = EventOf(type, c)
            OBVIOUS
        <3>2. Serving(e)' = Serving(e)
            BY <2>1, <3>1, ServingStays DEF IInv, Typed
        <3>3. QED
            BY <3>1, <3>2 DEF EventOf
    <2>3. EventOf(type, c) \in outbox' <=> EventOf(type, c) \in outbox
        BY <2>1 DEF HandlerStep, ReversePayment, NoPayment, LookUp,
            CreatePayment, CreateConflicts, Settle, Credit, CreditFails,
            RecordCharge, RecordFails, IncrementFailedCharge, FailPayment,
            UpdateStatus, PublishAndAnswer, RequestFails
    <2>4. QED
        BY <1>1, <2>2, <2>3 DEF OwedOf, Owed, EventOf, openpay, rpcs
<1>5. QED
    BY <1>2, <1>3, <1>4

LEMMA OwedRange ==
    ASSUME NEW c
    PROVE  /\ \A type \in SuccessTypes : OwedOf(type, c) \in {0, 1}
           /\ OwedBoth(c) \in {0, 1, 2}
<1>1. ASSUME NEW type
      PROVE  OwedOf(type, c) \in {0, 1}
    BY DEF OwedOf
<1>2. QED
    BY <1>1 DEF OwedBoth

(* The steps of a request for the charge itself: OpenPay owes another one  *)
(* only when this one ends without an answer.                              *)
LEMMA OwedByRequest ==
    ASSUME IInv, NEW w \in Workers, HandlerStep(w), NEW c \in Charges,
           EventAt(w).type \in SuccessTypes, ChargeAt(w) = c
    PROVE  OwedBoth(c)' <= OwedBoth(c)
                           + IF CreateConflicts(w) \/ RequestFails(w) THEN 1 ELSE 0
<1>1. /\ handler[w] # Idle /\ UNCHANGED <<openpay, rpcs>>
      /\ EventAt(w) \in Event
    BY RequestStep, BusyHandler DEF IInv, Typed
<1>2. PICK t \in SuccessTypes : t = EventAt(w).type
    OBVIOUS
<1>3. EventAt(w) = EventOf(t, c)
    BY <1>1, <1>2, EventKinds DEF ChargeAt
<1>4. c \in captured /\ c \in captured'
    BY <1>1 DEF IInv, Progress, EventTrue, ChargeAt, openpay, rpcs
<1>5. ~Owed(t, c)
    <2>1. w \in Serving(EventOf(t, c))
        BY <1>1, <1>3 DEF Serving
    <2>2. QED
        BY <1>4, <2>1 DEF Owed
<1>6. outbox' \subseteq outbox
    BY RequestTyped DEF IInv
<1>7. ASSUME NEW u \in SuccessTypes, u # t
      PROVE  OwedOf(u, c)' <= OwedOf(u, c)
    <2>1. PICK e : e = EventOf(u, c)
        OBVIOUS
    <2>2. e # EventAt(w)
        BY <1>3, <1>7, <2>1 DEF EventOf
    <2>3. Serving(e)' = Serving(e)
        BY <2>2, ServingStays DEF IInv, Typed
    <2>4. Owed(u, c)' => Owed(u, c)
        BY <1>4, <1>6, <2>1, <2>3 DEF Owed, EventOf
    <2>5. QED
        BY <2>4 DEF OwedOf
<1>8. ~NoPayment(w)
    BY <1>1, <1>2 DEF NoPayment, IInv, Typed, Fits, SuccessTypes, ReversalTypes
<1>9. ASSUME ~(CreateConflicts(w) \/ RequestFails(w))
      PROVE  ~Owed(t, c)'
    <2>1. PICK e : e = EventOf(t, c)
        OBVIOUS
    <2>2. CASE PublishAndAnswer(w)
        <3>1. e \notin outbox'
            BY <1>3, <2>1, <2>2 DEF PublishAndAnswer
        <3>2. QED
            BY <1>4, <2>1, <3>1 DEF Owed, EventOf
    <2>3. CASE ~PublishAndAnswer(w)
        <3>1. PICK pc \in Statement : Goto(w, pc)
            BY <1>8, <1>9, <2>3 DEF HandlerStep, ReversePayment, NoPayment, LookUp,
                CreatePayment, Settle, Credit, CreditFails, RecordCharge,
                RecordFails, IncrementFailedCharge, FailPayment, UpdateStatus,
                Statement
        <3>2. handler'[w] # Idle /\ handler'[w].event = e
            BY <1>1, <1>3, <2>1, <3>1, GotoEffect DEF IInv, Typed
        <3>3. w \in Serving(e)'
            BY <3>2 DEF Serving, EventAt
        <3>4. QED
            BY <1>4, <2>1, <3>3 DEF Owed, EventOf
    <2>4. QED
        BY <2>2, <2>3
<1>10. /\ OwedOf(t, c) = 0 /\ OwedOf(t, c)' \in {0, 1}
       /\ ~(CreateConflicts(w) \/ RequestFails(w)) => OwedOf(t, c)' = 0
    BY <1>5, <1>9 DEF OwedOf
<1>11. /\ \A u \in SuccessTypes : OwedOf(u, c) \in {0, 1}
       /\ \A u \in SuccessTypes : OwedOf(u, c)' \in {0, 1}
    <2>1. \A u \in SuccessTypes : OwedOf(u, c)' \in {0, 1}
        BY DEF OwedOf
    <2>2. QED
        BY <2>1, OwedRange
<1>12. CASE t = "charge.succeeded"
    <2>1. PICK u \in SuccessTypes : u = "subscription.charge.succeeded"
        BY DEF SuccessTypes
    <2>2. /\ OwedOf(u, c)' <= OwedOf(u, c)
          /\ OwedOf(u, c)' \in {0, 1} /\ OwedOf(u, c) \in {0, 1}
        BY <1>7, <1>11, <1>12, <2>1
    <2>3. OwedBoth(c) = OwedOf(t, c) + OwedOf(u, c)
        BY <1>12, <2>1 DEF OwedBoth
    <2>4. OwedBoth(c)' = OwedOf(t, c)' + OwedOf(u, c)'
        BY <1>12, <2>1 DEF OwedBoth
    <2>5. QED
        BY <1>10, <2>2, <2>3, <2>4
<1>13. CASE t = "subscription.charge.succeeded"
    <2>1. PICK u \in SuccessTypes : u = "charge.succeeded"
        BY DEF SuccessTypes
    <2>2. /\ OwedOf(u, c)' <= OwedOf(u, c)
          /\ OwedOf(u, c)' \in {0, 1} /\ OwedOf(u, c) \in {0, 1}
        BY <1>7, <1>11, <1>13, <2>1
    <2>3. OwedBoth(c) = OwedOf(u, c) + OwedOf(t, c)
        BY <1>13, <2>1 DEF OwedBoth
    <2>4. OwedBoth(c)' = OwedOf(u, c)' + OwedOf(t, c)'
        BY <1>13, <2>1 DEF OwedBoth
    <2>5. QED
        BY <1>10, <2>2, <2>3, <2>4
<1>14. QED
    BY <1>12, <1>13 DEF SuccessTypes

LEMMA PendingByRequest ==
    ASSUME IInv, NEW w \in Workers, HandlerStep(w), NEW c \in Charges,
           EventAt(w).type \in SuccessTypes, ChargeAt(w) = c
    PROVE  /\ Cardinality(Pending(c)') \in Nat
           /\ Cardinality(Pending(c)') <= Cardinality(Pending(c))
           /\ Credit(w) \/ CreateConflicts(w) =>
                  Cardinality(Pending(c)') <= Cardinality(Pending(c)) - 1
<1>1. /\ handler[w] # Idle
      /\ \A x \in Workers \ {w} : handler'[x] = handler[x]
      /\ handler'[w] # Idle =>
             /\ handler'[w].event = EventAt(w)
             /\ <<handler[w].pc, handler'[w].pc>> \in Order
    BY RequestStep DEF IInv, Typed
<1>2. /\ IsFiniteSet(Pending(c)) /\ Cardinality(Pending(c)) \in Nat
    BY RequestsFinite
<1>3. Pending(c)' \subseteq Pending(c)
    <2>1. w \in Pending(c)' => w \in Pending(c)
        <3>1. handler'[w].pc \in {"lookup", "create", "settle", "credit"} /\ handler'[w] # Idle
                  => handler[w].pc \in {"lookup", "create", "settle"}
            BY <1>1 DEF Order
        <3>2. QED
            BY <1>1, <3>1 DEF Pending
    <2>2. QED
        BY <1>1, <2>1 DEF Pending, EventAt, ChargeAt
<1>4. ASSUME Credit(w) \/ CreateConflicts(w)
      PROVE  w \in Pending(c) /\ w \notin Pending(c)'
    <2>1. CASE Credit(w)
        <3>1. handler[w].pc = "credit" /\ Goto(w, "record")
            BY <2>1 DEF Credit
        <3>2. handler'[w].pc = "record"
            BY <1>1, <3>1, GotoEffect DEF IInv, Typed, Statement
        <3>3. QED
            BY <1>1, <3>1, <3>2 DEF Pending
    <2>2. CASE CreateConflicts(w)
        <3>1. handler[w].pc = "create" /\ Drop(w)
            BY <2>2 DEF CreateConflicts
        <3>2. handler'[w] = Idle
            BY <3>1, DropEffect DEF IInv, Typed
        <3>3. QED
            BY <1>1, <3>1, <3>2 DEF Pending
    <2>3. QED
        BY <1>4, <2>1, <2>2
<1>5. IsFiniteSet(Pending(c)') /\ Cardinality(Pending(c)') <= Cardinality(Pending(c))
    BY <1>2, <1>3, FS_Subset
<1>6. Cardinality(Pending(c)') \in Nat
    BY <1>5, FS_CardinalityType
<1>7. ASSUME Credit(w) \/ CreateConflicts(w)
      PROVE  Cardinality(Pending(c)') <= Cardinality(Pending(c)) - 1
    <2>1. Pending(c)' \subseteq Pending(c) \ {w} /\ w \in Pending(c)
        BY <1>3, <1>4, <1>7
    <2>2. /\ IsFiniteSet(Pending(c) \ {w})
          /\ Cardinality(Pending(c) \ {w}) = Cardinality(Pending(c)) - 1
        BY <1>2, <2>1, FS_RemoveElement
    <2>3. Cardinality(Pending(c)') <= Cardinality(Pending(c) \ {w})
        BY <2>1, <2>2, FS_Subset
    <2>4. QED
        BY <2>2, <2>3
<1>8. QED
    BY <1>5, <1>6, <1>7

LEMMA CreditOfRequest ==
    ASSUME IInv, NEW w \in Workers, HandlerStep(w), NEW c \in Charges,
           credits[c] + Cardinality(Pending(c)) + OwedBoth(c) <= 2 + faults
    PROVE  (credits[c] + Cardinality(Pending(c)) + OwedBoth(c) <= 2 + faults)'
<1>0. /\ credits[c] \in Nat /\ Cardinality(Pending(c)) \in Nat
      /\ OwedBoth(c) \in {0, 1, 2} /\ OwedBoth(c)' \in {0, 1, 2}
    <2>1. OwedBoth(c)' \in {0, 1, 2}
        <3>1. /\ OwedOf("charge.succeeded", c)' \in {0, 1}
              /\ OwedOf("subscription.charge.succeeded", c)' \in {0, 1}
            BY DEF OwedOf
        <3>2. QED
            BY <3>1 DEF OwedBoth
    <2>2. credits[c] \in Nat
        BY DEF IInv, Typed, TypeOK
    <2>3. QED
        BY <2>1, <2>2, OwedRange, RequestsFinite
<1>1. /\ faults \in Nat /\ faults' \in Nat /\ faults' >= faults
    BY FaultsGrow DEF IInv, Typed, Next
<1>2. CASE ~(EventAt(w).type \in SuccessTypes /\ ChargeAt(w) = c)
    <2>1. /\ Pending(c)' = Pending(c) /\ credits'[c] = credits[c]
          /\ \A type \in SuccessTypes : OwedOf(type, c)' = OwedOf(type, c)
        BY <1>2, CreditElsewhere
    <2>2. OwedBoth(c)' = OwedBoth(c)
        BY <2>1 DEF OwedBoth, SuccessTypes
    <2>3. QED
        BY <1>0, <1>1, <2>1, <2>2
<1>3. CASE EventAt(w).type \in SuccessTypes /\ ChargeAt(w) = c
    <2>1. /\ Cardinality(Pending(c)') \in Nat
          /\ Cardinality(Pending(c)') <= Cardinality(Pending(c))
          /\ Credit(w) \/ CreateConflicts(w) =>
                 Cardinality(Pending(c)') <= Cardinality(Pending(c)) - 1
        BY <1>3, PendingByRequest
    <2>2. OwedBoth(c)' <= OwedBoth(c)
                          + IF CreateConflicts(w) \/ RequestFails(w) THEN 1 ELSE 0
        BY <1>3, OwedByRequest
    <2>3. CASE Credit(w)
        <3>1. credits'[c] = credits[c] + 1
            BY <1>3, <2>3 DEF Credit, IInv, Typed, TypeOK
        <3>2. ~(CreateConflicts(w) \/ RequestFails(w))
            <4>1. handler[w].pc = "credit"
                BY <2>3 DEF Credit
            <4>2. faults' = faults
                BY <2>3 DEF Credit
            <4>3. ~RequestFails(w)
                BY <1>1, <4>2 DEF RequestFails, Fault
            <4>4. QED
                BY <4>1, <4>3 DEF CreateConflicts
        <3>3. QED
            BY <1>0, <1>1, <2>1, <2>2, <2>3, <3>1, <3>2
    <2>4. CASE CreateConflicts(w)
        <3>1. credits' = credits
            BY <2>4 DEF CreateConflicts
        <3>2. OwedBoth(c)' <= OwedBoth(c) + 1
            BY <1>0, <2>2, <2>4
        <3>3. QED
            BY <1>0, <1>1, <2>1, <2>4, <3>1, <3>2
    <2>5. CASE RequestFails(w)
        <3>1. credits' = credits /\ faults' = faults + 1
            BY <2>5 DEF RequestFails, Fault
        <3>2. OwedBoth(c)' <= OwedBoth(c) + 1
            BY <1>0, <2>2, <2>5
        <3>3. QED
            BY <1>0, <1>1, <2>1, <3>1, <3>2
    <2>6. CASE ~(Credit(w) \/ CreateConflicts(w) \/ RequestFails(w))
        <3>1. credits' = credits
            BY <2>6 DEF HandlerStep, ReversePayment, NoPayment, LookUp,
                CreatePayment, Settle, CreditFails, RecordCharge, RecordFails,
                IncrementFailedCharge, FailPayment, UpdateStatus,
                PublishAndAnswer
        <3>2. OwedBoth(c)' <= OwedBoth(c)
            BY <1>0, <2>2, <2>6
        <3>3. QED
            BY <1>0, <1>1, <2>1, <3>1, <3>2
    <2>7. QED
        BY <2>3, <2>4, <2>5, <2>6
<1>4. QED
    BY <1>2, <1>3

LEMMA CreditOfReceive ==
    ASSUME IInv, NEW w \in Workers, NEW e \in outbox, Receive(w, e), NEW c \in Charges,
           credits[c] + Cardinality(Pending(c)) + OwedBoth(c) <= 2 + faults
    PROVE  (credits[c] + Cardinality(Pending(c)) + OwedBoth(c) <= 2 + faults)'
<1>1. /\ e \in Event /\ handler[w] = Idle
      /\ \A x \in Workers \ {w} : handler'[x] = handler[x]
      /\ handler'[w] # Idle /\ handler'[w].event = e
      /\ e.type \in SuccessTypes => handler'[w].pc = "lookup"
    BY ReceiveEffect DEF IInv, Typed
<1>2. /\ UNCHANGED <<openpay, outbox, credits>> /\ credits[c] \in Nat
      /\ IF Serving(e) = {} THEN UNCHANGED faults ELSE Fault
    BY DEF Receive, IInv, Typed, TypeOK
<1>3. /\ faults \in Nat /\ faults' \in Nat /\ faults' >= faults
    BY FaultsGrow DEF IInv, Typed, Next
<1>4. /\ IsFiniteSet(Pending(c)) /\ Cardinality(Pending(c)) \in Nat
      /\ w \notin Pending(c)
    BY <1>1, RequestsFinite DEF Pending
<1>5. ASSUME NEW type \in SuccessTypes
      PROVE  /\ OwedOf(type, c) \in {0, 1} /\ OwedOf(type, c)' \in {0, 1}
             /\ e # EventOf(type, c) => OwedOf(type, c)' = OwedOf(type, c)
             /\ e = EventOf(type, c) =>
                    OwedOf(type, c)' = 0 /\ (Serving(e) = {} => OwedOf(type, c) = 1)
    <2>1. PICK f : f = EventOf(type, c)
        OBVIOUS
    <2>2. Serving(f)' = IF e = f THEN Serving(f) \cup {w} ELSE Serving(f)
        <3>1. Serving(f)' = IF f = e THEN Serving(f) \cup {w} ELSE Serving(f)
            BY ServingGrows DEF IInv, Typed
        <3>2. QED
            BY <3>1
    <2>3. CASE e # f
        <3>1. Owed(type, c)' <=> Owed(type, c)
            BY <1>2, <2>1, <2>2, <2>3 DEF Owed, EventOf, openpay, rpcs
        <3>2. QED
            BY <2>1, <2>3, <3>1 DEF OwedOf
    <2>4. CASE e = f
        <3>1. c \in captured
            BY <2>1, <2>4 DEF IInv, EventsTrue, EventTrue, EventOf
        <3>2. ~Owed(type, c)'
            BY <1>2, <2>1, <2>2, <2>4, <3>1 DEF Owed, EventOf, openpay, rpcs
        <3>3. Serving(e) = {} => Owed(type, c)
            BY <2>1, <2>4 DEF Owed
        <3>4. QED
            BY <2>1, <2>4, <3>2, <3>3 DEF OwedOf
    <2>5. QED
        BY <2>3, <2>4
<1>6. CASE \A type \in SuccessTypes : e # EventOf(type, c)
    <2>1. OwedBoth(c)' = OwedBoth(c)
        BY <1>5, <1>6 DEF OwedBoth, SuccessTypes
    <2>2. ~(e.type \in SuccessTypes /\ e.charge = c)
        BY <1>1, <1>6, EventKinds
    <2>3. Pending(c)' = Pending(c)
        BY <1>1, <1>4, <2>2 DEF Pending, EventAt, ChargeAt
    <2>4. OwedBoth(c) \in {0, 1, 2}
        BY OwedRange
    <2>5. QED
        BY <1>2, <1>3, <1>4, <2>1, <2>3, <2>4
<1>7. ASSUME NEW t \in SuccessTypes, e = EventOf(t, c)
      PROVE  (credits[c] + Cardinality(Pending(c)) + OwedBoth(c) <= 2 + faults)'
    <2>1. e.type = t /\ e.charge = c
        BY <1>7 DEF EventOf
    <2>2. Pending(c)' = Pending(c) \cup {w}
        BY <1>1, <1>7, <2>1 DEF Pending, EventAt, ChargeAt
    <2>3. Cardinality(Pending(c)') = Cardinality(Pending(c)) + 1
        BY <1>4, <2>2, FS_AddElement
    <2>4. OwedBoth(c)' + (IF Serving(e) = {} THEN 1 ELSE 0) <= OwedBoth(c)
        <3>1. PICK u \in SuccessTypes : u # t
            BY DEF SuccessTypes
        <3>2. e # EventOf(u, c)
            BY <2>1, <3>1 DEF EventOf
        <3>3. /\ OwedOf(u, c) \in {0, 1} /\ OwedOf(u, c)' = OwedOf(u, c)
            BY <1>5, <3>2
        <3>4. /\ OwedOf(t, c) \in {0, 1} /\ OwedOf(t, c)' = 0
              /\ Serving(e) = {} => OwedOf(t, c) = 1
            BY <1>5, <1>7
        <3>5. CASE t = "charge.succeeded"
            <4>1. u = "subscription.charge.succeeded"
                BY <3>1, <3>5 DEF SuccessTypes
            <4>2. OwedBoth(c) = OwedOf(t, c) + OwedOf(u, c)
                BY <3>5, <4>1 DEF OwedBoth
            <4>3. OwedBoth(c)' = OwedOf(t, c)' + OwedOf(u, c)'
                BY <3>5, <4>1 DEF OwedBoth
            <4>4. QED
                BY <3>3, <3>4, <4>2, <4>3
        <3>6. CASE t = "subscription.charge.succeeded"
            <4>1. u = "charge.succeeded"
                BY <3>1, <3>6 DEF SuccessTypes
            <4>2. OwedBoth(c) = OwedOf(u, c) + OwedOf(t, c)
                BY <3>6, <4>1 DEF OwedBoth
            <4>3. OwedBoth(c)' = OwedOf(u, c)' + OwedOf(t, c)'
                BY <3>6, <4>1 DEF OwedBoth
            <4>4. QED
                BY <3>3, <3>4, <4>2, <4>3
        <3>7. QED
            BY <3>5, <3>6 DEF SuccessTypes
    <2>5. OwedBoth(c) \in {0, 1, 2} /\ OwedBoth(c)' \in {0, 1, 2}
        <3>1. /\ OwedOf("charge.succeeded", c)' \in {0, 1}
              /\ OwedOf("subscription.charge.succeeded", c)' \in {0, 1}
            BY DEF OwedOf
        <3>2. OwedBoth(c)' \in {0, 1, 2}
            BY <3>1 DEF OwedBoth
        <3>3. QED
            BY <3>2, OwedRange
    <2>6. CASE Serving(e) = {}
        <3>1. faults' = faults
            BY <1>2, <2>6
        <3>2. QED
            BY <1>2, <1>3, <1>4, <2>3, <2>4, <2>5, <2>6, <3>1
    <2>7. CASE Serving(e) # {}
        <3>1. faults' = faults + 1
            BY <1>2, <2>7 DEF Fault
        <3>2. QED
            BY <1>2, <1>3, <1>4, <2>3, <2>4, <2>5, <2>7, <3>1
    <2>8. QED
        BY <2>6, <2>7
<1>8. QED
    BY <1>6, <1>7

(* OpenPay and the creation of the subscription: a charge was owed both    *)
(* notifications before it was captured.                                   *)
LEMMA CreditOfProvider ==
    ASSUME IInv, ProviderStep, NEW c \in Charges,
           credits[c] + Cardinality(Pending(c)) + OwedBoth(c) <= 2 + faults
    PROVE  (credits[c] + Cardinality(Pending(c)) + OwedBoth(c) <= 2 + faults)'
<1>1. /\ handler' = handler /\ credits' = credits
      /\ captured \subseteq captured' /\ outbox \subseteq outbox'
    BY DEF ProviderStep, ProviderCaptures, ProviderDeclines, ProviderEnds,
        Subscribe, StoreSubscription, SubscriptionLost, ProviderReverses,
        RefundAtProvider, RefundStores, RefundStoreFails, openpay, rpcs
<1>2. Pending(c)' = Pending(c)
    BY <1>1 DEF Pending, EventAt, ChargeAt
<1>3. /\ faults \in Nat /\ faults' \in Nat /\ faults' >= faults
    BY FaultsGrow DEF IInv, Typed, Next, ProviderStep
<1>4. ASSUME NEW type \in SuccessTypes
      PROVE  OwedOf(type, c)' <= OwedOf(type, c)
    <2>1. PICK e : e = EventOf(type, c)
        OBVIOUS
    <2>2. Serving(e)' = Serving(e)
        BY <1>1, HandlersSame
    <2>3. c \in captured /\ e \in outbox' => e \in outbox
        <3>1. ASSUME NEW d \in Charges, ProviderCaptures(d), c \in captured
              PROVE  e \in outbox' => e \in outbox
            <4>1. \A t : EventOf(t, d).charge = d
                BY DEF EventOf
            <4>2. e.charge # d
                BY <2>1, <3>1 DEF ProviderCaptures, EventOf
            <4>3. QED
                BY <3>1, <4>1, <4>2 DEF ProviderCaptures
        <3>2. ASSUME NEW d \in Charges, NEW a \in Attempts, ProviderDeclines(d, a)
              PROVE  e \in outbox' => e \in outbox
            <4>1. \A t \in FailureTypes : FailureOf(t, d, a).type # e.type
                BY <2>1 DEF FailureOf, EventOf, SuccessTypes, FailureTypes
            <4>2. QED
                BY <3>2, <4>1 DEF ProviderDeclines
        <3>3. ASSUME NEW d \in Charges, ProviderReverses(d) \/ RefundAtProvider(d)
              PROVE  e \in outbox' => e \in outbox
            BY <2>1, <3>3 DEF ProviderReverses, RefundAtProvider, EventOf,
                SuccessTypes, ReversalTypes
        <3>4. CASE ProviderEnds
            BY <2>1, <3>4 DEF ProviderEnds, EventOf, SuccessTypes, EndTypes
        <3>5. CASE \/ Subscribe \/ StoreSubscription \/ SubscriptionLost
                   \/ \E d \in Charges : RefundStores(d) \/ RefundStoreFails(d)
            BY <3>5 DEF Subscribe, StoreSubscription, SubscriptionLost,
                RefundStores, RefundStoreFails
        <3>6. QED
            BY <3>1, <3>2, <3>3, <3>4, <3>5 DEF ProviderStep
    <2>4. Owed(type, c)' => Owed(type, c)
        BY <1>1, <2>1, <2>2, <2>3 DEF Owed, EventOf
    <2>5. QED
        BY <2>4 DEF OwedOf
<1>5. OwedBoth(c)' <= OwedBoth(c) /\ OwedBoth(c)' \in {0, 1, 2}
    <2>1. /\ OwedOf("charge.succeeded", c)' \in {0, 1}
          /\ OwedOf("subscription.charge.succeeded", c)' \in {0, 1}
        BY DEF OwedOf
    <2>2. /\ OwedOf("charge.succeeded", c)' <= OwedOf("charge.succeeded", c)
          /\ OwedOf("subscription.charge.succeeded", c)'
                 <= OwedOf("subscription.charge.succeeded", c)
        BY <1>4 DEF SuccessTypes
    <2>3. /\ OwedOf("charge.succeeded", c) \in {0, 1}
          /\ OwedOf("subscription.charge.succeeded", c) \in {0, 1}
        BY DEF OwedOf
    <2>4. QED
        BY <2>1, <2>2, <2>3 DEF OwedBoth
<1>6. /\ credits[c] \in Nat /\ Cardinality(Pending(c)) \in Nat
      /\ OwedBoth(c) \in {0, 1, 2}
    BY OwedRange, RequestsFinite DEF IInv, Typed, TypeOK
<1>7. QED
    BY <1>1, <1>2, <1>3, <1>5, <1>6

LEMMA StepCredits ==
    ASSUME IInv, CreditBudget, [Next]_vars
    PROVE  CreditBudget'
<1>1. SUFFICES ASSUME NEW c \in Charges
               PROVE  (credits[c] + Cardinality(Pending(c)) + OwedBoth(c) <= 2 + faults)'
    BY DEF CreditBudget
<1>2. credits[c] + Cardinality(Pending(c)) + OwedBoth(c) <= 2 + faults
    BY DEF CreditBudget
<1>3. CASE ProviderStep
    BY <1>2, <1>3, CreditOfProvider
<1>4. ASSUME NEW w \in Workers, HandlerStep(w)
      PROVE  (credits[c] + Cardinality(Pending(c)) + OwedBoth(c) <= 2 + faults)'
    BY <1>2, <1>4, CreditOfRequest
<1>5. ASSUME NEW w \in Workers, NEW e \in outbox, Receive(w, e)
      PROVE  (credits[c] + Cardinality(Pending(c)) + OwedBoth(c) <= 2 + faults)'
    BY <1>2, <1>5, CreditOfReceive
<1>6. CASE UNCHANGED vars
    BY <1>2, <1>6 DEF vars, openpay, rpcs, Pending, OwedBoth, OwedOf, Owed,
        Serving, EventAt, ChargeAt
<1>7. QED
    BY <1>3, <1>4, <1>5, <1>6 DEF Next, ProviderStep

LEMMA InitCredits ==
    ASSUME Init
    PROVE  CreditBudget
<1>1. ASSUME NEW c \in Charges
      PROVE  credits[c] + Cardinality(Pending(c)) + OwedBoth(c) <= 2 + faults
    <2>1. Pending(c) = {}
        BY DEF Init, Pending
    <2>2. Cardinality(Pending(c)) = 0
        BY <2>1, FS_EmptySet
    <2>3. credits[c] = 0 /\ faults = 0
        BY DEF Init
    <2>4. QED
        BY <2>2, <2>3, OwedRange
<1>2. QED
    BY <1>1 DEF CreditBudget

-----------------------------------------------------------------------------
(* The declined attempts.                                                  *)

LEMMA AddOne ==
    ASSUME NEW S, IsFiniteSet(S), NEW x
    PROVE  /\ IsFiniteSet(S \cup {x}) /\ Cardinality(S \cup {x}) \in Nat
           /\ Cardinality(S \cup {x}) <= Cardinality(S) + 1
<1>1. /\ IsFiniteSet(S \cup {x})
      /\ Cardinality(S \cup {x}) = Cardinality(S) \/ Cardinality(S \cup {x}) = Cardinality(S) + 1
    BY FS_AddElement
<1>2. Cardinality(S) \in Nat /\ Cardinality(S \cup {x}) \in Nat
    BY <1>1, FS_CardinalityType
<1>3. QED
    BY <1>1, <1>2

LEMMA DeclinedFinite ==
    ASSUME TypeOK
    PROVE  IsFiniteSet(declined) /\ Cardinality(declined) \in Nat
<1>1. IsFiniteSet(Charges \X Attempts)
    BY SubscriptionsAssumption, FS_Product
<1>2. declined \subseteq Charges \X Attempts
    BY DEF TypeOK
<1>3. QED
    BY <1>1, <1>2, FS_Subset, FS_CardinalityType

LEMMA CountTyped ==
    ASSUME TypeOK
    PROVE  Count \in Nat
<1>1. CASE sub = NoRow
    BY <1>1 DEF Count
<1>2. CASE sub # NoRow
    <2>1. sub \in Row
        BY <1>2 DEF TypeOK
    <2>2. QED
        BY <1>2, <2>1 DEF Count, Row
<1>3. QED
    BY <1>1, <1>2

(* A declined attempt is left uncounted by a request only when the request *)
(* ends without an answer.                                                 *)
LEMMA UncountedByRequest ==
    ASSUME IInv, NEW w \in Workers, HandlerStep(w)
    PROVE  /\ Uncounted' \subseteq Uncounted \cup {EventAt(w)}
           /\ ~RequestFails(w) => Uncounted' \subseteq Uncounted
           /\ Counting' \subseteq Counting
           /\ IncrementFailedCharge(w) => w \in Counting /\ w \notin Counting'
<1>1. /\ handler[w] # Idle /\ Fits(w)
      /\ \A x \in Workers \ {w} : handler'[x] = handler[x]
      /\ handler'[w] # Idle =>
             /\ handler'[w].event = EventAt(w)
             /\ <<handler[w].pc, handler'[w].pc>> \in Order
    BY RequestStep DEF IInv, Typed
<1>2. outbox' \subseteq outbox
    BY RequestTyped DEF IInv
<1>3. ASSUME NEW e \in Uncounted', e # EventAt(w) \/ ~RequestFails(w)
      PROVE  e \in Uncounted
    <2>1. e.type \in FailureTypes /\ e \in outbox' /\ Serving(e)' = {}
        BY DEF Uncounted
    <2>2. e # EventAt(w) \/ handler'[w] # Idle
        <3>1. SUFFICES ASSUME e = EventAt(w), handler'[w] = Idle
                       PROVE  FALSE
            OBVIOUS
        <3>2. ~RequestFails(w)
            BY <1>3, <3>1
        <3>3. CASE PublishAndAnswer(w)
            BY <2>1, <3>1, <3>3 DEF PublishAndAnswer
        <3>4. CASE CreateConflicts(w) \/ NoPayment(w)
            <4>1. EventAt(w).type \in SuccessTypes \cup ReversalTypes
                BY <1>1, <3>4 DEF CreateConflicts, NoPayment, Fits
            <4>2. QED
                BY <2>1, <3>1, <4>1 DEF SuccessTypes, FailureTypes, ReversalTypes
        <3>5. CASE ~(PublishAndAnswer(w) \/ CreateConflicts(w) \/ NoPayment(w))
            <4>1. PICK pc \in Statement : Goto(w, pc)
                BY <3>2, <3>5 DEF HandlerStep, ReversePayment, LookUp, CreatePayment,
                    Settle, Credit, CreditFails, RecordCharge, RecordFails,
                    IncrementFailedCharge, FailPayment, UpdateStatus, Statement
            <4>2. QED
                BY <1>1, <3>1, <4>1, GotoEffect DEF IInv, Typed
        <3>6. QED
            BY <3>3, <3>4, <3>5
    <2>3. Serving(e)' = Serving(e)
        BY <2>2, ServingStays DEF IInv, Typed
    <2>4. QED
        BY <1>2, <2>1, <2>3 DEF Uncounted
<1>4. handler'[w] # Idle => handler'[w].pc # "increment"
    BY <1>1 DEF Order
<1>5. Counting' \subseteq Counting /\ w \notin Counting'
    BY <1>1, <1>4 DEF Counting
<1>6. IncrementFailedCharge(w) => w \in Counting
    BY <1>1 DEF IncrementFailedCharge, Counting
<1>7. QED
    BY <1>3, <1>5, <1>6

LEMMA CountOfRequest ==
    ASSUME IInv, CountBudget, NEW w \in Workers, HandlerStep(w)
    PROVE  CountBudget'
<1>1. /\ handler[w] # Idle /\ declined' = declined /\ sub \in Row
    <2>1. handler[w] # Idle /\ declined' = declined
        BY RequestStep DEF IInv, Typed, openpay, rpcs
    <2>2. QED
        BY <2>1 DEF IInv, Typed, TypeOK, Fits
<1>2. /\ sub' \in Row /\ sub' # NoRow /\ sub # NoRow
    BY <1>1, RequestTyped, RowIsRow DEF IInv
<1>3. /\ Count = sub.failed_charge_count /\ Count' = sub'.failed_charge_count
      /\ Count \in Nat /\ Count' \in Nat
    BY <1>1, <1>2 DEF Count, Row
<1>4. /\ IsFiniteSet(Counting) /\ Cardinality(Counting) \in Nat
    BY RequestsFinite
<1>5. /\ IsFiniteSet(Uncounted) /\ Cardinality(Uncounted) \in Nat
      /\ Cardinality(declined) \in Nat
    BY DeclinedFinite DEF IInv, Typed, CountBudget
<1>6. /\ faults \in Nat /\ faults' \in Nat /\ faults' >= faults
    BY FaultsGrow DEF IInv, Typed, Next
<1>7. /\ Uncounted' \subseteq Uncounted \cup {EventAt(w)}
      /\ ~RequestFails(w) => Uncounted' \subseteq Uncounted
      /\ Counting' \subseteq Counting
      /\ IncrementFailedCharge(w) => w \in Counting /\ w \notin Counting'
    BY UncountedByRequest
<1>8. /\ Cardinality(Counting') \in Nat /\ Cardinality(Counting') <= Cardinality(Counting)
    BY <1>4, <1>7, FS_Subset, FS_CardinalityType
<1>9. Count + Cardinality(Counting) + Cardinality(Uncounted)
          <= 2 * Cardinality(declined) + faults
    BY DEF CountBudget
<1>10. CASE RequestFails(w)
    <2>1. Count' = Count /\ faults' = faults + 1
        BY <1>10 DEF RequestFails, Fault, database, Count
    <2>2. /\ IsFiniteSet(Uncounted \cup {EventAt(w)})
          /\ Cardinality(Uncounted \cup {EventAt(w)}) \in Nat
          /\ Cardinality(Uncounted \cup {EventAt(w)}) <= Cardinality(Uncounted) + 1
        BY <1>5, AddOne
    <2>3. /\ IsFiniteSet(Uncounted') /\ Cardinality(Uncounted') \in Nat
          /\ Cardinality(Uncounted') <= Cardinality(Uncounted \cup {EventAt(w)})
        BY <1>7, <2>2, FS_Subset, FS_CardinalityType
    <2>4. Count' + Cardinality(Counting') + Cardinality(Uncounted')
              <= 2 * Cardinality(declined) + faults'
        BY <1>3, <1>4, <1>5, <1>6, <1>8, <1>9, <2>1, <2>2, <2>3
    <2>5. QED
        BY <1>1, <2>3, <2>4 DEF CountBudget
<1>11. CASE ~RequestFails(w)
    <2>1. /\ IsFiniteSet(Uncounted') /\ Cardinality(Uncounted') \in Nat
          /\ Cardinality(Uncounted') <= Cardinality(Uncounted)
        BY <1>5, <1>7, <1>11, FS_Subset, FS_CardinalityType
    <2>2. Count' + Cardinality(Counting') <= Count + Cardinality(Counting)
        <3>1. CASE IncrementFailedCharge(w)
            <4>1. Count' = Count + 1
                BY <1>1, <1>3, <3>1 DEF IncrementFailedCharge, Row
            <4>2. Counting' \subseteq Counting \ {w} /\ w \in Counting
                BY <1>7, <3>1
            <4>3. /\ IsFiniteSet(Counting \ {w})
                  /\ Cardinality(Counting \ {w}) = Cardinality(Counting) - 1
                BY <1>4, <4>2, FS_RemoveElement
            <4>4. Cardinality(Counting') <= Cardinality(Counting \ {w})
                BY <4>2, <4>3, FS_Subset
            <4>5. QED
                BY <1>3, <1>4, <1>8, <4>1, <4>3, <4>4
        <3>2. CASE RecordCharge(w)
            <4>1. Count' = 0
                BY <1>1, <1>3, <3>2 DEF RecordCharge, Row
            <4>2. QED
                BY <1>3, <1>4, <1>8, <4>1
        <3>3. CASE UpdateStatus(w)
            <4>1. Count' = Count
                BY <1>1, <1>3, <3>3 DEF UpdateStatus, Row
            <4>2. QED
                BY <1>3, <1>4, <1>8, <4>1
        <3>4. CASE ~(IncrementFailedCharge(w) \/ RecordCharge(w) \/ UpdateStatus(w))
            <4>1. sub' = sub
                BY <3>4 DEF HandlerStep, ReversePayment, NoPayment, LookUp,
                    CreatePayment, CreateConflicts, Settle, Credit, CreditFails,
                    RecordFails, FailPayment, PublishAndAnswer, RequestFails,
                    database
            <4>2. Count' = Count
                BY <4>1 DEF Count
            <4>3. QED
                BY <1>3, <1>4, <1>8, <4>2
        <3>5. QED
            BY <3>1, <3>2, <3>3, <3>4
    <2>3. Count' + Cardinality(Counting') + Cardinality(Uncounted')
              <= 2 * Cardinality(declined) + faults'
        BY <1>3, <1>4, <1>5, <1>6, <1>8, <1>9, <2>1, <2>2
    <2>4. QED
        BY <1>1, <2>1, <2>3 DEF CountBudget
<1>12. QED
    BY <1>10, <1>11

LEMMA CountOfReceive ==
    ASSUME IInv, CountBudget, NEW w \in Workers, NEW e \in outbox, Receive(w, e)
    PROVE  CountBudget'
<1>1. /\ e \in Event /\ handler[w] = Idle
      /\ \A x \in Workers \ {w} : handler'[x] = handler[x]
      /\ handler'[w] # Idle
      /\ handler'[w].pc = IF e.type \in SuccessTypes THEN "lookup"
                          ELSE IF e.type \in FailureTypes THEN "increment"
                          ELSE IF e.type \in ReversalTypes THEN "reverse"
                          ELSE "update"
    BY ReceiveEffect DEF IInv, Typed
<1>2. /\ UNCHANGED <<openpay, outbox, database>>
      /\ IF Serving(e) = {} THEN UNCHANGED faults ELSE Fault
    BY DEF Receive
<1>3. Count' = Count /\ declined' = declined /\ Count \in Nat
    BY <1>2, CountTyped DEF Count, database, openpay, rpcs, IInv, Typed
<1>4. /\ faults \in Nat /\ faults' \in Nat /\ faults' >= faults
    BY FaultsGrow DEF IInv, Typed, Next
<1>5. /\ IsFiniteSet(Counting) /\ Cardinality(Counting) \in Nat
      /\ w \notin Counting
    BY <1>1, RequestsFinite DEF Counting
<1>6. /\ IsFiniteSet(Uncounted) /\ Cardinality(Uncounted) \in Nat
      /\ Cardinality(declined) \in Nat
    BY DeclinedFinite DEF IInv, Typed, CountBudget
<1>7. Count + Cardinality(Counting) + Cardinality(Uncounted)
          <= 2 * Cardinality(declined) + faults
    BY DEF CountBudget
<1>8. ASSUME NEW f \in Uncounted'
      PROVE  f \in Uncounted /\ f # e
    <2>1. f.type \in FailureTypes /\ f \in outbox /\ Serving(f)' = {}
        BY <1>2 DEF Uncounted
    <2>2. Serving(f)' = IF f = e THEN Serving(f) \cup {w} ELSE Serving(f)
        BY ServingGrows DEF IInv, Typed
    <2>3. f # e /\ Serving(f) = {}
        BY <2>1, <2>2
    <2>4. QED
        BY <2>1, <2>3 DEF Uncounted
<1>9. Uncounted' \subseteq Uncounted
    BY <1>8
<1>10. /\ IsFiniteSet(Uncounted') /\ Cardinality(Uncounted') \in Nat
       /\ Cardinality(Uncounted') <= Cardinality(Uncounted)
    BY <1>6, <1>9, FS_Subset, FS_CardinalityType
<1>11. CASE e.type \in FailureTypes
    <2>1. handler'[w].pc = "increment"
        BY <1>1, <1>11 DEF SuccessTypes, FailureTypes, ReversalTypes
    <2>2. Counting' = Counting \cup {w}
        BY <1>1, <1>5, <2>1 DEF Counting
    <2>3. Cardinality(Counting') = Cardinality(Counting) + 1
        BY <1>5, <2>2, FS_AddElement
    <2>4. CASE Serving(e) = {}
        <3>1. e \in Uncounted /\ e \notin Uncounted'
            BY <1>8, <1>11, <2>4 DEF Uncounted
        <3>2. /\ IsFiniteSet(Uncounted \ {e})
              /\ Cardinality(Uncounted \ {e}) = Cardinality(Uncounted) - 1
            BY <1>6, <3>1, FS_RemoveElement
        <3>3. Cardinality(Uncounted') <= Cardinality(Uncounted \ {e})
            BY <1>9, <3>1, <3>2, FS_Subset
        <3>4. Count' + Cardinality(Counting') + Cardinality(Uncounted')
                  <= 2 * Cardinality(declined) + faults'
            BY <1>3, <1>4, <1>5, <1>6, <1>7, <1>10, <2>3, <3>2, <3>3
        <3>5. QED
            BY <1>3, <1>10, <3>4 DEF CountBudget
    <2>5. CASE Serving(e) # {}
        <3>1. faults' = faults + 1
            BY <1>2, <2>5 DEF Fault
        <3>2. Count' + Cardinality(Counting') + Cardinality(Uncounted')
                  <= 2 * Cardinality(declined) + faults'
            BY <1>3, <1>4, <1>5, <1>6, <1>7, <1>10, <2>3, <3>1
        <3>3. QED
            BY <1>3, <1>10, <3>2 DEF CountBudget
    <2>6. QED
        BY <2>4, <2>5
<1>12. CASE e.type \notin FailureTypes
    <2>1. handler'[w].pc # "increment"
        BY <1>1, <1>12
    <2>2. Counting' = Counting
        BY <1>1, <1>5, <2>1 DEF Counting
    <2>3. Count' + Cardinality(Counting') + Cardinality(Uncounted')
              <= 2 * Cardinality(declined) + faults'
        BY <1>3, <1>4, <1>5, <1>6, <1>7, <1>10, <2>2
    <2>4. QED
        BY <1>3, <1>10, <2>3 DEF CountBudget
<1>13. QED
    BY <1>11, <1>12

LEMMA CountOfProvider ==
    ASSUME IInv, CountBudget, ProviderStep
    PROVE  CountBudget'
<1>1. handler' = handler
    BY DEF ProviderStep, ProviderCaptures, ProviderDeclines, ProviderEnds,
        Subscribe, StoreSubscription, SubscriptionLost, ProviderReverses,
        RefundAtProvider, RefundStores, RefundStoreFails, openpay, rpcs
<1>2. Counting' = Counting
    BY <1>1 DEF Counting
<1>3. /\ faults \in Nat /\ faults' \in Nat /\ faults' >= faults
    BY FaultsGrow DEF IInv, Typed, Next, ProviderStep
<1>4. Count \in Nat /\ Cardinality(Counting) \in Nat
    BY CountTyped, RequestsFinite DEF IInv, Typed
<1>5. /\ IsFiniteSet(Uncounted) /\ Cardinality(Uncounted) \in Nat
      /\ IsFiniteSet(declined) /\ Cardinality(declined) \in Nat
    BY DeclinedFinite DEF IInv, Typed, CountBudget
<1>6. Count + Cardinality(Counting) + Cardinality(Uncounted)
          <= 2 * Cardinality(declined) + faults
    BY DEF CountBudget
<1>7. Count' = Count \/ Count' = 0
    <2>1. CASE StoreSubscription
        BY <2>1 DEF StoreSubscription, Count, NoRow
    <2>2. CASE ~StoreSubscription
        BY <2>2 DEF ProviderStep, ProviderCaptures, ProviderDeclines,
            ProviderEnds, Subscribe, SubscriptionLost, ProviderReverses,
            RefundAtProvider, RefundStores, RefundStoreFails, database, Count
    <2>3. QED
        BY <2>1, <2>2
<1>8. \A e : Serving(e)' = Serving(e)
    BY <1>1, HandlersSame
<1>9. ASSUME NEW c \in Charges, NEW a \in Attempts, ProviderDeclines(c, a)
      PROVE  CountBudget'
    <2>1. PICK e, f : /\ e = FailureOf("charge.failed", c, a)
                      /\ f = FailureOf("subscription.charge.failed", c, a)
        OBVIOUS
    <2>2. /\ declined' = declined \cup {<<c, a>>} /\ <<c, a>> \notin declined
          /\ outbox' = outbox \cup {e, f}
        BY <1>9, <2>1 DEF ProviderDeclines, FailureTypes
    <2>3. Cardinality(declined') = Cardinality(declined) + 1
        BY <1>5, <2>2, FS_AddElement
    <2>4. Uncounted' \subseteq (Uncounted \cup {e}) \cup {f}
        BY <1>8, <2>2 DEF Uncounted
    <2>5. /\ IsFiniteSet(Uncounted \cup {e})
          /\ Cardinality(Uncounted \cup {e}) \in Nat
          /\ Cardinality(Uncounted \cup {e}) <= Cardinality(Uncounted) + 1
        BY <1>5, AddOne
    <2>6. /\ IsFiniteSet((Uncounted \cup {e}) \cup {f})
          /\ Cardinality((Uncounted \cup {e}) \cup {f}) \in Nat
          /\ Cardinality((Uncounted \cup {e}) \cup {f}) <= Cardinality(Uncounted \cup {e}) + 1
        BY <2>5, AddOne
    <2>7. /\ IsFiniteSet(Uncounted') /\ Cardinality(Uncounted') \in Nat
          /\ Cardinality(Uncounted') <= Cardinality((Uncounted \cup {e}) \cup {f})
        BY <2>4, <2>6, FS_Subset, FS_CardinalityType
    <2>8. Count' + Cardinality(Counting) + Cardinality(Uncounted')
              <= 2 * Cardinality(declined') + faults'
        BY <1>3, <1>4, <1>5, <1>6, <1>7, <2>3, <2>5, <2>6, <2>7
    <2>9. QED
        BY <1>2, <2>7, <2>8 DEF CountBudget
<1>10. CASE ~\E c \in Charges, a \in Attempts : ProviderDeclines(c, a)
    <2>1. declined' = declined
        BY <1>10 DEF ProviderStep, ProviderCaptures, ProviderReverses, ProviderEnds,
            Subscribe, StoreSubscription, SubscriptionLost, RefundAtProvider,
            RefundStores, RefundStoreFails, openpay, rpcs
    <2>2. \A e \in outbox' : e \in outbox \/ e.type \notin FailureTypes
        BY <1>10 DEF ProviderStep, ProviderCaptures, ProviderReverses, ProviderEnds,
            Subscribe, StoreSubscription, SubscriptionLost, RefundAtProvider,
            RefundStores, RefundStoreFails, EventOf, SuccessTypes, EndTypes,
            FailureTypes, ReversalTypes
    <2>3. Uncounted' \subseteq Uncounted
        BY <1>8, <2>2 DEF Uncounted
    <2>4. /\ IsFiniteSet(Uncounted') /\ Cardinality(Uncounted') \in Nat
          /\ Cardinality(Uncounted') <= Cardinality(Uncounted)
        BY <1>5, <2>3, FS_Subset, FS_CardinalityType
    <2>5. Count' + Cardinality(Counting) + Cardinality(Uncounted')
              <= 2 * Cardinality(declined) + faults'
        BY <1>3, <1>4, <1>5, <1>6, <1>7, <2>4
    <2>6. QED
        BY <1>2, <2>1, <2>4, <2>5 DEF CountBudget
<1>11. QED
    BY <1>9, <1>10

LEMMA StepCount ==
    ASSUME IInv, CountBudget, [Next]_vars
    PROVE  CountBudget'
<1>1. CASE ProviderStep
    BY <1>1, CountOfProvider
<1>2. ASSUME NEW w \in Workers, HandlerStep(w)
      PROVE  CountBudget'
    BY <1>2, CountOfRequest
<1>3. ASSUME NEW w \in Workers, NEW e \in outbox, Receive(w, e)
      PROVE  CountBudget'
    BY <1>3, CountOfReceive
<1>4. CASE UNCHANGED vars
    BY <1>4 DEF vars, openpay, rpcs, database, CountBudget, Count, Counting,
        Uncounted, Serving, EventAt
<1>5. QED
    BY <1>1, <1>2, <1>3, <1>4 DEF Next, ProviderStep

LEMMA InitCount ==
    ASSUME Init
    PROVE  CountBudget
<1>1. Counting = {} /\ Uncounted = {} /\ declined = {}
    BY DEF Init, Counting, Uncounted
<1>2. Cardinality({}) = 0 /\ IsFiniteSet({})
    BY FS_EmptySet
<1>3. Count = 0 /\ faults = 0
    BY DEF Init, Count
<1>4. QED
    BY <1>1, <1>2, <1>3 DEF CountBudget

(* However often a notification is delivered again, and however requests   *)
(* for it interleave, a charge is credited at most twice and a declined    *)
(* attempt counted at most twice, once for each of its two notifications,  *)
(* beyond the faults that occurred: a request in progress and a            *)
(* notification still owed each keep one in store, and only a fault adds   *)
(* to the stock (handleSubscriptionChargeSucceeded,                        *)
(* handleSubscriptionChargeFailed, IncrementFailedCharge).                 *)
THEOREM Effects == Spec => []EffectsBounded
<1>1. Init => IInv /\ CreditBudget /\ CountBudget
    BY InitIInv, InitCredits, InitCount
<1>2. IInv /\ CreditBudget /\ CountBudget /\ [Next]_vars
          => IInv' /\ CreditBudget' /\ CountBudget'
    BY StepIInv, StepCredits, StepCount
<1>3. IInv /\ CreditBudget /\ CountBudget => EffectsBounded
    <2>1. SUFFICES ASSUME IInv, CreditBudget, CountBudget
                   PROVE  EffectsBounded
        OBVIOUS
    <2>2. ASSUME NEW c \in Charges
          PROVE  credits[c] <= 2 + faults
        <3>1. credits[c] + Cardinality(Pending(c)) + OwedBoth(c) <= 2 + faults
            BY <2>1 DEF CreditBudget
        <3>2. credits[c] \in Nat /\ faults \in Nat
            BY <2>1, SubscriptionsAssumption DEF IInv, Typed, TypeOK
        <3>3. Cardinality(Pending(c)) \in Nat /\ OwedBoth(c) \in {0, 1, 2}
            BY RequestsFinite, OwedRange
        <3>4. QED
            BY <3>1, <3>2, <3>3
    <2>3. ASSUME sub # NoRow
          PROVE  sub.failed_charge_count <= 2 * Cardinality(declined) + faults
        <3>1. Count = sub.failed_charge_count /\ Count \in Nat /\ faults \in Nat
            BY <2>1, <2>3, CountTyped, SubscriptionsAssumption
               DEF Count, IInv, Typed, TypeOK
        <3>2. /\ Cardinality(Counting) \in Nat /\ Cardinality(Uncounted) \in Nat
              /\ Cardinality(declined) \in Nat
            BY <2>1, RequestsFinite, DeclinedFinite DEF IInv, Typed, CountBudget
        <3>3. Count + Cardinality(Counting) + Cardinality(Uncounted)
                  <= 2 * Cardinality(declined) + faults
            BY <2>1 DEF CountBudget
        <3>4. QED
            BY <3>1, <3>2, <3>3
    <2>4. QED
        BY <2>2, <2>3 DEF EffectsBounded
<1>4. QED
    BY <1>1, <1>2, <1>3, PTL DEF Spec

-----------------------------------------------------------------------------
(* The unrecorded charges.                                                 *)

(* A notification is added to the missed ones only when RecordCharge fails *)
(* for it.                                                                 *)
LEMMA MissedByRequest ==
    ASSUME IInv, NEW w \in Workers, HandlerStep(w)
    PROVE  \/ Missed' \subseteq Missed
           \/ /\ RecordFails(w)
              /\ Missed' \subseteq Missed \cup {<<EventAt(w).type, ChargeAt(w)>>}
<1>1. /\ handler[w] # Idle /\ captured' = captured /\ Fits(w)
      /\ \A x \in Workers \ {w} : handler'[x] = handler[x]
      /\ handler'[w] # Idle =>
             /\ handler'[w].event = EventAt(w)
             /\ <<handler[w].pc, handler'[w].pc>> \in Order
    BY RequestStep DEF IInv, Typed, openpay
<1>2. recorded \subseteq recorded' /\ (RecordCharge(w) => ChargeAt(w) \in recorded')
    BY DEF HandlerStep, ReversePayment, NoPayment, LookUp, CreatePayment,
        CreateConflicts, Settle, Credit, CreditFails, RecordCharge, RecordFails,
        IncrementFailedCharge, FailPayment, UpdateStatus, PublishAndAnswer,
        RequestFails
<1>3. ASSUME NEW n \in Missed', n \notin Missed
      PROVE  RecordFails(w) /\ n = <<EventAt(w).type, ChargeAt(w)>>
    <2>1. n \in SuccessTypes \X (captured \ recorded) /\ n[2] \notin recorded'
        BY <1>1, <1>2 DEF Missed
    <2>2. PICK e : e = EventOf(n[1], n[2])
        OBVIOUS
    <2>3. e.type = n[1] /\ e.charge = n[2] /\ e.type \in SuccessTypes
        BY <2>1, <2>2 DEF EventOf
    <2>4. /\ e \in outbox
          /\ \A x \in Workers :
                ~(handler[x] # Idle /\ handler[x].pc = "answer" /\ EventAt(x) = e)
        BY <1>3, <2>1, <2>2 DEF Missed
    <2>5. e \in outbox'
        <3>1. CASE PublishAndAnswer(w)
            BY <1>1, <2>4, <3>1 DEF PublishAndAnswer
        <3>2. CASE ~PublishAndAnswer(w)
            <4>1. outbox' = outbox
                BY <3>2 DEF HandlerStep, ReversePayment, NoPayment, LookUp,
                    CreatePayment, CreateConflicts, Settle, Credit, CreditFails,
                    RecordCharge, RecordFails, IncrementFailedCharge, FailPayment,
                    UpdateStatus, RequestFails
            <4>2. QED
                BY <2>4, <4>1
        <3>3. QED
            BY <3>1, <3>2
    <2>6. PICK x \in Workers :
              handler'[x] # Idle /\ handler'[x].pc = "answer" /\ handler'[x].event = e
        BY <1>3, <2>2, <2>5 DEF Missed, EventAt
    <2>7. x = w /\ EventAt(w) = e
        BY <1>1, <2>4, <2>6 DEF EventAt
    <2>8. handler[w].pc = "record"
        <3>1. handler[w].pc \in {"record", "fail", "reverse", "update"}
            BY <1>1, <2>6, <2>7 DEF Order
        <3>2. QED
            BY <1>1, <2>3, <2>7, <3>1
               DEF Fits, SuccessTypes, FailureTypes, ReversalTypes, EndTypes
    <2>9. RecordCharge(w) \/ RecordFails(w) \/ RequestFails(w)
        BY <2>8 DEF HandlerStep, ReversePayment, NoPayment, LookUp, CreatePayment,
            CreateConflicts, Settle, Credit, CreditFails, IncrementFailedCharge,
            FailPayment, UpdateStatus, PublishAndAnswer
    <2>10. ~RequestFails(w)
        BY <2>6, <2>7, DropEffect DEF RequestFails, IInv, Typed
    <2>11. ~RecordCharge(w)
        BY <1>2, <2>1, <2>3, <2>7 DEF ChargeAt
    <2>12. QED
        BY <2>1, <2>3, <2>7, <2>9, <2>10, <2>11 DEF ChargeAt
<1>4. QED
    BY <1>3

LEMMA MissedElsewhere ==
    ASSUME IInv,
           ProviderStep \/ \E w \in Workers : \E e \in outbox : Receive(w, e)
    PROVE  Missed' \subseteq Missed
<1>1. recorded' = recorded
    BY DEF ProviderStep, ProviderCaptures, ProviderDeclines, ProviderEnds,
        Subscribe, StoreSubscription, SubscriptionLost, ProviderReverses,
        RefundAtProvider, RefundStores, RefundStoreFails, Receive
<1>2. \A x \in Workers :
         handler'[x] # Idle /\ handler'[x].pc = "answer" => handler'[x] = handler[x]
    <2>1. CASE ProviderStep
        BY <2>1 DEF ProviderStep, ProviderCaptures, ProviderDeclines, ProviderEnds,
            Subscribe, StoreSubscription, SubscriptionLost, ProviderReverses,
            RefundAtProvider, RefundStores, RefundStoreFails
    <2>2. ASSUME NEW w \in Workers, NEW e \in outbox, Receive(w, e), NEW x \in Workers,
                 handler'[x].pc = "answer"
          PROVE  handler'[x] = handler[x]
        BY <2>2, ReceiveEffect DEF IInv, Typed
    <2>3. QED
        BY <2>1, <2>2
<1>3. outbox \subseteq outbox'
    BY Announced DEF Receive
<1>4. CASE captured' = captured
    BY <1>1, <1>2, <1>3, <1>4 DEF Missed, EventAt
<1>5. ASSUME NEW c \in Charges, ProviderCaptures(c)
      PROVE  Missed' \subseteq Missed
    <2>1. /\ c \notin captured /\ captured' = captured \cup {c}
          /\ outbox' = outbox \cup {EventOf(type, c) : type \in SuccessTypes}
          /\ handler' = handler
        BY <1>5 DEF ProviderCaptures
    <2>2. ASSUME NEW type \in SuccessTypes, NEW x \in Workers, handler[x] # Idle,
                 EventAt(x) = EventOf(type, c)
          PROVE  FALSE
        <3>1. EventTrue(EventAt(x))
            BY <2>2 DEF IInv, Progress
        <3>2. EventAt(x).type \in SuccessTypes /\ EventAt(x).charge = c
            BY <2>2 DEF EventOf
        <3>3. QED
            BY <2>1, <3>1, <3>2 DEF EventTrue
    <2>3. ASSUME NEW n \in Missed'
          PROVE  n[2] # c
        <3>1. n[1] \in SuccessTypes
            BY DEF Missed
        <3>2. SUFFICES ASSUME n[2] = c
                       PROVE  FALSE
            OBVIOUS
        <3>3. EventOf(n[1], n[2]) \in outbox'
            BY <2>1, <3>1, <3>2
        <3>4. PICK x \in Workers : handler'[x] # Idle /\ EventAt(x)' = EventOf(n[1], c)
            BY <3>2, <3>3 DEF Missed
        <3>5. QED
            BY <2>1, <2>2, <3>1, <3>4 DEF EventAt
    <2>4. QED
        BY <1>1, <1>2, <1>3, <2>1, <2>3 DEF Missed, EventAt
<1>6. QED
    BY <1>4, <1>5 DEF ProviderStep, ProviderDeclines, ProviderEnds, Subscribe,
        StoreSubscription, SubscriptionLost, ProviderReverses, RefundAtProvider,
        RefundStores, RefundStoreFails, Receive, openpay

LEMMA StepMissed ==
    ASSUME IInv, MissedBudget, [Next]_vars
    PROVE  MissedBudget'
<1>1. /\ faults \in Nat /\ faults' \in Nat /\ faults' >= faults
    BY FaultsGrow DEF IInv, Typed
<1>2. IsFiniteSet(Missed) /\ Cardinality(Missed) \in Nat /\ Cardinality(Missed) <= faults
    BY FS_CardinalityType DEF MissedBudget
<1>3. CASE Missed' \subseteq Missed
    <2>1. /\ IsFiniteSet(Missed') /\ Cardinality(Missed') \in Nat
          /\ Cardinality(Missed') <= Cardinality(Missed)
        BY <1>2, <1>3, FS_Subset, FS_CardinalityType
    <2>2. QED
        BY <1>1, <1>2, <2>1 DEF MissedBudget
<1>4. ASSUME NEW w \in Workers, NEW n, RecordFails(w), Missed' \subseteq Missed \cup {n}
      PROVE  MissedBudget'
    <2>1. faults' = faults + 1
        BY <1>4 DEF RecordFails, Fault
    <2>2. /\ IsFiniteSet(Missed \cup {n}) /\ Cardinality(Missed \cup {n}) \in Nat
          /\ Cardinality(Missed \cup {n}) <= Cardinality(Missed) + 1
        BY <1>2, AddOne
    <2>3. /\ IsFiniteSet(Missed') /\ Cardinality(Missed') \in Nat
          /\ Cardinality(Missed') <= Cardinality(Missed \cup {n})
        BY <1>4, <2>2, FS_Subset, FS_CardinalityType
    <2>4. QED
        BY <1>1, <1>2, <2>1, <2>2, <2>3 DEF MissedBudget
<1>5. CASE UNCHANGED vars
    <2>1. Missed' = Missed
        BY <1>5 DEF vars, openpay, Missed, EventAt
    <2>2. QED
        BY <1>3, <2>1
<1>6. QED
    BY <1>3, <1>4, <1>5, MissedByRequest, MissedElsewhere DEF Next, ProviderStep

LEMMA InitMissed ==
    ASSUME Init
    PROVE  MissedBudget
<1>1. Missed = {} /\ faults = 0
    BY DEF Init, Missed
<1>2. Cardinality({}) = 0 /\ IsFiniteSet({})
    BY FS_EmptySet
<1>3. QED
    BY <1>1, <1>2 DEF MissedBudget

(* The last charge of the row is one that took the member's money and is   *)
(* accounted for, and a charge whose two notifications were answered 200   *)
(* without it ever having been that last charge takes two failed updates:  *)
(* each of the two requests got past RecordCharge                          *)
(* (handleSubscriptionChargeSucceeded), however they overlap and in        *)
(* whatever order they arrive.                                             *)
THEOREM Recorded == Spec => []ChargesAreRecorded
<1>1. Init => IInv /\ MissedBudget
    BY InitIInv, InitMissed
<1>2. IInv /\ MissedBudget /\ [Next]_vars => IInv' /\ MissedBudget'
    BY StepIInv, StepMissed
<1>3. IInv /\ MissedBudget => ChargesAreRecorded
    <2> SUFFICES ASSUME IInv, MissedBudget
                 PROVE  ChargesAreRecorded
        OBVIOUS
    <2> DEFINE Unnoticed == {c \in captured \ recorded :
                                \A type \in SuccessTypes : EventOf(type, c) \notin outbox}
    <2>1. SuccessTypes \X Unnoticed \subseteq Missed
        BY DEF Missed
    <2>2. IsFiniteSet(Unnoticed)
        BY SubscriptionsAssumption, FS_Subset DEF IInv, Typed, TypeOK
    <2>3. IsFiniteSet(SuccessTypes) /\ Cardinality(SuccessTypes) = 2
        <3>1. /\ IsFiniteSet({"charge.succeeded"}) /\ Cardinality({"charge.succeeded"}) = 1
            BY FS_Singleton
        <3>2. SuccessTypes = {"charge.succeeded"} \cup {"subscription.charge.succeeded"}
            BY DEF SuccessTypes
        <3>3. "subscription.charge.succeeded" \notin {"charge.succeeded"}
            OBVIOUS
        <3>4. QED
            BY <3>1, <3>2, <3>3, FS_AddElement
    <2> HIDE DEF Unnoticed
    <2>4. Cardinality(SuccessTypes \X Unnoticed) = 2 * Cardinality(Unnoticed)
        BY <2>2, <2>3, FS_Product
    <2>5. Cardinality(SuccessTypes \X Unnoticed) <= Cardinality(Missed)
        BY <2>1, FS_Subset DEF MissedBudget
    <2>6. /\ Cardinality(Missed) \in Nat /\ Cardinality(Unnoticed) \in Nat /\ faults \in Nat
        BY <2>2, FS_CardinalityType, SubscriptionsAssumption
           DEF MissedBudget, IInv, Typed, TypeOK
    <2>7. 2 * Cardinality(Unnoticed) <= faults
        BY <2>4, <2>5, <2>6 DEF MissedBudget
    <2>8. sub # NoRow /\ sub.last_charge # NoCharge =>
             /\ sub.last_charge \in captured \cap split
             /\ credits[sub.last_charge] > 0 \/ sub.last_charge \in logged
        BY DEF IInv, LastAccounted, Paid, Accounted
    <2>9. QED
        BY <2>7, <2>8 DEF ChargesAreRecorded, Unnoticed
<1>4. QED
    BY <1>1, <1>2, <1>3, PTL DEF Spec

-----------------------------------------------------------------------------
(* Refinement.                                                             *)

(* The stages of the promise, in the terms of Subscriptions.               *)
AccountedSet == {c \in Charges : credits[c] > 0 \/ c \in logged}
AckedSet ==
    {c \in captured : \E type \in SuccessTypes : EventOf(type, c) \notin outbox}
Stages == <<captured, split, AccountedSet, AckedSet>>

StageStep ==
    \/ UNCHANGED Stages
    \/ \E c \in Charges :
        \/ /\ c \notin captured /\ captured' = captured \cup {c}
           /\ UNCHANGED <<split, AccountedSet, AckedSet>>
        \/ /\ c \in captured \ split /\ split' = split \cup {c}
           /\ UNCHANGED <<captured, AccountedSet, AckedSet>>
        \/ /\ c \in split \ AccountedSet /\ AccountedSet' = AccountedSet \cup {c}
           /\ UNCHANGED <<captured, split, AckedSet>>
        \/ /\ c \in AccountedSet \ AckedSet /\ AckedSet' = AckedSet \cup {c}
           /\ UNCHANGED <<captured, split, AccountedSet>>

(* What a step that leaves these alone does to the promise: nothing.       *)
LEMMA SameStages ==
    ASSUME UNCHANGED <<captured, split, credits, logged>>,
           \A c \in Charges, type \in SuccessTypes :
               EventOf(type, c) \in outbox' <=> EventOf(type, c) \in outbox,
           captured \subseteq Charges
    PROVE  UNCHANGED Stages
<1>1. split' = split /\ AccountedSet' = AccountedSet
    BY DEF AccountedSet
<1>2. AckedSet' = AckedSet
    BY DEF AckedSet
<1>3. QED
    BY <1>1, <1>2 DEF Stages

LEMMA ProviderRefines ==
    ASSUME IInv, ProviderStep
    PROVE  StageStep
<1>1. captured \subseteq Charges
    BY DEF IInv, Typed, TypeOK
<1>2. ASSUME NEW c \in Charges, ProviderCaptures(c)
      PROVE  StageStep
    <2>1. /\ c \notin captured /\ captured' = captured \cup {c}
          /\ outbox' = outbox \cup {EventOf(type, c) : type \in SuccessTypes}
          /\ UNCHANGED <<split, credits, logged>>
        BY <1>2 DEF ProviderCaptures, database
    <2>2. split' = split /\ AccountedSet' = AccountedSet
        BY <2>1 DEF AccountedSet
    <2>3. \A type \in SuccessTypes : EventOf(type, c) \in outbox'
        BY <2>1
    <2>4. \A d \in captured, type \in SuccessTypes :
             EventOf(type, d) \in outbox' <=> EventOf(type, d) \in outbox
        BY <2>1 DEF EventOf
    <2>5. AckedSet' = AckedSet
        BY <2>1, <2>3, <2>4 DEF AckedSet
    <2>6. QED
        BY <2>1, <2>2, <2>5 DEF StageStep
<1>3. CASE ~\E c \in Charges : ProviderCaptures(c)
    <2>1. UNCHANGED <<captured, split, credits, logged>>
        BY <1>3 DEF ProviderStep, ProviderDeclines, ProviderEnds, Subscribe,
            StoreSubscription, SubscriptionLost, ProviderReverses,
            RefundAtProvider, RefundStores, RefundStoreFails, openpay, rpcs,
            database
    <2>2. \A e \in outbox' : e \in outbox \/ e.type \notin SuccessTypes
        BY <1>3, Announced
           DEF EventOf, FailureOf, SuccessTypes, FailureTypes, ReversalTypes, EndTypes
    <2>3. outbox \subseteq outbox'
        BY Announced
    <2>4. \A c \in Charges, type \in SuccessTypes :
             EventOf(type, c) \in outbox' <=> EventOf(type, c) \in outbox
        BY <2>2, <2>3 DEF EventOf
    <2>5. QED
        BY <1>1, <2>1, <2>4, SameStages DEF StageStep
<1>4. QED
    BY <1>2, <1>3

LEMMA RequestRefines ==
    ASSUME IInv, NEW w \in Workers, HandlerStep(w)
    PROVE  StageStep
<1>1. /\ handler[w] # Idle /\ captured' = captured /\ TypeOK
      /\ Progress(w) /\ Fits(w)
    BY RequestStep DEF IInv, Typed, openpay, rpcs
<1>2. /\ captured \subseteq Charges /\ logged \subseteq Charges
      /\ split \subseteq Charges /\ credits \in [Charges -> Nat]
    BY <1>1 DEF TypeOK
<1>3. PICK e \in Event : e = EventAt(w) /\ ChargeAt(w) = e.charge
    BY <1>1, BusyHandler DEF ChargeAt
<1>4. PICK c : c = ChargeAt(w)
    OBVIOUS
<1>5. ASSUME e.type \in SuccessTypes
      PROVE  /\ c \in Charges /\ c \in captured
             /\ handler[w].pc \in {"credit", "record", "answer"} => c \in split
             /\ handler[w].pc \in {"record", "answer"} => c \in AccountedSet
    <2>1. c \in Charges /\ EventTrue(e)
        BY <1>1, <1>3, <1>4, <1>5, EventKinds DEF Progress
    <2>2. QED
        BY <1>1, <1>3, <1>4, <1>5, <2>1
           DEF Progress, EventTrue, Paid, Accounted, AccountedSet
<1>6. CASE Settle(w)
    <2>1. c \in captured
        BY <1>1, <1>3, <1>5, <1>6 DEF Fits, Settle
    <2>2. split' = split \cup {c} /\ UNCHANGED <<outbox, credits, logged>>
        BY <1>4, <1>6 DEF Settle
    <2>3. AccountedSet' = AccountedSet /\ AckedSet' = AckedSet
        BY <1>1, <2>2 DEF AccountedSet, AckedSet
    <2>4. CASE c \in split
        BY <1>1, <2>2, <2>3, <2>4 DEF StageStep, Stages
    <2>5. CASE c \notin split
        BY <1>1, <1>2, <2>1, <2>2, <2>3, <2>5 DEF StageStep
    <2>6. QED
        BY <2>4, <2>5
<1>7. ASSUME AccountedSet' = AccountedSet \cup {c}, c \in split,
             UNCHANGED <<outbox, split>>
      PROVE  StageStep
    <2>1. split' = split /\ AckedSet' = AckedSet /\ c \in Charges
        BY <1>1, <1>2, <1>7 DEF AckedSet
    <2>2. CASE c \in AccountedSet
        BY <1>1, <1>7, <2>1, <2>2 DEF StageStep, Stages
    <2>3. CASE c \notin AccountedSet
        BY <1>1, <1>7, <2>1, <2>3 DEF StageStep
    <2>4. QED
        BY <2>2, <2>3
<1>8. CASE Credit(w) \/ CreditFails(w)
    <2>1. c \in Charges /\ c \in split
        <3>1. handler[w].pc = "credit"
            BY <1>8 DEF Credit, CreditFails
        <3>2. e.type \in SuccessTypes
            BY <1>1, <1>3, <3>1 DEF Fits
        <3>3. QED
            BY <1>5, <3>1, <3>2
    <2>2. UNCHANGED <<outbox, split>>
        BY <1>8 DEF Credit, CreditFails, database
    <2>3. AccountedSet' = AccountedSet \cup {c}
        <3>1. CASE Credit(w)
            <4>1. /\ credits' = [credits EXCEPT ![c] = @ + 1] /\ logged' = logged
                BY <1>4, <3>1 DEF Credit
            <4>2. \A d \in Charges : credits'[d] > 0 <=> credits[d] > 0 \/ d = c
                BY <1>2, <4>1
            <4>3. QED
                BY <2>1, <4>1, <4>2 DEF AccountedSet
        <3>2. CASE CreditFails(w)
            <4>1. credits' = credits /\ logged' = logged \cup {c}
                BY <1>4, <3>2 DEF CreditFails
            <4>2. QED
                BY <2>1, <4>1 DEF AccountedSet
        <3>3. QED
            BY <1>8, <3>1, <3>2
    <2>4. QED
        BY <1>7, <2>1, <2>2, <2>3
<1>9. CASE PublishAndAnswer(w)
    <2>1. /\ outbox' = outbox \ {e} /\ handler[w].pc = "answer"
          /\ UNCHANGED <<split, credits, logged>>
        BY <1>3, <1>9 DEF PublishAndAnswer, database
    <2>2. split' = split /\ AccountedSet' = AccountedSet
        BY <2>1 DEF AccountedSet
    <2>3. CASE e.type \in SuccessTypes
        <3>1. c \in Charges /\ c \in captured /\ c \in AccountedSet
            BY <1>5, <2>1, <2>3
        <3>2. e = EventOf(e.type, c)
            BY <1>3, <1>4, <2>3, EventKinds
        <3>3. AckedSet' = AckedSet \cup {c}
            <4>1. \A d \in captured, type \in SuccessTypes :
                     EventOf(type, d) \notin outbox' <=>
                         EventOf(type, d) \notin outbox \/ EventOf(type, d) = e
                BY <2>1
            <4>2. \A d \in captured, type \in SuccessTypes :
                     EventOf(type, d) = e => d = c
                BY <3>2 DEF EventOf
            <4>3. QED
                BY <1>1, <2>3, <3>1, <3>2, <4>1, <4>2 DEF AckedSet
        <3>4. CASE c \in AckedSet
            BY <1>1, <2>2, <3>3, <3>4 DEF StageStep, Stages
        <3>5. CASE c \notin AckedSet
            BY <1>1, <2>2, <3>1, <3>3, <3>5 DEF StageStep
        <3>6. QED
            BY <3>4, <3>5
    <2>4. CASE e.type \notin SuccessTypes
        <3>1. \A d \in Charges, type \in SuccessTypes :
                 EventOf(type, d) \in outbox' <=> EventOf(type, d) \in outbox
            BY <2>1, <2>4 DEF EventOf
        <3>2. QED
            BY <1>1, <1>2, <2>1, <3>1, SameStages DEF StageStep
    <2>5. QED
        BY <2>3, <2>4
<1>10. CASE ~(\/ Settle(w) \/ Credit(w) \/ CreditFails(w) \/ PublishAndAnswer(w))
    <2>1. UNCHANGED <<outbox, split, credits, logged>>
        BY <1>10 DEF HandlerStep, ReversePayment, NoPayment, LookUp,
            CreatePayment, CreateConflicts, RecordCharge, RecordFails,
            IncrementFailedCharge, FailPayment, UpdateStatus, RequestFails,
            database
    <2>2. UNCHANGED Stages
        BY <1>1, <1>2, <2>1, SameStages
    <2>3. QED
        BY <2>2 DEF StageStep
<1>11. QED
    BY <1>6, <1>8, <1>9, <1>10

LEMMA StepRefines ==
    ASSUME IInv, [Next]_vars
    PROVE  StageStep
<1>1. CASE \/ UNCHANGED vars
           \/ \E w \in Workers, e \in outbox : Receive(w, e)
    <2>1. UNCHANGED <<outbox, captured, split, credits, logged>>
        BY <1>1 DEF Receive, vars, openpay, rpcs, database
    <2>2. captured \subseteq Charges
        BY DEF IInv, Typed, TypeOK
    <2>3. QED
        BY <2>1, <2>2, SameStages DEF StageStep
<1>2. CASE ProviderStep
    BY <1>2, ProviderRefines
<1>3. CASE \E w \in Workers : HandlerStep(w)
    BY <1>3, RequestRefines
<1>4. QED
    BY <1>1, <1>2, <1>3 DEF Next, ProviderStep

(* Subscriptions implements ChargePromise as Settlement does: each charge  *)
(* of OpenPay's billing goes through capture, settlement of its payment,   *)
(* credit (or the entry in the log) and acknowledgement in this order and  *)
(* once, whoever creates its payment and whatever comes twice.             *)
THEOREM Refinement == Spec => KeepsPromise
<1>1. Init => Promise!Init
    BY DEF Init, Promise!Init
<1>2. IInv /\ [Next]_vars => [Promise!Next]_Promise!stages
    <2> SUFFICES ASSUME IInv, [Next]_vars
                 PROVE  [Promise!Next]_Promise!stages
        OBVIOUS
    <2>1. StageStep
        BY StepRefines
    <2>2. QED
        BY <2>1
           DEF StageStep, Stages, AccountedSet, AckedSet, Promise!Next,
               Promise!Capture, Promise!Settle, Promise!Account,
               Promise!Acknowledge, Promise!stages
<1>3. QED
    BY Inductive, <1>1, <1>2, PTL DEF Spec, KeepsPromise, Promise!Spec
=============================================================================
