# A verification of openpay-smart-service

The service sits between tenants (platforms that collect payments) and OpenPay,
a Mexican payment provider. It charges members' cards at OpenPay, is told the
outcome through webhooks, splits each charge into OpenPay's fee, the service's
fee and the tenant's net, and keeps the tenants' balances. This directory holds
TLA+ models of it, the TLC runs that check them and proofs for TLAPS.

## 1. The system

| component | state | operations | how it meets the others |
|---|---|---|---|
| Webhook ingress (`internal/webhook/ingress.go`) | none of its own | one goroutine per HTTP request; `handleChargeSucceeded`, `handleChargeStatus`, subscription handlers | called by OpenPay, which retries until it sees 200; runs SQL statements one by one, no transaction; publishes to Kafka |
| Payment repository (`payment_repo.go`, migration 003) | `payments` | `Create`, `UpdateStatus`, `SettlePayment`, lookups, `List` | called by ingress, redemption, refund |
| Balance repository (`balance_repo.go`, migration 004) | `balances` | `CreditSettlement` (UPDATE, then INSERT if no row), `AddPending` and `DebitAvailable` (no caller) | called by ingress |
| Fee split (`domain/payment.go`, `domain/tenant.go`) | none | `NetAmountForCharge` | reads the tenant's fee at each delivery |
| Member service (`member_service.go`, `member_repo.go`) | members, cards, payment and subscription links | create, expire and redeem links, register and delete cards | calls OpenPay, then stores; concurrent with the webhooks that the call triggers |
| Payment service (`payment_service.go`) | none | `RefundPayment`, reads | calls OpenPay, then `UpdateStatus` |
| Admin and tenant services, tenant repository | `tenants`, `disbursement_schedules` | create, update, delete, rotate key, bank account, logo, schedule | read by authentication and by the ingress |
| Subscriptions and plans | `plans`, `subscriptions` | create, cancel, deactivate; `RecordCharge`, `IncrementFailedCharge` | OpenPay bills each cycle by itself and notifies it |
| Outbound webhooks (`dispatcher.go`, `webhook_service.go`) | subscriptions, deliveries | dispatch, retry, DLQ, manual retry | no caller of the dispatcher yet |
| Server and interceptors (`cmd/server/main.go`, `ratelimit.go`, `auth.go`) | a counter per tenant and minute in Redis; the connections and their requests | authentication, one count per RPC, graceful shutdown | around every RPC; the HTTP server of the ingress stops after the gRPC server |
| Lists | none | `List*` of every repository, by cursor or by offset | page tokens in the clients' hands |
| Worker, OpenPay client, Kafka publisher, S3, encryption, configuration, checkout pages | | stub, I/O, cryptography, user interface | |

What is hard here. OpenPay delivers at least once and in any order, and a
delivery may race the request that created the charge. Handlers run side by
side and each of their statements commits on its own, so a crash, a failed
statement or another handler can fall between any two. There is no
deduplication, no version column, and statuses are overwritten unconditionally.
External calls (charge, refund, subscription) cannot be rolled back when the
local write after them fails. Updates of a row write back what they read before.
Workers list deliveries without locking them. Redis fails open. A shutdown has a
time limit.
`PROJECT.json` lists each hazard at its line.

What makes each component correct:

* settlement: money is credited only when captured and after its split is
  stored; an acknowledged success is accounted for; repeated credits are bounded
  by faults; the local status follows OpenPay's; captured money arrives in the end;
* fees: the split conserves the amount, rounding is in bounds whatever the binary
  product's last bits are, and what the table
  refuses is characterised exactly;
* tenants: replaced keys stay dead, keys handed out work, columns of one service
  are not undone by another, deletion is final;
* links: one successful redemption per link; subscriptions: what notifications that come
  twice add is bounded, no billed cycle goes unrecorded, the status follows the events; members, cards and plans: what exists at OpenPay only or
  as a row only is bounded by faults;
* outbound webhooks: the secret handed out is the one in use, no more attempts than
  allowed, no lost retry, repeated deliveries bounded by overlaps and crashes;
* lists: by cursor each row once; rate limiter: the bound over any minute; shutdown:
  it ends, and cuts off nothing that was under way.

## 2. Plan

1. `Fees`, `Tables`, `Settlement`, `ChargePromise`: modelled, checked, proved.
2. `TenantAdmin`: modelled, checked, proved.
3. `Links`, the redemption of payment and subscription links: modelled, checked, proved.
4. `Webhooks`, the tenants' subscriptions and their deliveries: modelled, checked, proved.
5. `Subscriptions`, `Resources`, `Server`: modelled, checked, proved.
6. `Pagination`: modelled, checked, proved.
7. Left: `Links` composed with `Settlement`, from the member's click to the tenant's
   balance. The two meet in one step (`RedeemCharges`), and their product is far
   beyond TLC.

## 3. Modules

| module | models |
|---|---|
| `Fees` | `NetAmountForCharge`, `validateFee`, `floatToCentavos`, the CHECKs on the fee columns, as operators on integers |
| `Tables` | the rows of `payments` and `balances` and the SQL statements on them |
| `Settlement` | a one-time charge: `RedeemPaymentLink` (charge and row), OpenPay with its undelivered events, the two ingress handlers, `RefundPayment`, and an administrator who deletes tenants and changes fees |
| `ChargePromise` | what a tenant is promised: capture, settlement, credit, acknowledgement in this order, never back; `Settlement` and `Subscriptions` implement it |
| `TenantAdmin` | one tenant's row under overlapping `UpdateTenant`, `RotateAPIKey`, bank, logo and delete requests |
| `Links` | one payment or subscription link, its overlapping redemptions and expiries, and what they order at OpenPay |
| `Subscriptions` | one subscription: OpenPay's billing with declines, retries and reversals, the ingress's subscription handlers and `handleChargeStatus`, `RefundPayment`, the row and the payments of its charges |
| `Resources` | a member, a card or a plan created and removed at OpenPay and as a row |
| `Webhooks` | one tenant's webhook subscriptions and deliveries: the RPCs of `WebhookService`, `Dispatch` and manual retries |
| `Pagination` | the ten lists, a client that follows their tokens, and rows that come and go meanwhile |
| `Server` | the interceptors with the rate limit in Redis, the notifications in the HTTP server, and the end of the process |
| `MCSettlement`, `MCTenantAdmin`, `MCLinks`, `MCSubscriptions`, `MCResources`, `MCWebhooks`, `MCPagination`, `MCServer` | finite instances for TLC |
| `SettlementProofs` (with `Fees`), `TenantAdminProofs`, `LinksProofs`, `SubscriptionsProofs`, `ResourcesProofs`, `WebhooksProofs`, `PaginationProofs`, `ServerProofs` | theorems |

### Settlement and the code

A webhook request is `handler[w]`: the statement it runs next (`pc`), the event it
serves, and the amounts it carries. Each SQL statement, read or write, and the
publication is one action, so requests interleave between statements as
goroutines do:

* `Deliver` is the POST of an event; `FindPayment`/`PaymentNotFound` the lookup
  by transaction id; `ReadTenant`/`TenantNotFound` the tenant lookup with the split
  computed from it; `Settle`/`SettleRejected` the UPDATE of the four amounts and the
  status; `CreditUpdate`, `CreditMissesRow` and `CreditInsert` the statements of
  `CreditSettlement`; `PublishAndAnswer` Kafka and the 200.
* Events other than success go `find`, `status`, `credit` with net 0 (the release
  of pending), `publish`, as `handleChargeStatus` does. The release is skipped when
  the gross amount read was 0.
* A failed or crashed request leaves its event in `outbox`; a 200 removes it.
* Faults, each counted by `faults`: a delivery of an event that is already being
  served (OpenPay timed out), a lost answer, a stop anywhere in a request (which is
  also a failed read or a failed settlement), a failed credit (logged and
  answered 200), a failed publication, a payment row that could not be stored, a
  failed status update after a refund.
* `RedeemPaymentLink` is charge and row; the status of the row is OpenPay's answer.
  OpenPay may notify before the row exists. If the process dies, OpenPay's answer
  is lost or the INSERT is refused, the row never appears (`lost`).
* Statements that only read and are followed by an external call, with nothing
  written in between, are one action with the call (`RefundAtProvider`,
  `RedeemCharges`): the call decides by the provider's own state.
* `credits`, `credited` and `faults` are observations: no action but `Fault`'s
  bound reads them.

Abstracted: amounts are fixed per charge and all in one currency; a partial refund
does to the service's state what a full one does, so refunds have no amount; the
event id and the payload play no part in the code's decisions; authentication of
the webhook, JSON and logging are left out. `pending` is kept although no code
ever adds to it.

### TenantAdmin and the code

A request is `call[i]`. `Begin` is its read (or its authentication): only an active
tenant lets it go on. `Finish` is its UPDATE, which reaches no deleted row.
`UpdateTenant` patches a copy at the first and writes the columns of `tenants.Update`
from it at the second; the rotation writes the key columns only, and bank and logo
requests theirs. Keys are random, so a generated key is one never issued before.
The UPDATE of a rotation may be committed and its answer lost (`RotateUnanswered`): the
row then holds a key that nobody was given, `unheard`, until another rotation replaces it.
A lost answer of the other requests changes nothing that the properties look at.
Invalid fees are among the inputs and are refused by `validateFee`.

Two overlapping updates do undo each other's fields, since each writes all seven
columns: `ColumnsChangeByRequest` and the key properties say which columns are safe.

### Links and the code

`RedeemPaymentLink` and `RedeemSubscriptionLink` take the same steps, so one module
has both and the kind of link is chosen at the start; they differ in the words for
their status, in expiry by the tenant (payment links only) and in what happens when
the row of the order cannot be stored (`RowFails`). `attempt[a]` is the call that an
attempt makes next: `card` (CreateCard at OpenPay), `check` (deny list, then the
card's row), `order` (CreateCharge or CreateSubscription), `row`, `mark`. The
status is read once, at `Begin`, and written back by id at the end, as
`ExpirePaymentLink` does from its own read. `overlaps` counts attempts that begin
while another is in progress; it and `faults` are observations. The tokens that
the checkout page obtains from OpenPay are abstract: every attempt has its own. A
charge with the order id of an earlier one would be declined by OpenPay; links need
not carry an order id, and the model covers both with `DeclineOrder`.

### Subscriptions and the code

Again one action per statement. OpenPay announces each captured charge twice, as
`charge.succeeded` with a subscription id and as `subscription.charge.succeeded`
(`ingress.go:212-219` and `157-160` handle both, with the same function): `LookUp`
finds the payment or not, `CreatePayment` inserts it, `CreateConflicts` is the
unique index on the transaction id, then `Settle`, `Credit`, `RecordCharge`. An attempt
that is declined is announced twice as well, as `charge.failed`, which `handleChargeStatus`
passes on (`ingress.go:311-316`), and as `subscription.charge.failed`; either runs
`IncrementFailedCharge` and `FailPayment`. OpenPay tries a declined charge again, so a
charge may be declined several times (`Attempts`) and be captured later under its id. The
end of the subscription runs `UpdateStatus`. A captured charge may be refunded, cancelled
or charged back: by OpenPay (`ProviderReverses`) or by `RefundPayment`, in its two steps
(`RefundAtProvider`, `RefundStores` or `RefundStoreFails`); the notification runs
`ReversePayment`, or `NoPayment` and a 500 when it comes before the payment was created. A
cancellation of a charge that was never captured finds no payment and is answered 500 for
ever; it changes nothing and is left out. So is a request for a subscription that has no
row yet: it fails without a trace and its event stays in the outbox. `split`, the charges
whose payment has its fee columns, is kept apart from `payments`, the status, because a
decline or a reversal overwrites the one and not the other. `credits`, `captured`,
`declined`, `reversed` and `recorded` (the charges that were once the row's last charge)
are observations. The amounts and the balance rows are those of `Settlement`: a credit is
only counted here, a split that the table refuses is a failed request, and the release of a
pending balance, whose net is 0, is left out.

The module ends with its mapping to `ChargePromise`: a charge is settled when its
payment has its fee columns, accounted for when it was credited or logged, and
acknowledged when either of its two success notifications was answered 200.

### Resources and the code

`CreateMember`, `RegisterCard` and `CreatePlan` have one shape: ask OpenPay (`ask`), then
insert the row (`store`). `DeleteCard` and `DeactivatePlan` have one shape: read the
row, delete at OpenPay (`delete`), then drop the row or mark it inactive (`drop`). So
one module has the three tables, chosen at the start by `kind`, and an object is named
by the creation that made it. What differs is in the guards: only members have the
unique external id (`Taken`) and the lookup before the creation (`Find`), members are
never removed, and a second removal of a card finds no row (`DropMisses`) where that of
a plan marks it again. That OpenPay no longer has the object is no error. `blind`
counts creations that did not find a member which was there or under way, by a race, a
missing idempotency key or a failed lookup; it and `faults` are observations. The bound
on orphans is that of these RPCs: the card that a redemption of a link registers and the
deny list then refuses stays at OpenPay without any fault, and belongs to `Links`.

### Webhooks and the code

`UpdateWebhook`, `RotateWebhookSecret` and `RetryWebhookDelivery` each read a row and write
every column back: `calls[r]` keeps what was read (`UpdateReads`, `RotateReads`,
`RetryReads`), the second action writes. `RegisterWebhook` and `DeleteWebhook` are one
statement each. A write may be committed and its answer lost (`WriteUnanswered`), and
an RPC may end before it writes (`CallFails`). Secrets are numbers in the order they are
generated. Of the columns that `UpdateWebhook` may change, `enabled` stands for all.

`Dispatch` is three steps of a worker: `Take` (the row comes from
`ListPendingDeliveries`, which locks nothing), `Request` (the POST, its answer, and
`handleFailure` on the copy) and `StoreOutcome` (`UpdateDelivery`, every column).
`WorkerFails` is a crash or a failed UPDATE after the request, `GiveUp` an end before
it. Nothing in the repository creates deliveries or runs the dispatcher yet:
`CreateDelivery` and `Take` do what `CreateDelivery`, `MatchingSubscriptions` and
`ListPendingDeliveries` of `webhook_repo.go` offer. Time is only `due`: `next_retry_at`
is null or has passed; the length of the intervals is left out. `expected` is what
the last answer about each column said; `undone` are the columns that a write of an older
copy, or a write whose answer was lost, has touched since; `sent`, `accepted`, `retries`
(stored, whether or not the answer arrived), `overlaps`, `unrecorded` and `quiet` are
observations of deliveries.

### Pagination and the code

A run chooses one list, any set of rows with any timestamps, and a client that asks
for page after page with sizes that are too small, fitting or too large. `KeysetPages`
is the comparison `(created_at, id) < (cursor)`, `OffsetPages` the decoded offset,
`BalancesPages` the query that forgets the token. Where the ORDER BY leaves the order
of equal timestamps open, every order is a possible answer. `ListWebhooks` does not
look at `rows.Err()`: a connection that breaks off ends the page and the list. Between
two pages rows enter and leave: inserts, also with an older timestamp than a row
already seen (transactions commit out of order), deletions, and updates that change
whether a filter selects them. Encodings of tokens and the columns of rows are left out.

### Server and the code

An RPC passes the chain of interceptors (`Arrive`), the clock (`ReadClock`), the pipeline
INCR and EXPIRE (`RateLimitInterceptor`) and its handler (`Handle`); streams stay open
until the client ends them. Redis answers, fails with or without having counted
(`FailsOpen`), or the client library sends the pipeline again (`SentAgain`). A counter is
named by the calendar minute in which the clock was read and expires by itself.
A notification is `reading`, `settling`, `crediting`, `publishing`, with the answer at
the end. `Signal`, `GracefulStop`, `Shutdown`, `CloseKafka`, `ClosePool` and `Exit` are the end
of `main` in the order of the code and its deferred calls, `Fatal` is a listener that
fails. The tick is half a minute.

## 4. Runs

| run | instance | checks |
|---|---|---|
| `settlement` | 2 charges of 1 tenant, 2 requests, 1 fault, fixed fee, 1.8 M states | `TypeOK`, `AckedSuccessIsAccounted`, `CreditedIsSettled`, `BalanceBrackets`, `LedgerAgreesWithSplits` |
| `settlement_fees` | 1 charge, 2 fees, 2 requests, 1 fault, fair, 29 k states | `CreditsBoundedByFaults`, `StatusNeverAheadOfProvider`, `SplitSurvives`, `KeepsPromise`, `SuccessIsAccountedFor`, `OutboxDrains` |
| `tenant_admin` | 2 requests, 3 keys, 3 fee messages (one valid), 0.8 M states | `TypeOK`, `RetiredKeysStayDead`, `AnsweredKeysHold`, `ColumnsChangeByRequest`, `DeletionIsFinal` |
| `links` | 3 attempts, 2 faults, both kinds of link, 18 k states | `TypeOK`, `OrdersBounded`, `UnrecordedBounded`, `RedeemedIsOrdered` |
| `subscriptions` | 2 charges, 2 attempts that fail, 2 requests, 1 fault, 1.2 M states | `TypeOK`, `EffectsBounded`, `ChargesAreRecorded`, `EndIsMirrored`, `KeepsPromise` |
| `resources` | 3 creations, 3 removals, 2 tenants, 2 faults, 12 k states | `TypeOK`, `AnswersAgree`, `OrphansBounded`, `StaleBounded`, `RemovalsHold` |
| `webhooks` | 1 subscription, 1 delivery, 2 RPCs, 2 workers, 2 attempts, 2 retries, 1 unrecorded request, 0.6 M states | `TypeOK`, `RowFollowsAnswers`, `AttemptsAreKept`, `RepeatsBounded`, `RetryHolds` |
| `pagination` | 10 lists, 3 rows, 3 timestamps, 3 page sizes, 2 rows entering and 2 leaving, 0.6 M states | `CursorIsExact`, `OffsetDrifts` |
| `server` | 3 RPCs, 1 notification, a limit of 1, 2 calendar minutes, fair, 0.4 M states | `WithinLimits`, `ShutdownLosesNothing`, `ShutdownEnds` |
| `credited_twice` | 1 charge, 1 fault | `CreditedAtMostOnce` is violated |
| `lost_record` | 1 charge, 1 fault, fair | `WebhookSettlesLostRecord` is violated |
| `endless_list` | as `pagination`, a client that keeps asking | `EveryListingEnds` is violated |

Why the bounds are enough for what they show. Two requests at once give every
overlap of two handlers, and two charges of one tenant make them meet on the same
balance row, which is the only thing charges share. One fault yields a redelivery,
a crash at every statement, a lost answer or a lost row; that more faults cost no
more than one credit each is what the theorem `CreditsBounded` says for any number. The
two fees are an added one and an inclusive one that does not cover OpenPay's fee: its
split is the one the table refuses, although the comment on `PlatformFee` foresees
negative values. `SettleRejected` takes that path, `AcceptedSplits` in
`SettlementProofs` says for which charges. The money
properties do not depend on the amounts beyond that, and the theorems below hold for
all of them. Requests are interchangeable, hence the symmetry, which is used only
in runs without liveness. Three keys allow two rotations to overlap after the first
key. Deadlock is not checked: the system stops when every charge has come to an end,
or when the tenant is deleted and no request is left.

Three creations let two race for one tenant's external id while a third is another
tenant's; three removals let two overlap on one object and a third repeat one that
was cut short. Three attempts on a link let a third come between two that overlap, or after both,
and two faults let a lost answer meet a failed mark. Two charges of a subscription
make a late event of the first meet the second; with two requests the two success events
of one cycle race for its payment, and the two notifications of a decline count it twice.
Two attempts let a charge be declined again and then be captured. `Focus` keeps what
OpenPay does in one behaviour to three captures, declines or an end, or to the capture of
one charge and its reversal. A reversal meets the rest at the status of its own payment
only, which a second charge does not touch; two reversals of one charge do not exist; and
the theorems of `SubscriptionsProofs` have no such bound. Deadlock is not
checked there either: links and subscriptions come to an end.

Webhooks: two RPCs make every overlap of two read-modify-writes, two workers every
overlap of two dispatches; three secrets let two rotations overlap after the
registration; two attempts have one failure before the DLQ; two manual retries let one
repeat the other. `Focus` cuts the product of two halves that hardly meet: subscriptions
are explored before there is a delivery, deliveries while no update or rotation runs. The
dispatcher looks at neither column of a subscription after `CreateDelivery`, and what an
RPC does to a subscription looks at no delivery, so the states cut off are combinations
of explored ones; the theorems of `WebhooksProofs` have no such bound. Pagination: with
three rows and a page of one there are three pages, so a row can enter or leave before,
between and behind the pages already read; sizes 0 and 4 take the default and the
maximum; `MaxChanges` bounds both directions, and `TimesCap` stops counting a row that is
shown again and again above what any bound speaks of. Server: with a limit of one,
three calls pass it and its double; `MaxNow` = 3 reaches two calendar minutes;
`MaxDelay` <= `Ttl` - `Minute` says that Redis answers within half a minute (the client's
timeouts are seconds). `Focus` lets the clock stand while notifications or the end of
`main` are explored: only the rate limit reads the clock, and it touches neither.
Deadlock is not checked in these either: clients are done, the process has ended.

The three violations are disagreements between the code and what its own
documentation says. `PROJECT.json` quotes each line and lists seven more that need no
run of their own, because a property of a passing run states what does hold in their
place: two overlapping redemptions charge twice (`OrdersBounded`); each cycle of a
subscription is credited twice, and each declined attempt counted twice, with no fault
(`EffectsBounded`); a decline counted late leaves a cancelled subscription `past_due`
(`EndIsMirrored`); twice the limit passes around a calendar minute (`WithinLimits`); retry
policies of subscriptions are not looked at (`AttemptsAreKept`); and a late `SettlePayment`
turns a refunded payment completed, which `StatusNeverAheadOfProvider` allows, since it
never claims more than OpenPay has done. They are recorded, not repaired.

Fairness (`FairSpec`, used by the liveness properties only). A request in
progress takes its next statement: weak fairness of the handler's steps, of the
INSERT after a charge and of the UPDATE after a refund, since a goroutine is not
abandoned. OpenPay retries every event that was not answered 200, and each delivery
gets a goroutine: strong fairness of each event's delivery, because the bound on
requests, which the code does not have, disables it now and then. Nothing obliges
members, tenants or OpenPay to start or to resolve a charge, and no fault is obliged
to happen. `SuccessIsAccountedFor` and `OutboxDrains` except a tenant that is deleted, whom
`GetByID` hides, and a fee whose split the table refuses: in both cases the settlement
of a charge fails at every delivery. In `Server`, `main` and the handlers take their
steps, since the Go runtime schedules them and their calls of the database, Redis and
OpenPay return; no client is obliged to end a stream or to send a body, and no signal
has to come, which is why `ShutdownEnds` starts from a signal and from closed streams. In
`Pagination` the client keeps asking while it has a token; only `endless_list` assumes it.

## 5. Proofs

All hold for any values of the constants that satisfy the named assumptions, which TLC
evaluates in the runs:

* `SettlementAssumption`: well-typed constants, positive amounts, fees that `validateFee`
  accepts, finitely many requests;
* `TenantAdminAssumption`: the marker values are distinct from the data;
* `LinksAssumption`: finitely many attempts;
* `SubscriptionsAssumption`: finitely many charges, attempts and requests, a marker that is
  no charge;
* `ResourcesAssumption`: finitely many creations, a marker that is none of them;
* `WebhooksAssumption`, `NullAssumption`: at least one attempt; the marker for a
  missing row is no row;
* `PaginationAssumption`: finitely many rows, whose ids are numbers, and a default page
  size between one and the largest;
* `ServerAssumption`: finitely many RPCs, a positive limit, and a counter in Redis that
  outlives its minute by more than a call waits for Redis.

Where a set has to be finite, the proof counts its members. `LedgerAgrees` has two
hypotheses of its own: finitely many charges, and no change of a fee, the case that the
run `settlement` checks too (a redelivery that settles at a new fee replaces the split that
earlier credits were computed from).

* `SettlementProofs`, in six parts.
  *Fees.* The split conserves the amount; exactly which splits the table stores;
  monotony; rounding of the percentage, and of OpenPay's amounts: the code multiplies a
  binary float by 100, so the model takes any result within a thousandth of a centavo of
  the exact product, and the theorem holds for all of them.
  *Types.* The induction needs `HandlerOK`: which amounts a request carries at which
  statement, above all that a request past its settlement carries a split the table
  has accepted. Without it the sums added to the balance need not be natural numbers.
  *Safety*: `AckedSuccessIsAccounted`, `CreditedIsSettled`, `StatusNeverAheadOfProvider`,
  `SplitSurvives`. The invariant `IInv` adds that events in the outbox and in requests
  are true of OpenPay, what a redemption knows is true, and what a request at each
  statement has already done (settled before `credit`, credited or logged before
  `publish`). The lemma `Stable` states once what no action undoes, and each action is
  checked against it.
  *Credits*: `CreditsBoundedByFaults`. The invariant counts, for each charge, its
  credits, the requests of its success that may still credit, and the delivery that the
  outbox still owes: together at most one more than the faults.
  *Money*: `BalanceBrackets` and `LedgerAgreesWithSplits`, which speak of sums, folds
  over sets that the library's induction theorems would be the way to; no prover can
  instantiate those. A law of sums is proved instead for a smallest counterexample
  (`SmallestSet`, from the well-foundedness of strict inclusion): which member a fold
  takes first makes no difference (`SumTake`), and one changed summand changes the sum
  by as much (`SumChange`). The brackets are
  inductive with the types, through an update of every row or an appended one. The
  ledger is not: the nets that requests carry must be those of their charge's row and
  fee (`LInv`).
  *Refinement*: every step of `Settlement` is a step of `ChargePromise` or leaves it
  unchanged, under the mapping that ends `Settlement`.
* `TenantAdminProofs`: all five properties of the run. `Inv` adds that a rotation
  in progress holds a key of its own and that copies carry checked fees. `AnsweredKeys` does
  not claim that the stored key was handed out: it was, or its answer was lost.
* `LinksProofs`: all four properties of the run. `Inv` says how far each attempt
  has come (nothing ordered before `order`, a stored card after `check`, an order
  after `row`). `Spent` is the heart of the count: while the link is still usable,
  every order of an attempt that is over took a fault, so an attempt that begins
  alone is the one that is free.
* `SubscriptionsProofs`: all five properties of the run. `Fits` says which events a
  request may serve at which statement. `IInv` adds that events are true of OpenPay,
  what a request has done by each statement (`Progress`), and that an end which OpenPay
  announced is either still in the outbox or shown by the row, if no decline hides it
  (`EndShown`). The counts need three budgets. A request that may still credit and a
  notification that OpenPay still owes each hold back one credit (`CreditBudget`; a charge
  not yet captured owes both); a request about to increment and a notification of a
  decline that nobody serves each hold back one increment, and a new decline brings two
  (`CountBudget`). `Missed` collects the success notifications of unrecorded charges whose
  requests got past `RecordCharge`: only a fault adds one, and a charge without any record
  whose notifications are both answered has two there (`MissedBudget`, theorem `Recorded`).
  *Refinement*: as for `Settlement`, every step is a step of `ChargePromise` or leaves it
  unchanged. `AckedChargeIsAccounted`, what the promise says of an acknowledged charge, is
  a theorem of its own (`AckedIsAccounted`).
* `ResourcesProofs`: all five properties of the run. `Shape` says how far each request
  has come, and that active members have a customer and one external id each. `Debt`
  carries the bound on orphans: of the creations of a member that still run or have a
  row, all but one of each tenant may yet leave a customer behind, so they are counted
  with the orphans, against the faults and the creations that began beside another.
* `WebhooksProofs`: all five properties of the run. `RowFollowsAnswers` is inductive
  with the types; it excepts exactly the columns in `undone`, so a secret that was handed
  out is lost to an overlap or a lost answer and to nothing else. `AttemptsAreKept` is not, because a row may be replaced by an old copy:
  `CopiesFit` says the same of every copy in the hands of a worker or an RPC, measured
  against counters that never go back. `RetryHolds` needs that no answer is waiting to be
  stored over the retry (`RetriesFit`). `RepeatsBounded` needs `AccountsFit`, which counts the
  2xx answers a delivery may still get (`Slack`): one is left while the delivery is open,
  while a worker that took it alone has it, or while a failed answer is about to open
  it again, and two while both are the case.
* `PaginationProofs`: both properties of the run, from the sequences that a query may
  answer. `CursorIsExact` needs `Shown`: the cursor separates the rows shown from those
  that are not, however the table changes, since a row keeps its `created_at` and id.
  `OffsetDrifts` needs `Drift`, which looks ahead: rows shown twice, together with those
  shown once that lie behind the offset again, are at most as many as entered; rows never
  shown that lie before it at most as many as left. The offset is a rank in a strict
  order, and one row more or less moves at most one other across it
  (`LeadingWithOneMore`, `LeadingWithOneLess`).
* `ServerProofs`: `WithinLimits` and `ShutdownLosesNothing`. `Orderly` ties the requests in
  progress to how far `main` has come. For the limit, `CountersFit` bounds the calls that
  the counter of one calendar minute lets through by its value, which never goes back
  while a call may still count: the counter has not expired by then (`CallsFit`).
  Less than a minute touches at most two calendar minutes (`TwoWindows`), hence twice
  the limit.

Model-checked only: the liveness properties `SuccessIsAccountedFor`, `OutboxDrains` and
`ShutdownEnds` (the prover does not treat fairness). The inductive invariants were first checked by TLC on
small instances.

## 6. Not modelled

`UpdateMember` writes the row only (the table of RPCs in `src/README.md` says that it
syncs to OpenPay, no code calls `UpdateCustomer`). In `Resources`, OpenPay's own rule on
external ids, which all tenants share, is one of the reasons for `DeclineCreation`. In
`Subscriptions`, `cancel_at_period_end` (set by `CancelSubscription`, read by nothing),
the cancellation of a charge that was never captured (answered 500, changes nothing),
the deletion of the tenant in the middle of a billing cycle (its effect is the one seen
in `Settlement`: requests fail for ever) and a reactivation by hand in OpenPay's
dashboard, which has no event. Plans that are deactivated during a redemption are
declined orders. Disbursement schedules are stored but nothing reads them: worker and
scheduler are stubs. `AddPending`, `DebitAvailable`, `Upsert` and the payout operations
have no caller. In `Webhooks`, the payload and its signature, the length of the retry
intervals and the order of the pending list. In `Server`, CORS, the gateway's header
rules and the client address; the tenant's key is known or not, its look-up is
`TenantAdmin`. The checkout pages are clients of the redemption RPCs, of which `Links`
lets any number overlap. Cryptography, HTTP, S3, configuration, logging and the
generated API code hold no state of interest. Overflow of 64-bit amounts would need a
charge of 9*10^14 centavos.
