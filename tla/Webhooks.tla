------------------------------ MODULE Webhooks ------------------------------
(* The outbound webhooks of one tenant: the subscriptions it registers,    *)
(* whose RPCs read a row and write it back whole, and the deliveries,      *)
(* which the dispatcher and RetryWebhookDelivery read and write back whole.*)
(* Nothing in the repository creates deliveries or polls for them yet;     *)
(* those two steps are what webhook_repo.go and dispatcher.go offer them.  *)
(* Of the fields that UpdateWebhook may change, enabled stands for all: a  *)
(* request that leaves out the others writes them back as they were read.  *)
EXTENDS Integers, FiniteSets

CONSTANTS Subs,         \* ids of subscriptions
          Deliveries,   \* ids of deliveries
          SubOf,        \* the subscription of each delivery
          Calls,        \* RPCs that may run at a time
          Workers,      \* goroutines that run Dispatch
          Null,         \* a row that does not exist
          MaxAttempts,  \* webhook.max_attempts of the dispatcher
          MaxSecrets,   \* bound: secrets generated
          MaxRetries,   \* bound: RetryWebhookDelivery calls per delivery
          MaxCrashes    \* bound: requests per delivery that are not recorded

ASSUME WebhooksAssumption ==
    /\ SubOf \in [Deliveries -> Subs]
    /\ MaxAttempts \in Nat \ {0}
    /\ MaxSecrets \in Nat /\ MaxRetries \in Nat /\ MaxCrashes \in Nat

Secret == 1..MaxSecrets

(* WebhookSubscription, without its id and its tenant.                     *)
SubRow == [secret : Secret, enabled : BOOLEAN]

ASSUME NullAssumption == Null \notin SubRow

DeliveryStatus == {"pending", "delivered", "failed", "dlq"}

(* WebhookDelivery: due says that next_retry_at is null or has passed.     *)
DeliveryRow == [status : DeliveryStatus, attempts : Nat, due : BOOLEAN]

(* What GetSubscription or GetDelivery returned to an RPC under way.       *)
Call ==
    [op : {"idle"}]
        \cup [op : {"update"}, id : Subs, read : SubRow, enabled : BOOLEAN]
        \cup [op : {"rotate"}, id : Subs, read : SubRow]
        \cup [op : {"retry"}, id : Deliveries, read : DeliveryRow]

(* A delivery in the hands of the dispatcher, before and after its request;*)
(* shared says that another worker had it when it was taken.               *)
Job ==
    [pc : {"idle"}]
        \cup [pc : {"taken"}, id : Deliveries, read : DeliveryRow,
              shared : BOOLEAN]
        \cup [pc : {"answered"}, id : Deliveries, write : DeliveryRow]

VARIABLES
    subs,        \* webhook_subscriptions
    deliveries,  \* webhook_deliveries
    calls,       \* the RPCs under way
    jobs,        \* the runs of Dispatch under way
    secrets,     \* secrets generated so far
    (* Observations. *)
    expected,    \* each subscription as its answered requests made it
    undone,      \* columns of each that an older copy, or a request that
                 \* was not answered, has written since
    sent,        \* requests made for each delivery
    accepted,    \* those of them that were answered 2xx
    retries,     \* RetryWebhookDelivery calls that were stored
    overlaps,    \* those requests of a worker that shared the delivery
    unrecorded,  \* requests whose outcome was not stored
    quiet        \* retries stored while no worker had the delivery

tables == <<subs, deliveries>>
observed ==
    <<expected, undone, sent, accepted, retries, overlaps, unrecorded, quiet>>
vars == <<tables, calls, jobs, secrets, observed>>

Init ==
    /\ subs = [s \in Subs |-> Null]
    /\ deliveries = [d \in Deliveries |-> Null]
    /\ calls = [r \in Calls |-> [op |-> "idle"]]
    /\ jobs = [w \in Workers |-> [pc |-> "idle"]]
    /\ secrets = 0
    /\ expected = subs
    /\ undone = [s \in Subs |-> {}]
    /\ sent = [d \in Deliveries |-> 0]
    /\ accepted = sent /\ retries = sent
    /\ overlaps = sent /\ unrecorded = sent
    /\ quiet = {}

Begin(r, call) ==
    /\ calls[r].op = "idle"
    /\ calls' = [calls EXCEPT ![r] = call]

End(r) == calls' = [calls EXCEPT ![r] = [op |-> "idle"]]

-----------------------------------------------------------------------------
(* WebhookService, on subscriptions.                                       *)

(* A subscription that never existed; one deleted keeps its id.            *)
Fresh(s) == expected[s] = Null

(* RegisterWebhook: one INSERT with a new secret, then the answer with it. *)
RegisterWebhook(s) ==
    /\ Fresh(s)
    /\ secrets < MaxSecrets
    /\ secrets' = secrets + 1
    /\ subs' = [subs EXCEPT ![s] = [secret |-> secrets', enabled |-> TRUE]]
    /\ expected' = [expected EXCEPT ![s] = subs'[s]]
    /\ UNCHANGED <<deliveries, calls, jobs, undone, sent, accepted, retries,
                   overlaps, unrecorded, quiet>>

(* UpdateWebhook up to GetSubscription.                                    *)
UpdateReads(r, s, enabled) ==
    /\ subs[s] # Null
    /\ Begin(r, [op |-> "update", id |-> s, read |-> subs[s],
                 enabled |-> enabled])
    /\ UNCHANGED <<tables, jobs, secrets, observed>>

(* RotateWebhookSecret up to GetSubscription.                              *)
RotateReads(r, s) ==
    /\ subs[s] # Null
    /\ Begin(r, [op |-> "rotate", id |-> s, read |-> subs[s]])
    /\ UNCHANGED <<tables, jobs, secrets, observed>>

Patched(row, call) == [row EXCEPT !.enabled = call.enabled]

(* UpdateSubscription: every column, of a row that may have changed or     *)
(* gone since it was read.                                                 *)
UpdateSubscription(s, row) ==
    subs' = [subs EXCEPT ![s] = IF @ = Null THEN Null ELSE row]

(* The column that a request is about, and the others that it takes back   *)
(* to what they were when it read the row.                                 *)
Columns == {"secret", "enabled"}
Own(call) == IF call.op = "update" THEN "enabled" ELSE "secret"
Stale(call) ==
    {column \in Columns \ {Own(call)} :
        call.read[column] # subs[call.id][column]}

(* What the tenant may expect: the value that the answer to the request    *)
(* gave its column.                                                        *)
Answered(call, value) ==
    IF subs[call.id] = Null THEN UNCHANGED <<expected, undone>>
    ELSE /\ expected' = [expected EXCEPT ![call.id] =
                             [@ EXCEPT ![Own(call)] = value]]
         /\ undone' = [undone EXCEPT ![call.id] =
                           (@ \ {Own(call)}) \cup Stale(call)]

Unanswered(call) ==
    /\ UNCHANGED expected
    /\ undone' = IF subs[call.id] = Null THEN undone
                 ELSE [undone EXCEPT ![call.id] =
                          @ \cup {Own(call)} \cup Stale(call)]

(* UpdateWebhook from UpdateSubscription to the answer.                    *)
UpdateWrites(r) ==
    /\ calls[r].op = "update"
    /\ UpdateSubscription(calls[r].id, Patched(calls[r].read, calls[r]))
    /\ Answered(calls[r], calls[r].enabled)
    /\ End(r)
    /\ UNCHANGED <<deliveries, jobs, secrets, sent, accepted, retries,
                   overlaps, unrecorded, quiet>>

(* Deviation: the new secret is answered and the row written back as read. *)
RotateForgets(r) ==
    /\ calls[r].op = "rotate"
    /\ secrets < MaxSecrets
    /\ secrets' = secrets + 1
    /\ UpdateSubscription(calls[r].id, calls[r].read)
    /\ Answered(calls[r], secrets')
    /\ End(r)
    /\ UNCHANGED <<deliveries, jobs, sent, accepted, retries, overlaps,
                   unrecorded, quiet>>

(* RotateWebhookSecret from the generation of the secret to the answer.    *)
RotateWrites(r) ==
    /\ calls[r].op = "rotate"
    /\ secrets < MaxSecrets
    /\ secrets' = secrets + 1
    /\ UpdateSubscription(calls[r].id,
                          [calls[r].read EXCEPT !.secret = secrets'])
    /\ Answered(calls[r], secrets')
    /\ End(r)
    /\ UNCHANGED <<deliveries, jobs, sent, accepted, retries, overlaps,
                   unrecorded, quiet>>

(* The UPDATE is committed and its result lost: the RPC answers Internal,  *)
(* and nobody knows the new secret.                                        *)
WriteUnanswered(r) ==
    /\ \/ /\ calls[r].op = "update"
          /\ UpdateSubscription(calls[r].id, Patched(calls[r].read, calls[r]))
          /\ UNCHANGED secrets
       \/ /\ calls[r].op = "rotate"
          /\ secrets < MaxSecrets
          /\ secrets' = secrets + 1
          /\ UpdateSubscription(calls[r].id,
                                [calls[r].read EXCEPT !.secret = secrets'])
    /\ Unanswered(calls[r])
    /\ End(r)
    /\ UNCHANGED <<deliveries, jobs, sent, accepted, retries, overlaps,
                   unrecorded, quiet>>

(* The RPC ends in an error before it has written.                         *)
CallFails(r) ==
    /\ calls[r].op # "idle"
    /\ End(r)
    /\ UNCHANGED <<tables, jobs, secrets, observed>>

(* DeleteWebhook: the deliveries go with the row.                          *)
DeleteWebhook(s) ==
    /\ subs[s] # Null
    /\ subs' = [subs EXCEPT ![s] = Null]
    /\ deliveries' = [d \in Deliveries |->
                         IF SubOf[d] = s THEN Null ELSE deliveries[d]]
    /\ UNCHANGED <<calls, jobs, secrets, observed>>

-----------------------------------------------------------------------------
(* Deliveries.                                                             *)

(* A delivery of an event for each subscription that MatchingSubscriptions *)
(* finds: it is enabled.                                                   *)
CreateDelivery(d) ==
    /\ subs[SubOf[d]] # Null /\ subs[SubOf[d]].enabled
    /\ deliveries[d] = Null /\ sent[d] = 0
    /\ deliveries' = [deliveries EXCEPT ![d] =
                         [status |-> "pending", attempts |-> 0, due |-> TRUE]]
    /\ UNCHANGED <<subs, calls, jobs, secrets, observed>>

(* next_retry_at passes.                                                   *)
BecomesDue(d) ==
    /\ deliveries[d] # Null
    /\ ~deliveries[d].due
    /\ deliveries' = [deliveries EXCEPT ![d].due = TRUE]
    /\ UNCHANGED <<subs, calls, jobs, secrets, observed>>

(* The WHERE of ListPendingDeliveries.                                     *)
Pending(row) == row.status \in {"pending", "failed"} /\ row.due

Holding(d) == {w \in Workers : jobs[w].pc # "idle" /\ jobs[w].id = d}

(* A worker gets the delivery from ListPendingDeliveries, which locks      *)
(* nothing: another worker may have got it too.                            *)
Take(w, d) ==
    /\ jobs[w].pc = "idle"
    /\ deliveries[d] # Null
    /\ Pending(deliveries[d])
    /\ jobs' = [jobs EXCEPT ![w] =
                   [pc |-> "taken", id |-> d, read |-> deliveries[d],
                    shared |-> Holding(d) # {}]]
    /\ UNCHANGED <<tables, calls, secrets, observed>>

(* No request is made: the payload or the URL is no good, or the worker    *)
(* crashes before it.                                                      *)
GiveUp(w) ==
    /\ jobs[w].pc = "taken"
    /\ jobs' = [jobs EXCEPT ![w] = [pc |-> "idle"]]
    /\ UNCHANGED <<tables, calls, secrets, observed>>

(* Deviation: given up one attempt early.                                  *)
FailedEarly(row) ==
    IF row.attempts >= MaxAttempts - 1
    THEN [row EXCEPT !.status = "dlq"]
    ELSE [row EXCEPT !.status = "failed", !.due = FALSE]

(* handleFailure: the delivery is given up, or gets a time for its retry.  *)
Failed(row) ==
    IF row.attempts >= MaxAttempts
    THEN [row EXCEPT !.status = "dlq"]
    ELSE [row EXCEPT !.status = "failed", !.due = FALSE]

(* Deviation: the status is left as it was.                                *)
OutcomeUnset(row, ok) == IF ok THEN row ELSE Failed(row)

Outcome(row, ok) ==
    IF ok THEN [row EXCEPT !.status = "delivered"] ELSE Failed(row)

(* Dispatch up to the outcome of the request: 2xx, another status, or none.*)
Request(w, ok) ==
    /\ jobs[w].pc = "taken"
    /\ LET d == jobs[w].id
           row == [jobs[w].read EXCEPT !.attempts = @ + 1]
       IN  /\ jobs' = [jobs EXCEPT ![w] =
                          [pc |-> "answered", id |-> d,
                           write |-> Outcome(row, ok)]]
           /\ sent' = [sent EXCEPT ![d] = @ + 1]
           /\ accepted' = IF ok THEN [accepted EXCEPT ![d] = @ + 1] ELSE accepted
           /\ overlaps' = IF jobs[w].shared THEN [overlaps EXCEPT ![d] = @ + 1]
                          ELSE overlaps
           /\ quiet' = quiet \ {d}
    /\ UNCHANGED <<tables, calls, secrets, expected, undone, retries, unrecorded>>

(* Deviation: a removed delivery is inserted again.                        *)
UpsertDelivery(d, row) == deliveries' = [deliveries EXCEPT ![d] = row]

(* UpdateDelivery writes every column, of a row that may be gone.          *)
UpdateDelivery(d, row) ==
    deliveries' = [deliveries EXCEPT ![d] = IF @ = Null THEN Null ELSE row]

(* The end of Dispatch.                                                    *)
StoreOutcome(w) ==
    /\ jobs[w].pc = "answered"
    /\ UpdateDelivery(jobs[w].id, jobs[w].write)
    /\ jobs' = [jobs EXCEPT ![w] = [pc |-> "idle"]]
    /\ UNCHANGED <<subs, calls, secrets, observed>>

(* The worker crashes, or its UPDATE fails: the request is not recorded.   *)
WorkerFails(w) ==
    /\ jobs[w].pc = "answered"
    /\ unrecorded[jobs[w].id] < MaxCrashes
    /\ unrecorded' = [unrecorded EXCEPT ![jobs[w].id] = @ + 1]
    /\ jobs' = [jobs EXCEPT ![w] = [pc |-> "idle"]]
    /\ UNCHANGED <<tables, calls, secrets, expected, undone, sent, accepted,
                   retries, overlaps, quiet>>

(* RetryWebhookDelivery up to GetDelivery.                                 *)
RetryReads(r, d) ==
    /\ deliveries[d] # Null
    /\ retries[d] + Cardinality({q \in Calls : calls[q].op = "retry"})
          < MaxRetries
    /\ Begin(r, [op |-> "retry", id |-> d, read |-> deliveries[d]])
    /\ UNCHANGED <<tables, jobs, secrets, observed>>

(* Deviation: next_retry_at is kept.                                       *)
RequeuedLater(row) == [row EXCEPT !.status = "pending"]

(* Pending and due at once; the attempts made stay counted.                *)
Requeued(row) == [row EXCEPT !.status = "pending", !.due = TRUE]

(* RetryWebhookDelivery from UpdateDelivery to the answer, which says that *)
(* the delivery was queued even when its row is gone.                      *)
RetryWrites(r) ==
    /\ calls[r].op = "retry"
    /\ LET d == calls[r].id
       IN  /\ UpdateDelivery(d, Requeued(calls[r].read))
           /\ retries' = [retries EXCEPT ![d] = @ + 1]
           /\ quiet' = IF Holding(d) = {} THEN quiet \cup {d} ELSE quiet \ {d}
    /\ End(r)
    /\ UNCHANGED <<subs, jobs, secrets, expected, undone, sent, accepted,
                   overlaps, unrecorded>>

-----------------------------------------------------------------------------
SubscriptionStep ==
    \E s \in Subs : RegisterWebhook(s) \/ DeleteWebhook(s)

CallStep(r) ==
    \/ \E s \in Subs, enabled \in BOOLEAN : UpdateReads(r, s, enabled)
    \/ \E s \in Subs : RotateReads(r, s)
    \/ \E d \in Deliveries : RetryReads(r, d)
    \/ UpdateWrites(r) \/ RotateWrites(r) \/ RetryWrites(r)
    \/ WriteUnanswered(r) \/ CallFails(r)

WorkerStep(w) ==
    \/ \E d \in Deliveries : Take(w, d)
    \/ \E ok \in BOOLEAN : Request(w, ok)
    \/ GiveUp(w) \/ StoreOutcome(w) \/ WorkerFails(w)

Next ==
    \/ SubscriptionStep
    \/ \E r \in Calls : CallStep(r)
    \/ \E w \in Workers : WorkerStep(w)
    \/ \E d \in Deliveries : CreateDelivery(d) \/ BecomesDue(d)

Spec == Init /\ [][Next]_vars

-----------------------------------------------------------------------------
TypeOK ==
    /\ subs \in [Subs -> SubRow \cup {Null}]
    /\ deliveries \in [Deliveries -> DeliveryRow \cup {Null}]
    /\ calls \in [Calls -> Call]
    /\ jobs \in [Workers -> Job]
    /\ secrets \in 0..MaxSecrets
    /\ expected \in [Subs -> SubRow \cup {Null}]
    /\ undone \in [Subs -> SUBSET Columns]
    /\ sent \in [Deliveries -> Nat]
    /\ accepted \in [Deliveries -> Nat]
    /\ retries \in [Deliveries -> Nat]
    /\ overlaps \in [Deliveries -> Nat]
    /\ unrecorded \in [Deliveries -> 0..MaxCrashes]
    /\ quiet \subseteq Deliveries
    /\ \A s \in Subs : subs[s] # Null => expected[s] # Null
    \* the cascade of the foreign key
    /\ \A d \in Deliveries : deliveries[d] # Null => subs[SubOf[d]] # Null

(* A subscription is what its answered requests made it, column by column. *)
(* The secret that RotateWebhookSecret last handed out is lost from the row*)
(* only to a request that read the row before the rotation and wrote it    *)
(* back after it, or to a rotation whose answer was lost; the same goes for*)
(* what UpdateWebhook last answered of enabled.  A request that nothing    *)
(* overlaps leaves the columns that it is not about as they are.           *)
RowFollowsAnswers ==
    \A s \in Subs, column \in Columns :
        subs[s] # Null =>
            subs[s][column] = expected[s][column] \/ column \in undone[s]

(* However workers and manual retries overwrite each other, a delivery is  *)
(* given up only after MaxAttempts requests were really made, gets at most *)
(* one attempt more for each manual retry, and waits for another attempt   *)
(* only while it has one left.                                             *)
AttemptsAreKept ==
    \A d \in Deliveries :
        LET row == deliveries[d]
        IN  row # Null =>
                /\ row.attempts <= sent[d]
                /\ row.attempts <= MaxAttempts + retries[d]
                /\ row.status = "dlq" => row.attempts >= MaxAttempts
                /\ row.status = "failed" => row.attempts < MaxAttempts
                /\ row.status = "delivered" => accepted[d] > 0

(* A tenant that answered 2xx gets the delivery again only for a manual    *)
(* retry, for a second worker that had taken it too, or for a request that *)
(* a crash left unrecorded.                                                *)
RepeatsBounded ==
    \A d \in Deliveries :
        accepted[d] <= 1 + retries[d] + overlaps[d] + unrecorded[d]

(* A retry that was stored while no worker had the delivery is not lost:   *)
(* the delivery stays pending and due until a request is made for it.      *)
RetryHolds ==
    \A d \in quiet :
        deliveries[d] # Null => deliveries[d].status = "pending" /\ deliveries[d].due
=============================================================================
