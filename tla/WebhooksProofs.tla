--------------------------- MODULE WebhooksProofs ---------------------------
(***************************************************************************)
(* The subscriptions and the deliveries of a tenant under any number of    *)
(* RPCs, workers, retries by hand and requests that are not recorded.      *)
(*                                                                         *)
(* RowFollowsAnswers is inductive given the types.  The properties of the  *)
(* deliveries are not: a row may be replaced by what a worker or an RPC    *)
(* holds in its hands, so what AttemptsAreKept says must be said of those  *)
(* copies too (CopiesFit), RetryHolds needs to know that no worker holds   *)
(* such a copy (RetriesFit), and RepeatsBounded needs an account of the    *)
(* answers a delivery may still get (AccountsFit).                         *)
(***************************************************************************)
EXTENDS Webhooks, TLAPS

-----------------------------------------------------------------------------
(* Types.                                                                  *)

LEMMA CallFields ==
    ASSUME NEW c \in Call
    PROVE  /\ c.op = "update" =>
                 c.id \in Subs /\ c.read \in SubRow /\ c.enabled \in BOOLEAN
           /\ c.op = "rotate" => c.id \in Subs /\ c.read \in SubRow
           /\ c.op = "retry" => c.id \in Deliveries /\ c.read \in DeliveryRow
BY DEF Call

LEMMA JobFields ==
    ASSUME NEW j \in Job
    PROVE  /\ j.pc = "taken" =>
                 j.id \in Deliveries /\ j.read \in DeliveryRow /\ j.shared \in BOOLEAN
           /\ j.pc = "answered" => j.id \in Deliveries /\ j.write \in DeliveryRow
           /\ j.pc \in {"idle", "taken", "answered"}
BY DEF Job

(* What a request turns a row into.                                        *)
LEMMA OutcomeType ==
    ASSUME NEW row \in DeliveryRow, NEW ok \in BOOLEAN
    PROVE  /\ Outcome(row, ok) \in DeliveryRow
           /\ [row EXCEPT !.attempts = @ + 1] \in DeliveryRow
<1>1. Failed(row) \in DeliveryRow
    <2>1. CASE row.attempts >= MaxAttempts
        BY <2>1 DEF Failed, DeliveryRow, DeliveryStatus
    <2>2. CASE ~(row.attempts >= MaxAttempts)
        BY <2>2 DEF Failed, DeliveryRow, DeliveryStatus
    <2>3. QED
        BY <2>1, <2>2
<1>2. [row EXCEPT !.status = "delivered"] \in DeliveryRow
    BY DEF DeliveryRow, DeliveryStatus
<1>3. QED
    BY <1>1, <1>2 DEF Outcome, DeliveryRow

(* A row written back leaves the other subscriptions, and what is gone,    *)
(* alone.                                                                  *)
LEMMA RowWritten ==
    ASSUME subs \in [Subs -> SubRow \cup {Null}], NEW s \in Subs,
           NEW row \in SubRow, UpdateSubscription(s, row)
    PROVE  /\ subs' \in [Subs -> SubRow \cup {Null}]
           /\ \A t \in Subs : subs[t] # Null => subs'[t] # Null
           /\ \A t \in Subs \ {s} : subs'[t] = subs[t]
           /\ subs'[s] = IF subs[s] = Null THEN Null ELSE row
BY NullAssumption DEF UpdateSubscription

LEMMA DeliveryWritten ==
    ASSUME deliveries \in [Deliveries -> DeliveryRow \cup {Null}],
           NEW d \in Deliveries, NEW row \in DeliveryRow, UpdateDelivery(d, row)
    PROVE  /\ deliveries' \in [Deliveries -> DeliveryRow \cup {Null}]
           /\ \A e \in Deliveries : deliveries'[e] # Null => deliveries[e] # Null
           /\ \A e \in Deliveries \ {d} : deliveries'[e] = deliveries[e]
           /\ deliveries'[d] = IF deliveries[d] = Null THEN Null ELSE row
BY DEF UpdateDelivery

LEMMA Freed ==
    ASSUME TypeOK
    PROVE  /\ \A r \in Calls : End(r) =>
                  /\ calls' \in [Calls -> Call]
                  /\ calls'[r].op = "idle"
                  /\ \A q \in Calls \ {r} : calls'[q] = calls[q]
           /\ \A w \in Workers : jobs' = [jobs EXCEPT ![w] = [pc |-> "idle"]] =>
                  /\ jobs' \in [Workers -> Job]
                  /\ jobs'[w].pc = "idle"
                  /\ \A v \in Workers \ {w} : jobs'[v] = jobs[v]
<1>1. calls \in [Calls -> Call] /\ [op |-> "idle"] \in Call
    BY DEF TypeOK, Call
<1>2. jobs \in [Workers -> Job] /\ [pc |-> "idle"] \in Job
    BY DEF TypeOK, Job
<1>3. QED
    BY <1>1, <1>2 DEF End

LEMMA InitType == Init => TypeOK
BY WebhooksAssumption DEF Init, TypeOK, Call, Job

(* A step that only begins an RPC.                                         *)
LEMMA BegunType ==
    ASSUME TypeOK, NEW r \in Calls, NEW c \in Call, Begin(r, c),
           UNCHANGED <<tables, jobs, secrets, observed>>
    PROVE  TypeOK'
<1>1. calls' \in [Calls -> Call]
    BY DEF TypeOK, Begin
<1>2. QED
    BY <1>1 DEF TypeOK, tables, observed

LEMMA PatchedType ==
    ASSUME NEW row \in SubRow, NEW c \in Call, c.op = "update"
    PROVE  Patched(row, c) \in SubRow
BY CallFields DEF Patched, SubRow

(* A step that writes a subscription, with columns that agree with what    *)
(* was answered or are undone, and ends its RPC.                           *)
LEMMA SubscriptionWritten ==
    ASSUME TypeOK, RowFollowsAnswers, NEW r \in Calls, NEW s \in Subs,
           NEW row \in SubRow, UpdateSubscription(s, row), End(r),
           secrets' \in 0..MaxSecrets,
           expected' \in [Subs -> SubRow \cup {Null}],
           undone' \in [Subs -> SUBSET Columns],
           \A t \in Subs \ {s} :
               expected'[t] = expected[t] /\ undone'[t] = undone[t],
           subs[s] # Null =>
               /\ expected'[s] # Null
               /\ \A column \in Columns : \/ row[column] = expected'[s][column]
                                          \/ column \in undone'[s],
           UNCHANGED <<deliveries, jobs, sent, accepted, retries, overlaps,
                       unrecorded, quiet>>
    PROVE  TypeOK' /\ RowFollowsAnswers'
<1>1. /\ subs' \in [Subs -> SubRow \cup {Null}]
      /\ \A t \in Subs : subs[t] # Null => subs'[t] # Null
      /\ \A t \in Subs \ {s} : subs'[t] = subs[t]
      /\ subs'[s] = IF subs[s] = Null THEN Null ELSE row
    BY RowWritten DEF TypeOK
<1>2. calls' \in [Calls -> Call]
    BY Freed
<1>3. SubOf \in [Deliveries -> Subs]
    BY WebhooksAssumption
<1>4. TypeOK'
    BY <1>1, <1>2, <1>3 DEF TypeOK
<1>5. RowFollowsAnswers'
    BY <1>1 DEF RowFollowsAnswers
<1>6. QED
    BY <1>4, <1>5

(* The column that a request is about agrees with its answer or is undone, *)
(* the other column is as it was or is undone.                             *)
LEMMA AnswerRecorded ==
    ASSUME TypeOK, RowFollowsAnswers, NEW c \in Call,
           c.op \in {"update", "rotate"},
           NEW value, IF c.op = "update" THEN value \in BOOLEAN
                                         ELSE value \in Secret,
           NEW row, row = [c.read EXCEPT ![Own(c)] = value],
           Answered(c, value) \/ Unanswered(c)
    PROVE  /\ c.id \in Subs /\ row \in SubRow
           /\ expected' \in [Subs -> SubRow \cup {Null}]
           /\ undone' \in [Subs -> SUBSET Columns]
           /\ \A t \in Subs \ {c.id} :
                 expected'[t] = expected[t] /\ undone'[t] = undone[t]
           /\ subs[c.id] # Null =>
                 /\ expected'[c.id] # Null
                 /\ \A column \in Columns :
                       \/ row[column] = expected'[c.id][column]
                       \/ column \in undone'[c.id]
<1>1. c.id \in Subs /\ c.read \in SubRow
    BY CallFields
<1>2. /\ Own(c) = IF c.op = "update" THEN "enabled" ELSE "secret"
      /\ Own(c) \in Columns
    BY DEF Own, Columns
<1>3. row \in SubRow /\ row[Own(c)] = value
      /\ \A column \in Columns \ {Own(c)} : row[column] = c.read[column]
    <2>1. CASE c.op = "update"
        BY <1>1, <1>2, <2>1 DEF SubRow, Columns
    <2>2. CASE c.op = "rotate"
        BY <1>1, <1>2, <2>2 DEF SubRow, Columns
    <2>3. QED
        BY <2>1, <2>2
<1>4. Stale(c) \subseteq Columns
    BY DEF Stale
<1>5. CASE subs[c.id] = Null
    BY <1>1, <1>3, <1>5 DEF Answered, Unanswered, TypeOK
<1>6. CASE subs[c.id] # Null
    <2>1. /\ expected[c.id] \in SubRow \cup {Null}
          /\ undone[c.id] \subseteq Columns
          /\ \A column \in Columns : \/ subs[c.id][column] = expected[c.id][column]
                                     \/ column \in undone[c.id]
        BY <1>1, <1>6 DEF TypeOK, RowFollowsAnswers
    <2>2. \A column \in Columns \ {Own(c)} :
              row[column] = subs[c.id][column] \/ column \in Stale(c)
        BY <1>3 DEF Stale
    <2>3. CASE Unanswered(c)
        <3>1. /\ expected' = expected
              /\ undone' = [undone EXCEPT ![c.id] =
                               undone[c.id] \cup {Own(c)} \cup Stale(c)]
            BY <1>6, <2>3 DEF Unanswered
        <3>2. /\ undone'[c.id] = undone[c.id] \cup {Own(c)} \cup Stale(c)
              /\ undone' \in [Subs -> SUBSET Columns]
              /\ \A t \in Subs \ {c.id} : undone'[t] = undone[t]
            BY <1>1, <1>2, <1>4, <2>1, <3>1 DEF TypeOK
        <3>3. QED
            BY <1>1, <1>3, <2>1, <2>2, <3>1, <3>2 DEF TypeOK
    <2>4. CASE Answered(c, value)
        <3>1. /\ expected' = [expected EXCEPT ![c.id] =
                                 [expected[c.id] EXCEPT ![Own(c)] = value]]
              /\ undone' = [undone EXCEPT ![c.id] =
                               (undone[c.id] \ {Own(c)}) \cup Stale(c)]
            BY <1>6, <2>4 DEF Answered
        <3>2. /\ undone'[c.id] = (undone[c.id] \ {Own(c)}) \cup Stale(c)
              /\ undone' \in [Subs -> SUBSET Columns]
              /\ \A t \in Subs \ {c.id} : undone'[t] = undone[t]
            BY <1>1, <1>2, <1>4, <2>1, <3>1 DEF TypeOK
        <3>3. expected[c.id] \in SubRow
            BY <1>1, <1>6 DEF TypeOK
        <3>4. PICK new : new = [expected[c.id] EXCEPT ![Own(c)] = value]
            OBVIOUS
        <3>5. /\ new \in SubRow /\ new[Own(c)] = value
              /\ \A column \in Columns \ {Own(c)} :
                    new[column] = expected[c.id][column]
            <4>1. CASE c.op = "update"
                BY <1>2, <3>3, <3>4, <4>1 DEF SubRow, Columns
            <4>2. CASE c.op = "rotate"
                BY <1>2, <3>3, <3>4, <4>2 DEF SubRow, Columns
            <4>3. QED
                BY <4>1, <4>2
        <3>6. /\ expected'[c.id] = new
              /\ expected' \in [Subs -> SubRow \cup {Null}]
              /\ \A t \in Subs \ {c.id} : expected'[t] = expected[t]
            BY <1>1, <3>1, <3>4, <3>5 DEF TypeOK
        <3>7. QED
            BY <1>1, <1>3, <2>1, <2>2, <3>2, <3>5, <3>6, NullAssumption
    <2>5. QED
        BY <2>3, <2>4
<1>7. QED
    BY <1>5, <1>6

LEMMA RequestSteps ==
    ASSUME TypeOK, RowFollowsAnswers, NEW r \in Calls,
           UpdateWrites(r) \/ RotateWrites(r) \/ WriteUnanswered(r)
    PROVE  TypeOK' /\ RowFollowsAnswers'
<1> DEFINE c == calls[r]
<1>1. c \in Call /\ secrets \in 0..MaxSecrets /\ MaxSecrets \in Nat
    BY WebhooksAssumption DEF TypeOK
<1>2. c.op \in {"update", "rotate"} /\ End(r)
      /\ UNCHANGED <<deliveries, jobs, sent, accepted, retries, overlaps,
                     unrecorded, quiet>>
    BY DEF UpdateWrites, RotateWrites, WriteUnanswered
<1>3. CASE c.op = "update"
    <2>1. /\ UpdateSubscription(c.id, Patched(c.read, c))
          /\ Answered(c, c.enabled) \/ Unanswered(c)
          /\ secrets' = secrets
        BY <1>3 DEF UpdateWrites, RotateWrites, WriteUnanswered
    <2>2. c.enabled \in BOOLEAN /\ c.read \in SubRow
        BY <1>1, <1>3, CallFields
    <2>3. Patched(c.read, c) = [c.read EXCEPT ![Own(c)] = c.enabled]
        BY <1>3, <2>2 DEF Patched, Own, SubRow
    <2>4. PICK row, value : row = Patched(c.read, c) /\ value = c.enabled
        OBVIOUS
    <2> HIDE DEF c
    <2>5. QED
        BY <1>1, <1>2, <1>3, <2>1, <2>2, <2>3, <2>4, AnswerRecorded,
           SubscriptionWritten
<1>4. CASE c.op = "rotate"
    <2>1. /\ UpdateSubscription(c.id, [c.read EXCEPT !.secret = secrets'])
          /\ Answered(c, secrets') \/ Unanswered(c)
          /\ secrets < MaxSecrets /\ secrets' = secrets + 1
        BY <1>4 DEF UpdateWrites, RotateWrites, WriteUnanswered
    <2>2. /\ c.read \in SubRow
          /\ secrets' \in Secret /\ secrets' \in 0..MaxSecrets
        BY <1>1, <1>4, <2>1, CallFields DEF Secret
    <2>3. [c.read EXCEPT !.secret = secrets'] = [c.read EXCEPT ![Own(c)] = secrets']
        BY <1>4, <2>2 DEF Own, SubRow
    <2>4. PICK row, value :
              row = [c.read EXCEPT !.secret = secrets'] /\ value = secrets'
        OBVIOUS
    <2> HIDE DEF c
    <2>5. QED
        BY <1>1, <1>2, <1>4, <2>1, <2>2, <2>3, <2>4, AnswerRecorded,
           SubscriptionWritten
<1>5. QED
    BY <1>2, <1>3, <1>4

LEMMA SubscriptionSteps ==
    ASSUME TypeOK, RowFollowsAnswers, SubscriptionStep
    PROVE  TypeOK' /\ RowFollowsAnswers'
<1>1. PICK s \in Subs : RegisterWebhook(s) \/ DeleteWebhook(s)
    BY DEF SubscriptionStep
<1>2. SubOf \in [Deliveries -> Subs] /\ MaxSecrets \in Nat
    BY WebhooksAssumption
<1>3. CASE RegisterWebhook(s)
    <2>1. secrets' \in Secret /\ secrets' \in 0..MaxSecrets
        BY <1>2, <1>3 DEF RegisterWebhook, TypeOK, Secret
    <2>2. PICK row \in SubRow : subs' = [subs EXCEPT ![s] = row]
        BY <1>3, <2>1 DEF RegisterWebhook, SubRow
    <2>3. /\ subs' \in [Subs -> SubRow \cup {Null}]
          /\ subs'[s] = row
          /\ \A t \in Subs : subs[t] # Null => subs'[t] # Null
          /\ expected' \in [Subs -> SubRow \cup {Null}]
        <3>1. /\ subs' \in [Subs -> SubRow \cup {Null}]
              /\ subs'[s] = row
              /\ \A t \in Subs : subs[t] # Null => subs'[t] # Null
            BY <2>2, NullAssumption DEF TypeOK
        <3>2. expected' = [expected EXCEPT ![s] = row]
            BY <1>3, <3>1 DEF RegisterWebhook
        <3>3. QED
            BY <3>1, <3>2 DEF TypeOK
    <2>4. expected'[s] = subs'[s] /\ subs'[s] # Null
        BY <1>3, <2>2, NullAssumption DEF RegisterWebhook, TypeOK
    <2>5. /\ \A t \in Subs \ {s} : expected'[t] = expected[t] /\ subs'[t] = subs[t]
          /\ undone' = undone
        BY <1>3 DEF RegisterWebhook, TypeOK
    <2>6. RowFollowsAnswers'
        BY <2>4, <2>5 DEF RowFollowsAnswers
    <2>7. TypeOK'
        BY <1>2, <1>3, <2>1, <2>3, <2>4, <2>5 DEF RegisterWebhook, TypeOK
    <2>8. QED
        BY <2>6, <2>7
<1>4. CASE DeleteWebhook(s)
    BY <1>2, <1>4 DEF DeleteWebhook, TypeOK, RowFollowsAnswers, observed
<1>5. QED
    BY <1>1, <1>3, <1>4

(* A step that leaves the subscriptions alone.                             *)
LEMMA SubscriptionsKept ==
    ASSUME RowFollowsAnswers, UNCHANGED <<subs, expected, undone>>
    PROVE  RowFollowsAnswers'
BY DEF RowFollowsAnswers

LEMMA ReadSteps ==
    ASSUME TypeOK, RowFollowsAnswers, NEW r \in Calls,
           \/ \E s \in Subs, enabled \in BOOLEAN : UpdateReads(r, s, enabled)
           \/ \E s \in Subs : RotateReads(r, s)
           \/ \E d \in Deliveries : RetryReads(r, d)
           \/ CallFails(r)
    PROVE  TypeOK' /\ RowFollowsAnswers'
<1>1. \A s \in Subs : subs[s] # Null => subs[s] \in SubRow
    BY DEF TypeOK
<1>2. \A d \in Deliveries : deliveries[d] # Null => deliveries[d] \in DeliveryRow
    BY DEF TypeOK
<1>3. CASE \E s \in Subs, enabled \in BOOLEAN : UpdateReads(r, s, enabled)
    <2>1. PICK s \in Subs, enabled \in BOOLEAN : UpdateReads(r, s, enabled)
        BY <1>3
    <2>2. PICK c : c = [op |-> "update", id |-> s, read |-> subs[s],
                        enabled |-> enabled]
        OBVIOUS
    <2>3. c \in Call
        BY <1>1, <2>1, <2>2 DEF UpdateReads, Call
    <2>4. QED
        BY <2>1, <2>2, <2>3, BegunType, SubscriptionsKept
            DEF UpdateReads, tables, observed
<1>4. CASE \E s \in Subs : RotateReads(r, s)
    <2>1. PICK s \in Subs : RotateReads(r, s)
        BY <1>4
    <2>2. PICK c : c = [op |-> "rotate", id |-> s, read |-> subs[s]]
        OBVIOUS
    <2>3. c \in Call
        BY <1>1, <2>1, <2>2 DEF RotateReads, Call
    <2>4. QED
        BY <2>1, <2>2, <2>3, BegunType, SubscriptionsKept
            DEF RotateReads, tables, observed
<1>5. CASE \E d \in Deliveries : RetryReads(r, d)
    <2>1. PICK d \in Deliveries : RetryReads(r, d)
        BY <1>5
    <2>2. PICK c : c = [op |-> "retry", id |-> d, read |-> deliveries[d]]
        OBVIOUS
    <2>3. c \in Call
        BY <1>2, <2>1, <2>2 DEF RetryReads, Call
    <2>4. QED
        BY <2>1, <2>2, <2>3, BegunType, SubscriptionsKept
            DEF RetryReads, tables, observed
<1>6. CASE CallFails(r)
    BY <1>6, Freed, SubscriptionsKept DEF CallFails, TypeOK, tables, observed
<1>7. QED
    BY <1>3, <1>4, <1>5, <1>6

LEMMA RequeuedType ==
    ASSUME NEW row \in DeliveryRow
    PROVE  Requeued(row) \in DeliveryRow
BY DEF Requeued, DeliveryRow, DeliveryStatus

LEMMA RetrySteps ==
    ASSUME TypeOK, RowFollowsAnswers, NEW r \in Calls, RetryWrites(r)
    PROVE  TypeOK' /\ RowFollowsAnswers'
<1>1. PICK d \in Deliveries, row \in DeliveryRow :
          d = calls[r].id /\ row = Requeued(calls[r].read)
    BY CallFields, RequeuedType DEF TypeOK, RetryWrites
<1>2. /\ deliveries' \in [Deliveries -> DeliveryRow \cup {Null}]
      /\ \A e \in Deliveries : deliveries'[e] # Null => deliveries[e] # Null
    BY <1>1, DeliveryWritten DEF RetryWrites, TypeOK
<1>3. calls' \in [Calls -> Call]
    BY Freed DEF RetryWrites
<1>4. retries' \in [Deliveries -> Nat] /\ quiet' \subseteq Deliveries
    BY <1>1 DEF RetryWrites, TypeOK
<1>5. UNCHANGED <<subs, jobs, secrets, expected, undone, sent, accepted,
                  overlaps, unrecorded>>
    BY DEF RetryWrites
<1>6. QED
    BY <1>2, <1>3, <1>4, <1>5, SubscriptionsKept DEF TypeOK

LEMMA WorkerSteps ==
    ASSUME TypeOK, RowFollowsAnswers, NEW w \in Workers, WorkerStep(w)
    PROVE  TypeOK' /\ RowFollowsAnswers'
<1>1. jobs \in [Workers -> Job] /\ jobs[w] \in Job
    BY DEF TypeOK
<1>2. ASSUME NEW d \in Deliveries, Take(w, d)
      PROVE  TypeOK' /\ RowFollowsAnswers'
    <2>1. PICK shared \in BOOLEAN : shared = (Holding(d) # {})
        OBVIOUS
    <2>2. PICK j : j = [pc |-> "taken", id |-> d, read |-> deliveries[d],
                        shared |-> shared]
        OBVIOUS
    <2>3. deliveries[d] \in DeliveryRow
        BY <1>2 DEF Take, TypeOK
    <2>4. j \in Job
        BY <2>2, <2>3 DEF Job
    <2>5. jobs' \in [Workers -> Job]
        BY <1>1, <1>2, <2>1, <2>2, <2>4 DEF Take
    <2>6. QED
        BY <1>2, <2>5, SubscriptionsKept DEF Take, TypeOK, tables, observed
<1>3. CASE GiveUp(w)
    BY <1>3, Freed, SubscriptionsKept DEF GiveUp, TypeOK, tables, observed
<1>4. ASSUME NEW ok \in BOOLEAN, Request(w, ok)
      PROVE  TypeOK' /\ RowFollowsAnswers'
    <2>1. PICK d \in Deliveries : d = jobs[w].id
        BY <1>1, <1>4, JobFields DEF Request
    <2>2. PICK row \in DeliveryRow :
              row = Outcome([jobs[w].read EXCEPT !.attempts = @ + 1], ok)
        BY <1>1, <1>4, JobFields, OutcomeType DEF Request
    <2>3. PICK j : j = [pc |-> "answered", id |-> d, write |-> row]
        OBVIOUS
    <2>4. j \in Job
        BY <2>3 DEF Job
    <2>5. jobs' \in [Workers -> Job]
        BY <1>1, <1>4, <2>1, <2>2, <2>3, <2>4 DEF Request
    <2>6. /\ sent' \in [Deliveries -> Nat] /\ accepted' \in [Deliveries -> Nat]
          /\ overlaps' \in [Deliveries -> Nat]
        BY <1>4, <2>1 DEF Request, TypeOK
    <2>7. QED
        BY <1>4, <2>5, <2>6, SubscriptionsKept DEF Request, TypeOK, tables
<1>5. CASE StoreOutcome(w)
    <2>1. jobs[w].id \in Deliveries /\ jobs[w].write \in DeliveryRow
        BY <1>1, <1>5, JobFields DEF StoreOutcome
    <2>2. /\ deliveries' \in [Deliveries -> DeliveryRow \cup {Null}]
          /\ \A e \in Deliveries : deliveries'[e] # Null => deliveries[e] # Null
        BY <1>5, <2>1, DeliveryWritten DEF StoreOutcome, TypeOK
    <2>3. QED
        BY <1>5, <2>2, Freed, SubscriptionsKept
            DEF StoreOutcome, TypeOK, observed
<1>6. CASE WorkerFails(w)
    <2>1. jobs[w].id \in Deliveries
        BY <1>1, <1>6, JobFields DEF WorkerFails
    <2>2. unrecorded' \in [Deliveries -> 0..MaxCrashes]
        BY <1>6, <2>1, WebhooksAssumption DEF WorkerFails, TypeOK
    <2>3. QED
        BY <1>6, <2>2, Freed, SubscriptionsKept DEF WorkerFails, TypeOK, tables
<1>7. QED
    BY <1>2, <1>3, <1>4, <1>5, <1>6 DEF WorkerStep

LEMMA DeliverySteps ==
    ASSUME TypeOK, RowFollowsAnswers, NEW d \in Deliveries,
           CreateDelivery(d) \/ BecomesDue(d)
    PROVE  TypeOK' /\ RowFollowsAnswers'
<1>1. CASE CreateDelivery(d)
    <2>1. [status |-> "pending", attempts |-> 0, due |-> TRUE] \in DeliveryRow
        BY DEF DeliveryRow, DeliveryStatus
    <2>2. QED
        BY <1>1, <2>1, SubscriptionsKept DEF CreateDelivery, TypeOK, observed
<1>2. CASE BecomesDue(d)
    <2>1. deliveries[d] \in DeliveryRow
        BY <1>2 DEF BecomesDue, TypeOK
    <2>2. [deliveries[d] EXCEPT !.due = TRUE] \in DeliveryRow
        BY <2>1 DEF DeliveryRow
    <2>3. deliveries' = [deliveries EXCEPT ![d] = [deliveries[d] EXCEPT !.due = TRUE]]
        BY <1>2 DEF BecomesDue
    <2>4. QED
        BY <1>2, <2>2, <2>3, SubscriptionsKept DEF BecomesDue, TypeOK, observed
<1>3. QED
    BY <1>1, <1>2

LEMMA TypeStep ==
    ASSUME TypeOK, RowFollowsAnswers, [Next]_vars
    PROVE  TypeOK' /\ RowFollowsAnswers'
<1>1. CASE UNCHANGED vars
    BY <1>1 DEF vars, tables, observed, TypeOK, RowFollowsAnswers
<1>2. CASE SubscriptionStep
    BY <1>2, SubscriptionSteps
<1>3. ASSUME NEW r \in Calls, CallStep(r)
      PROVE  TypeOK' /\ RowFollowsAnswers'
    BY <1>3, ReadSteps, RequestSteps, RetrySteps DEF CallStep
<1>4. ASSUME NEW w \in Workers, WorkerStep(w)
      PROVE  TypeOK' /\ RowFollowsAnswers'
    BY <1>4, WorkerSteps
<1>5. ASSUME NEW d \in Deliveries, CreateDelivery(d) \/ BecomesDue(d)
      PROVE  TypeOK' /\ RowFollowsAnswers'
    BY <1>5, DeliverySteps
<1>6. QED
    BY <1>1, <1>2, <1>3, <1>4, <1>5 DEF Next

(* Every variable keeps its type, and no delivery outlives its             *)
(* subscription: TypeOK of the run webhooks, for any number of RPCs,       *)
(* workers, secrets, retries and crashes (UpdateWebhook, Dispatch and      *)
(* RetryWebhookDelivery write back what they read, of rows that may be     *)
(* gone).                                                                  *)
THEOREM TypeInvariant == Spec => []TypeOK
<1>1. Init => TypeOK /\ RowFollowsAnswers
    BY InitType DEF Init, RowFollowsAnswers
<1>2. QED
    BY <1>1, TypeStep, PTL DEF Spec

(* A subscription is what its answered requests made it: the secret that   *)
(* RotateWebhookSecret last handed out, and what UpdateWebhook last        *)
(* answered of enabled, are lost only to a request that overlapped and     *)
(* wrote an older copy back, or to one whose own answer was lost.          *)
THEOREM RowsFollowAnswers == Spec => []RowFollowsAnswers
<1>1. Init => TypeOK /\ RowFollowsAnswers
    BY InitType DEF Init, RowFollowsAnswers
<1>2. QED
    BY <1>1, TypeStep, PTL DEF Spec

-----------------------------------------------------------------------------
(* The attempts.                                                           *)

(* What AttemptsAreKept says of a row, and of each copy of it, given the   *)
(* requests made, those accepted and the retries answered; a pending row   *)
(* has an attempt left.                                                    *)
Fits(row, made, taken, retried) ==
    /\ row.attempts <= made
    /\ row.attempts <= MaxAttempts + retried
    /\ row.status = "pending" => row.attempts < MaxAttempts + retried
    /\ row.status = "dlq" => row.attempts >= MaxAttempts
    /\ row.status = "failed" => row.attempts < MaxAttempts
    /\ row.status = "delivered" => taken > 0

Live(row) == row.status \in {"pending", "failed"}

Kept(d, row) == Fits(row, sent[d], accepted[d], retries[d])

CopiesFit ==
    /\ \A d \in Deliveries : deliveries[d] # Null => Kept(d, deliveries[d])
    /\ \A w \in Workers :
          /\ jobs[w].pc = "taken" =>
                Kept(jobs[w].id, jobs[w].read) /\ Live(jobs[w].read)
          /\ jobs[w].pc = "answered" => Kept(jobs[w].id, jobs[w].write)
    /\ \A r \in Calls : calls[r].op = "retry" => Kept(calls[r].id, calls[r].read)

LEMMA FitsGrows ==
    ASSUME NEW row \in DeliveryRow,
           NEW m1 \in Nat, NEW t1 \in Nat, NEW r1 \in Nat,
           NEW m2 \in Nat, NEW t2 \in Nat, NEW r2 \in Nat,
           m1 <= m2, t1 <= t2, r1 <= r2, Fits(row, m1, t1, r1)
    PROVE  Fits(row, m2, t2, r2)
BY WebhooksAssumption DEF Fits, DeliveryRow, DeliveryStatus

(* The row that Dispatch stores after a request fits what was made of it.  *)
LEMMA OutcomeFits ==
    ASSUME NEW row \in DeliveryRow, Live(row), NEW ok \in BOOLEAN,
           NEW made \in Nat, NEW taken \in Nat, NEW retried \in Nat,
           Fits(row, made, taken, retried)
    PROVE  Fits(Outcome([row EXCEPT !.attempts = @ + 1], ok),
                made + 1, IF ok THEN taken + 1 ELSE taken, retried)
<1>1. PICK next \in DeliveryRow : next = [row EXCEPT !.attempts = @ + 1]
    BY OutcomeType
<1>2. /\ next.attempts = row.attempts + 1 /\ next.status = row.status
      /\ row.attempts \in Nat /\ MaxAttempts \in Nat \ {0}
    BY <1>1, WebhooksAssumption DEF DeliveryRow
<1>3. next.attempts <= made + 1 /\ next.attempts <= MaxAttempts + retried
    BY <1>2 DEF Fits, Live
<1>4. CASE ok
    <2>1. PICK new : new = [next EXCEPT !.status = "delivered"]
        OBVIOUS
    <2>2. new.attempts = next.attempts /\ new.status = "delivered"
        BY <2>1 DEF DeliveryRow
    <2>3. Fits(new, made + 1, taken + 1, retried)
        BY <1>3, <2>2 DEF Fits
    <2>4. QED
        BY <1>1, <1>4, <2>1, <2>3 DEF Outcome
<1>5. CASE ~ok /\ next.attempts >= MaxAttempts
    <2>1. PICK new : new = [next EXCEPT !.status = "dlq"]
        OBVIOUS
    <2>2. new.attempts = next.attempts /\ new.status = "dlq"
        BY <2>1 DEF DeliveryRow
    <2>3. Fits(new, made + 1, taken, retried)
        BY <1>3, <1>5, <2>2 DEF Fits
    <2>4. QED
        BY <1>1, <1>5, <2>1, <2>3 DEF Outcome, Failed
<1>6. CASE ~ok /\ ~(next.attempts >= MaxAttempts)
    <2>1. PICK new : new = [next EXCEPT !.status = "failed", !.due = FALSE]
        OBVIOUS
    <2>2. new.attempts = next.attempts /\ new.status = "failed"
        BY <2>1 DEF DeliveryRow
    <2>3. new.attempts < MaxAttempts
        BY <1>2, <1>6, <2>2
    <2>4. Fits(new, made + 1, taken, retried)
        BY <1>3, <2>2, <2>3 DEF Fits
    <2>5. QED
        BY <1>1, <1>6, <2>1, <2>4 DEF Outcome, Failed
<1>7. QED
    BY <1>4, <1>5, <1>6

LEMMA RequeuedFits ==
    ASSUME NEW row \in DeliveryRow,
           NEW made \in Nat, NEW taken \in Nat, NEW retried \in Nat,
           Fits(row, made, taken, retried)
    PROVE  Fits(Requeued(row), made, taken, retried + 1)
<1>1. PICK new : new = Requeued(row)
    OBVIOUS
<1>2. new.attempts = row.attempts /\ new.status = "pending"
    BY <1>1 DEF Requeued, DeliveryRow
<1>3. row.attempts \in Nat /\ MaxAttempts \in Nat \ {0}
    BY WebhooksAssumption DEF DeliveryRow
<1>4. Fits(new, made, taken, retried + 1)
    BY <1>2, <1>3 DEF Fits
<1>5. QED
    BY <1>1, <1>4

KeptNext(d, row) == Fits(row, sent'[d], accepted'[d], retries'[d])

(* A step takes nothing back, and every copy it writes fits.               *)
LEMMA CopiesWritten ==
    ASSUME TypeOK, TypeOK', CopiesFit,
           \A d \in Deliveries : /\ sent[d] <= sent'[d]
                                 /\ accepted[d] <= accepted'[d]
                                 /\ retries[d] <= retries'[d],
           \A d \in Deliveries :
               \/ deliveries'[d] = Null
               \/ deliveries'[d] = deliveries[d]
               \/ KeptNext(d, deliveries'[d]),
           \A w \in Workers :
               \/ jobs'[w] = jobs[w]
               \/ jobs'[w].pc = "idle"
               \/ /\ jobs'[w].pc = "taken"
                  /\ KeptNext(jobs'[w].id, jobs'[w].read) /\ Live(jobs'[w].read)
               \/ /\ jobs'[w].pc = "answered"
                  /\ KeptNext(jobs'[w].id, jobs'[w].write),
           \A r \in Calls :
               \/ calls'[r] = calls[r]
               \/ calls'[r].op # "retry"
               \/ KeptNext(calls'[r].id, calls'[r].read)
    PROVE  CopiesFit'
<1>1. ASSUME NEW d \in Deliveries, NEW row \in DeliveryRow, Kept(d, row)
      PROVE  KeptNext(d, row)
    <2>1. /\ sent[d] \in Nat /\ sent'[d] \in Nat
          /\ accepted[d] \in Nat /\ accepted'[d] \in Nat
          /\ retries[d] \in Nat /\ retries'[d] \in Nat
        BY DEF TypeOK
    <2>2. QED
        BY <1>1, <2>1, FitsGrows DEF Kept, KeptNext
<1>2. ASSUME NEW d \in Deliveries, deliveries'[d] # Null
      PROVE  KeptNext(d, deliveries'[d])
    <2>1. deliveries[d] # Null => deliveries[d] \in DeliveryRow /\ Kept(d, deliveries[d])
        BY DEF TypeOK, CopiesFit
    <2>2. QED
        BY <1>1, <1>2, <2>1
<1>3. ASSUME NEW w \in Workers
      PROVE  /\ jobs'[w].pc = "taken" =>
                   KeptNext(jobs'[w].id, jobs'[w].read) /\ Live(jobs'[w].read)
             /\ jobs'[w].pc = "answered" => KeptNext(jobs'[w].id, jobs'[w].write)
    <2>1. jobs[w] \in Job
        BY DEF TypeOK
    <2>2. /\ jobs[w].pc = "taken" =>
                /\ jobs[w].id \in Deliveries /\ jobs[w].read \in DeliveryRow
                /\ Kept(jobs[w].id, jobs[w].read) /\ Live(jobs[w].read)
          /\ jobs[w].pc = "answered" =>
                /\ jobs[w].id \in Deliveries /\ jobs[w].write \in DeliveryRow
                /\ Kept(jobs[w].id, jobs[w].write)
        BY <2>1, JobFields DEF CopiesFit
    <2>3. CASE jobs'[w] = jobs[w]
        BY <1>1, <2>2, <2>3
    <2>4. QED
        BY <2>3
<1>4. ASSUME NEW r \in Calls, calls'[r].op = "retry"
      PROVE  KeptNext(calls'[r].id, calls'[r].read)
    <2>1. calls[r] \in Call
        BY DEF TypeOK
    <2>2. calls[r].op = "retry" =>
             /\ calls[r].id \in Deliveries /\ calls[r].read \in DeliveryRow
             /\ Kept(calls[r].id, calls[r].read)
        BY <2>1, CallFields DEF CopiesFit
    <2>3. CASE calls'[r] = calls[r]
        BY <1>1, <1>4, <2>2, <2>3
    <2>4. QED
        BY <1>4, <2>3
<1>5. QED
    BY <1>2, <1>3, <1>4 DEF CopiesFit, Kept, KeptNext

(* The job that Take gives a worker.                                       *)
LEMMA TakenJob ==
    ASSUME NEW w \in Workers, NEW d \in Deliveries, Take(w, d)
    PROVE  \E j : /\ j.pc = "taken" /\ j.id = d /\ j.read = deliveries[d]
                  /\ j.shared \in BOOLEAN /\ (j.shared <=> Holding(d) # {})
                  /\ jobs' = [jobs EXCEPT ![w] = j]
<1>1. PICK shared \in BOOLEAN : shared = (Holding(d) # {})
    OBVIOUS
<1>2. PICK j : j = [pc |-> "taken", id |-> d, read |-> deliveries[d],
                    shared |-> shared]
    OBVIOUS
<1>3. jobs' = [jobs EXCEPT ![w] = j]
    BY <1>1, <1>2 DEF Take
<1>4. QED
    BY <1>1, <1>2, <1>3

(* The counters are left alone by all but Request and RetryWrites.         *)
LEMMA CountersKept ==
    ASSUME TypeOK, UNCHANGED <<sent, accepted, retries>>
    PROVE  /\ \A d \in Deliveries : /\ sent[d] <= sent'[d]
                                    /\ accepted[d] <= accepted'[d]
                                    /\ retries[d] <= retries'[d]
           /\ \A d, row : Kept(d, row) => KeptNext(d, row)
BY DEF TypeOK, Kept, KeptNext

LEMMA CopiesStep ==
    ASSUME TypeOK, TypeOK', CopiesFit, [Next]_vars
    PROVE  CopiesFit'
<1>1. CASE UNCHANGED vars
    BY <1>1, CountersKept, CopiesWritten DEF vars, tables, observed
<1>2. CASE SubscriptionStep
    <2>1. UNCHANGED <<calls, jobs, sent, accepted, retries>>
        BY <1>2 DEF SubscriptionStep, RegisterWebhook, DeleteWebhook, observed
    <2>2. \A d \in Deliveries :
              deliveries'[d] = Null \/ deliveries'[d] = deliveries[d]
        BY <1>2 DEF SubscriptionStep, RegisterWebhook, DeleteWebhook
    <2>3. QED
        BY <2>1, <2>2, CountersKept, CopiesWritten
<1>3. ASSUME NEW r \in Calls, NEW s \in Subs, NEW enabled \in BOOLEAN,
             UpdateReads(r, s, enabled) \/ RotateReads(r, s)
      PROVE  CopiesFit'
    <2>1. PICK c : c.op # "retry" /\ calls' = [calls EXCEPT ![r] = c]
        BY <1>3 DEF UpdateReads, RotateReads, Begin
    <2>2. \A q \in Calls : calls'[q] = calls[q] \/ calls'[q].op # "retry"
        BY <2>1 DEF TypeOK
    <2>3. UNCHANGED <<deliveries, jobs, sent, accepted, retries>>
        BY <1>3 DEF UpdateReads, RotateReads, tables, observed
    <2>4. QED
        BY <2>2, <2>3, CountersKept, CopiesWritten
<1>4. ASSUME NEW r \in Calls, NEW d \in Deliveries, RetryReads(r, d)
      PROVE  CopiesFit'
    <2>1. PICK c : /\ c.id = d /\ c.read = deliveries[d]
                   /\ calls' = [calls EXCEPT ![r] = c]
        BY <1>4 DEF RetryReads, Begin
    <2>2. Kept(d, deliveries[d])
        BY <1>4 DEF RetryReads, CopiesFit
    <2>3. UNCHANGED <<deliveries, jobs, sent, accepted, retries>>
        BY <1>4 DEF RetryReads, tables, observed
    <2>4. \A q \in Calls : calls'[q] = calls[q]
                              \/ KeptNext(calls'[q].id, calls'[q].read)
        BY <2>1, <2>2, <2>3, CountersKept DEF TypeOK
    <2>5. QED
        BY <2>3, <2>4, CountersKept, CopiesWritten
<1>5. ASSUME NEW r \in Calls,
             UpdateWrites(r) \/ RotateWrites(r) \/ WriteUnanswered(r) \/ CallFails(r)
      PROVE  CopiesFit'
    <2>1. End(r) /\ UNCHANGED <<deliveries, jobs, sent, accepted, retries>>
        BY <1>5 DEF UpdateWrites, RotateWrites, WriteUnanswered, CallFails,
            tables, observed
    <2>2. \A q \in Calls : calls'[q] = calls[q] \/ calls'[q].op # "retry"
        BY <2>1, Freed
    <2>3. QED
        BY <2>1, <2>2, CountersKept, CopiesWritten
<1>6. ASSUME NEW r \in Calls, RetryWrites(r)
      PROVE  CopiesFit'
    <2>1. PICK d \in Deliveries, read \in DeliveryRow :
              d = calls[r].id /\ read = calls[r].read
        BY <1>6, CallFields DEF RetryWrites, TypeOK
    <2>2. /\ sent[d] \in Nat /\ accepted[d] \in Nat /\ retries[d] \in Nat
          /\ retries'[d] = retries[d] + 1 /\ UNCHANGED <<sent, accepted, jobs>>
          /\ \A e \in Deliveries : retries[e] <= retries'[e]
        BY <1>6, <2>1 DEF RetryWrites, TypeOK
    <2>3. KeptNext(d, Requeued(read))
        BY <1>6, <2>1, <2>2, RequeuedFits DEF RetryWrites, CopiesFit, Kept, KeptNext
    <2>4. \A e \in Deliveries :
              \/ deliveries'[e] = Null \/ deliveries'[e] = deliveries[e]
              \/ KeptNext(e, deliveries'[e])
        BY <1>6, <2>1, <2>3 DEF RetryWrites, UpdateDelivery, TypeOK
    <2>5. \A q \in Calls : calls'[q] = calls[q] \/ calls'[q].op # "retry"
        BY <1>6, Freed DEF RetryWrites
    <2>6. \A e \in Deliveries : sent[e] <= sent'[e] /\ accepted[e] <= accepted'[e]
        BY <2>2 DEF TypeOK
    <2>7. QED
        BY <2>2, <2>4, <2>5, <2>6, CopiesWritten
<1>7. ASSUME NEW w \in Workers, NEW d \in Deliveries, Take(w, d)
      PROVE  CopiesFit'
    <2>1. PICK j : /\ j.pc = "taken" /\ j.id = d /\ j.read = deliveries[d]
                   /\ jobs' = [jobs EXCEPT ![w] = j]
        BY <1>7, TakenJob
    <2>2. Kept(d, deliveries[d]) /\ Live(deliveries[d])
        BY <1>7 DEF Take, CopiesFit, Pending, Live
    <2>3. UNCHANGED <<deliveries, calls, sent, accepted, retries>>
        BY <1>7 DEF Take, tables, observed
    <2>4. \A v \in Workers :
              \/ jobs'[v] = jobs[v]
              \/ /\ jobs'[v].pc = "taken"
                 /\ KeptNext(jobs'[v].id, jobs'[v].read) /\ Live(jobs'[v].read)
        BY <2>1, <2>2, <2>3, CountersKept DEF TypeOK
    <2>5. QED
        BY <2>3, <2>4, CountersKept, CopiesWritten
<1>8. ASSUME NEW w \in Workers, GiveUp(w) \/ WorkerFails(w)
      PROVE  CopiesFit'
    <2>1. /\ jobs' = [jobs EXCEPT ![w] = [pc |-> "idle"]]
          /\ UNCHANGED <<deliveries, calls, sent, accepted, retries>>
        BY <1>8 DEF GiveUp, WorkerFails, tables, observed
    <2>2. \A v \in Workers : jobs'[v] = jobs[v] \/ jobs'[v].pc = "idle"
        BY <2>1, Freed
    <2>3. QED
        BY <2>1, <2>2, CountersKept, CopiesWritten
<1>9. ASSUME NEW w \in Workers, NEW ok \in BOOLEAN, Request(w, ok)
      PROVE  CopiesFit'
    <2>1. PICK d \in Deliveries, read \in DeliveryRow :
              d = jobs[w].id /\ read = jobs[w].read
        BY <1>9, JobFields DEF Request, TypeOK
    <2>2. PICK row : row = Outcome([read EXCEPT !.attempts = @ + 1], ok)
        OBVIOUS
    <2>3. /\ sent[d] \in Nat /\ accepted[d] \in Nat /\ retries[d] \in Nat
          /\ sent'[d] = sent[d] + 1 /\ retries' = retries
          /\ accepted'[d] = IF ok THEN accepted[d] + 1 ELSE accepted[d]
          /\ UNCHANGED <<deliveries, calls>>
          /\ \A e \in Deliveries : sent[e] <= sent'[e] /\ accepted[e] <= accepted'[e]
        BY <1>9, <2>1 DEF Request, TypeOK, tables
    <2>4. KeptNext(d, row)
        BY <1>9, <2>1, <2>2, <2>3, OutcomeFits
            DEF Request, CopiesFit, Kept, KeptNext
    <2>5. PICK j : /\ j.pc = "answered" /\ j.id = d /\ j.write = row
                   /\ jobs' = [jobs EXCEPT ![w] = j]
        BY <1>9, <2>1, <2>2 DEF Request
    <2>6. \A v \in Workers :
              \/ jobs'[v] = jobs[v]
              \/ jobs'[v].pc = "answered" /\ KeptNext(jobs'[v].id, jobs'[v].write)
        BY <2>4, <2>5 DEF TypeOK
    <2>7. \A e \in Deliveries : retries[e] <= retries'[e]
        BY <2>3 DEF TypeOK
    <2>8. QED
        BY <2>3, <2>6, <2>7, CopiesWritten
<1>10. ASSUME NEW w \in Workers, StoreOutcome(w)
       PROVE  CopiesFit'
    <2>1. PICK d \in Deliveries, row \in DeliveryRow :
              d = jobs[w].id /\ row = jobs[w].write
        BY <1>10, JobFields DEF StoreOutcome, TypeOK
    <2>2. Kept(d, row) /\ UNCHANGED <<calls, sent, accepted, retries>>
        BY <1>10, <2>1 DEF StoreOutcome, CopiesFit, observed
    <2>3. \A e \in Deliveries :
              \/ deliveries'[e] = Null \/ deliveries'[e] = deliveries[e]
              \/ KeptNext(e, deliveries'[e])
        BY <1>10, <2>1, <2>2, CountersKept DEF StoreOutcome, UpdateDelivery, TypeOK
    <2>4. \A v \in Workers : jobs'[v] = jobs[v] \/ jobs'[v].pc = "idle"
        BY <1>10, Freed DEF StoreOutcome
    <2>5. QED
        BY <2>2, <2>3, <2>4, CountersKept, CopiesWritten
<1>11. ASSUME NEW d \in Deliveries, CreateDelivery(d) \/ BecomesDue(d)
       PROVE  CopiesFit'
    <2>1. UNCHANGED <<calls, jobs, sent, accepted, retries>>
        BY <1>11 DEF CreateDelivery, BecomesDue, observed
    <2>2. KeptNext(d, deliveries'[d])
        <3>1. CASE CreateDelivery(d)
            <4>1. /\ deliveries'[d].attempts = 0
                  /\ deliveries'[d].status = "pending"
                BY <3>1 DEF CreateDelivery, TypeOK
            <4>2. sent'[d] \in Nat /\ retries'[d] \in Nat
                BY DEF TypeOK
            <4>3. QED
                BY <4>1, <4>2, WebhooksAssumption DEF KeptNext, Fits
        <3>2. CASE BecomesDue(d)
            <4>1. deliveries[d] \in DeliveryRow /\ Kept(d, deliveries[d])
                BY <3>2 DEF BecomesDue, TypeOK, CopiesFit
            <4>2. deliveries'[d] = [deliveries[d] EXCEPT !.due = TRUE]
                BY <3>2 DEF BecomesDue, TypeOK
            <4>3. /\ deliveries'[d].attempts = deliveries[d].attempts
                  /\ deliveries'[d].status = deliveries[d].status
                BY <4>1, <4>2 DEF DeliveryRow
            <4>4. QED
                BY <2>1, <4>1, <4>3 DEF KeptNext, Kept, Fits
        <3>3. QED
            BY <1>11, <3>1, <3>2
    <2>3. \A e \in Deliveries \ {d} : deliveries'[e] = deliveries[e]
        BY <1>11 DEF CreateDelivery, BecomesDue, TypeOK
    <2>4. QED
        BY <2>1, <2>2, <2>3, CountersKept, CopiesWritten
<1>12. QED
    BY <1>1, <1>2, <1>3, <1>4, <1>5, <1>6, <1>7, <1>8, <1>9, <1>10, <1>11
        DEF Next, CallStep, WorkerStep

(* However workers and manual retries overwrite each other, a delivery is  *)
(* given up only after the attempts that the dispatcher was configured     *)
(* with were really made, gets at most one more for each manual retry, and *)
(* is delivered only if a request was answered 2xx (handleFailure,         *)
(* RetryWebhookDelivery).                                                  *)
THEOREM Attempts == Spec => []AttemptsAreKept
<1>1. Init => TypeOK /\ RowFollowsAnswers /\ CopiesFit
    BY InitType DEF Init, RowFollowsAnswers, CopiesFit
<1>2. TypeOK /\ RowFollowsAnswers /\ CopiesFit /\ [Next]_vars
          => TypeOK' /\ RowFollowsAnswers' /\ CopiesFit'
    BY TypeStep, CopiesStep
<1>3. CopiesFit => AttemptsAreKept
    BY DEF CopiesFit, Kept, Fits, AttemptsAreKept
<1>4. QED
    BY <1>1, <1>2, <1>3, PTL DEF Spec

-----------------------------------------------------------------------------
(* Retries by hand.                                                        *)

(* A retry that nobody overlooked: no answer that would be stored over it  *)
(* is waiting.                                                             *)
RetriesFit ==
    \A d \in quiet :
        /\ \A w \in Workers : ~(jobs[w].pc = "answered" /\ jobs[w].id = d)
        /\ deliveries[d] # Null =>
               deliveries[d].status = "pending" /\ deliveries[d].due

(* A step that stores no answer over them keeps the retries that were      *)
(* stored, if it touches no row of theirs.                                 *)
LEMMA RetriesKept ==
    ASSUME RetriesFit, quiet' \subseteq quiet,
           \A w \in Workers : \/ jobs'[w].pc # "answered"
                              \/ jobs'[w] = jobs[w]
                              \/ jobs'[w].id \notin quiet',
           \A d \in quiet' : deliveries'[d] = Null \/ deliveries'[d] = deliveries[d]
    PROVE  RetriesFit'
BY DEF RetriesFit

LEMMA RetriesStep ==
    ASSUME TypeOK, RetriesFit, [Next]_vars
    PROVE  RetriesFit'
<1>1. CASE UNCHANGED vars
    BY <1>1, RetriesKept DEF vars, tables, observed
<1>2. CASE SubscriptionStep
    <2>1. UNCHANGED <<jobs, quiet>>
        BY <1>2 DEF SubscriptionStep, RegisterWebhook, DeleteWebhook, observed
    <2>2. \A d \in Deliveries :
              deliveries'[d] = Null \/ deliveries'[d] = deliveries[d]
        BY <1>2 DEF SubscriptionStep, RegisterWebhook, DeleteWebhook
    <2>3. QED
        BY <2>1, <2>2, RetriesKept DEF TypeOK
<1>3. ASSUME NEW r \in Calls, CallStep(r), ~RetryWrites(r)
      PROVE  RetriesFit'
    <2>1. UNCHANGED <<deliveries, jobs, quiet>>
        BY <1>3 DEF CallStep, UpdateReads, RotateReads, RetryReads, UpdateWrites,
            RotateWrites, WriteUnanswered, CallFails, tables, observed
    <2>2. QED
        BY <2>1, RetriesKept
<1>4. ASSUME NEW r \in Calls, RetryWrites(r)
      PROVE  RetriesFit'
    <2>1. PICK d \in Deliveries, read \in DeliveryRow :
              d = calls[r].id /\ read = calls[r].read
        BY <1>4, CallFields DEF RetryWrites, TypeOK
    <2>2. PICK row : row = Requeued(read)
        OBVIOUS
    <2>3. row.status = "pending" /\ row.due
        BY <2>2 DEF Requeued, DeliveryRow
    <2>4. /\ deliveries'[d] = Null \/ deliveries'[d] = row
          /\ \A e \in Deliveries \ {d} : deliveries'[e] = deliveries[e]
          /\ UNCHANGED jobs
        BY <1>4, <2>1, <2>2 DEF RetryWrites, UpdateDelivery, TypeOK
    <2>5. CASE Holding(d) = {}
        <3>1. quiet' = quiet \cup {d}
            BY <1>4, <2>1, <2>5 DEF RetryWrites
        <3>2. \A w \in Workers : ~(jobs[w].pc = "answered" /\ jobs[w].id = d)
            BY <2>5 DEF Holding
        <3>3. QED
            BY <2>3, <2>4, <3>1, <3>2 DEF RetriesFit, TypeOK
    <2>6. CASE Holding(d) # {}
        <3>1. quiet' = quiet \ {d}
            BY <1>4, <2>1, <2>6 DEF RetryWrites
        <3>2. QED
            BY <2>4, <3>1, RetriesKept DEF TypeOK
    <2>7. QED
        BY <2>5, <2>6
<1>5. ASSUME NEW w \in Workers, NEW d \in Deliveries, Take(w, d)
      PROVE  RetriesFit'
    <2>1. PICK j : j.pc = "taken" /\ jobs' = [jobs EXCEPT ![w] = j]
        BY <1>5, TakenJob
    <2>2. \A v \in Workers : jobs'[v].pc # "answered" \/ jobs'[v] = jobs[v]
        BY <2>1 DEF TypeOK
    <2>3. UNCHANGED <<deliveries, quiet>>
        BY <1>5 DEF Take, tables, observed
    <2>4. QED
        BY <2>2, <2>3, RetriesKept
<1>6. ASSUME NEW w \in Workers, NEW ok \in BOOLEAN, Request(w, ok)
      PROVE  RetriesFit'
    <2>1. quiet' = quiet \ {jobs[w].id} /\ UNCHANGED deliveries
        BY <1>6 DEF Request, tables
    <2>2. \A v \in Workers : jobs'[v] = jobs[v] \/ jobs'[v].id = jobs[w].id
        BY <1>6 DEF Request, TypeOK
    <2>3. QED
        BY <2>1, <2>2, RetriesKept
<1>7. ASSUME NEW w \in Workers, GiveUp(w) \/ StoreOutcome(w) \/ WorkerFails(w)
      PROVE  RetriesFit'
    <2>1. \A v \in Workers : jobs'[v] = jobs[v] \/ jobs'[v].pc = "idle"
        BY <1>7, Freed DEF GiveUp, StoreOutcome, WorkerFails
    <2>2. UNCHANGED quiet
        BY <1>7 DEF GiveUp, StoreOutcome, WorkerFails, observed
    <2>3. \A d \in quiet : deliveries'[d] = Null \/ deliveries'[d] = deliveries[d]
        BY <1>7 DEF RetriesFit, GiveUp, StoreOutcome, WorkerFails, UpdateDelivery,
            tables, TypeOK
    <2>4. QED
        BY <2>1, <2>2, <2>3, RetriesKept
<1>8. ASSUME NEW d \in Deliveries, CreateDelivery(d) \/ BecomesDue(d)
      PROVE  RetriesFit'
    <2>1. UNCHANGED <<jobs, quiet>>
        BY <1>8 DEF CreateDelivery, BecomesDue, observed
    <2>2. CASE CreateDelivery(d)
        <3>1. deliveries'[d].status = "pending" /\ deliveries'[d].due
            BY <2>2 DEF CreateDelivery, TypeOK
        <3>2. \A e \in Deliveries \ {d} : deliveries'[e] = deliveries[e]
            BY <2>2 DEF CreateDelivery, TypeOK
        <3>3. QED
            BY <2>1, <3>1, <3>2 DEF RetriesFit, TypeOK
    <2>3. CASE BecomesDue(d)
        <3>1. d \notin quiet
            BY <2>3 DEF BecomesDue, RetriesFit
        <3>2. \A e \in Deliveries \ {d} : deliveries'[e] = deliveries[e]
            BY <2>3 DEF BecomesDue, TypeOK
        <3>3. QED
            BY <2>1, <3>1, <3>2, RetriesKept DEF TypeOK
    <2>4. QED
        BY <1>8, <2>2, <2>3
<1>9. QED
    BY <1>1, <1>2, <1>3, <1>4, <1>5, <1>6, <1>7, <1>8 DEF Next, CallStep, WorkerStep

(* A retry by hand that was stored while no worker had the delivery is     *)
(* never lost: the delivery stays pending and due until a request is made  *)
(* for it (RetryWebhookDelivery, Dispatch).                                *)
THEOREM RetriesHold == Spec => []RetryHolds
<1>1. Init => RetriesFit
    BY DEF Init, RetriesFit
<1>2. TypeOK /\ RetriesFit /\ [Next]_vars => RetriesFit'
    BY RetriesStep
<1>3. RetriesFit => RetryHolds
    BY DEF RetriesFit, RetryHolds
<1>4. QED
    BY <1>1, <1>2, <1>3, TypeInvariant, PTL DEF Spec

-----------------------------------------------------------------------------
(* Repeated requests.                                                      *)

(* The 2xx answers that a delivery may still get.                          *)
Slack(d) == 1 + retries[d] + overlaps[d] + unrecorded[d] - accepted[d]

(* A worker that took the delivery while nobody had it; one whose answer   *)
(* leaves the delivery to be tried again; one whose answer ends it.        *)
Alone(w, d) == jobs[w].pc = "taken" /\ jobs[w].id = d /\ ~jobs[w].shared
Waits(w, d) == jobs[w].pc = "answered" /\ jobs[w].id = d /\ Live(jobs[w].write)
Ends(w, d) == jobs[w].pc = "answered" /\ jobs[w].id = d /\ ~Live(jobs[w].write)

(* The next worker to take the delivery may be alone with it.              *)
Open(d) ==
    /\ deliveries[d] # Null
    /\ Live(deliveries[d])
    /\ \A w \in Workers : ~Ends(w, d)

Account(d) ==
    /\ accepted[d] <= sent[d]
    /\ Slack(d) >= 0
    /\ \A w \in Workers : Alone(w, d) \/ Waits(w, d) => Slack(d) >= 1
    /\ \A v \in Workers, w \in Workers :
           Alone(v, d) /\ Waits(w, d) => Slack(d) >= 2
    /\ \A v \in Workers, w \in Workers : Alone(v, d) /\ Alone(w, d) => v = w
    /\ Open(d) => Slack(d) >= 1

AccountsFit == \A d \in Deliveries : Account(d)

LEMMA SlackType ==
    ASSUME TypeOK, NEW d \in Deliveries
    PROVE  Slack(d) \in Int
<1>1. /\ retries[d] \in Nat /\ overlaps[d] \in Nat /\ unrecorded[d] \in Nat
      /\ accepted[d] \in Nat
    BY WebhooksAssumption DEF TypeOK
<1>2. QED
    BY <1>1 DEF Slack

(* What a step may do to the account of a delivery without harm.           *)
LEMMA AccountKept ==
    ASSUME TypeOK, TypeOK', NEW d \in Deliveries, Account(d),
           accepted'[d] <= sent'[d],
           Slack(d)' >= Slack(d),
           \A w \in Workers : Alone(w, d)' => Alone(w, d),
           \A w \in Workers : Waits(w, d)' => Waits(w, d),
           Open(d)' => Open(d) \/ Slack(d)' >= 1
    PROVE  Account(d)'
<1>1. Slack(d) \in Int /\ Slack(d)' \in Int
    BY SlackType DEF Slack, TypeOK
<1>2. QED
    BY <1>1 DEF Account

(* The jobs of a delivery that a step leaves alone or ends.                *)
LEMMA JobsEnd ==
    ASSUME NEW d \in Deliveries, NEW w \in Workers,
           jobs'[w] = jobs[w] \/ jobs'[w].pc = "idle"
    PROVE  /\ Alone(w, d)' => Alone(w, d)
           /\ Waits(w, d)' => Waits(w, d)
           /\ Ends(w, d)' => Ends(w, d)
BY DEF Alone, Waits, Ends

LEMMA AccountUntouched ==
    ASSUME TypeOK, TypeOK', NEW d \in Deliveries, Account(d),
           UNCHANGED <<jobs, sent, accepted, retries, overlaps, unrecorded>>,
           \/ deliveries'[d] = Null
           \/ deliveries'[d] = deliveries[d]
           \/ deliveries[d] # Null /\ (Live(deliveries'[d]) => Live(deliveries[d]))
    PROVE  Account(d)'
<1>1. Slack(d)' = Slack(d) /\ Slack(d) \in Int
    BY SlackType DEF Slack
<1>2. \A w \in Workers : /\ Alone(w, d)' => Alone(w, d)
                         /\ Waits(w, d)' => Waits(w, d)
                         /\ Ends(w, d) => Ends(w, d)'
    BY DEF Alone, Waits, Ends
<1>3. Open(d)' => Open(d)
    BY <1>2 DEF Open
<1>4. accepted'[d] <= sent'[d]
    BY DEF Account
<1>5. QED
    BY <1>1, <1>2, <1>3, <1>4, AccountKept

(* Request: a worker that was alone uses up slack, one that was not does   *)
(* not, and an answer that is not 2xx keeps the slack for the next attempt.*)
LEMMA AccountOfRequest ==
    ASSUME TypeOK, TypeOK', AccountsFit,
           NEW w \in Workers, NEW ok \in BOOLEAN, Request(w, ok),
           NEW d \in Deliveries, d = jobs[w].id
    PROVE  Account(d)'
<1>1. PICK read \in DeliveryRow, shared \in BOOLEAN :
          read = jobs[w].read /\ shared = jobs[w].shared
    BY JobFields DEF Request, TypeOK
<1>2. PICK row : row = Outcome([read EXCEPT !.attempts = @ + 1], ok)
    OBVIOUS
<1>3. PICK j : /\ j.pc = "answered" /\ j.id = d /\ j.write = row
               /\ jobs' = [jobs EXCEPT ![w] = j]
    BY <1>1, <1>2 DEF Request
<1>4. jobs'[w] = j /\ \A v \in Workers \ {w} : jobs'[v] = jobs[v]
    BY <1>3 DEF TypeOK
<1>5. ok => ~Live(row)
    BY <1>2 DEF Outcome, Live, DeliveryRow
<1>6. /\ \A v \in Workers : Alone(v, d)' => v # w /\ Alone(v, d)
      /\ \A v \in Workers : Waits(v, d)' => (v = w /\ ~ok) \/ Waits(v, d)
      /\ ok => ~Open(d)'
    BY <1>3, <1>4, <1>5 DEF Alone, Waits, Ends, Open
<1>7. /\ retries[d] \in Nat /\ overlaps[d] \in Nat /\ unrecorded[d] \in Nat
      /\ accepted[d] \in Nat /\ sent[d] \in Nat
    BY WebhooksAssumption DEF TypeOK
<1>8. /\ accepted'[d] = IF ok THEN accepted[d] + 1 ELSE accepted[d]
      /\ overlaps'[d] = IF shared THEN overlaps[d] + 1 ELSE overlaps[d]
      /\ sent'[d] = sent[d] + 1
      /\ retries'[d] = retries[d] /\ unrecorded'[d] = unrecorded[d]
    BY <1>1 DEF Request, TypeOK
<1>9. Account(d) /\ Slack(d) \in Int /\ accepted'[d] <= sent'[d]
    BY <1>7, <1>8, SlackType DEF AccountsFit, Account
<1>10. CASE shared
    <2>1. Slack(d)' = IF ok THEN Slack(d) ELSE Slack(d) + 1
        BY <1>7, <1>8, <1>10 DEF Slack
    <2>2. CASE ok
        BY <1>6, <1>9, <2>1, <2>2, AccountKept
    <2>3. CASE ~ok
        BY <1>6, <1>9, <2>1, <2>3 DEF Account
    <2>4. QED
        BY <2>2, <2>3
<1>11. CASE ~shared
    <2>1. Slack(d)' = IF ok THEN Slack(d) - 1 ELSE Slack(d)
        BY <1>7, <1>8, <1>11 DEF Slack
    <2>2. Alone(w, d)
        BY <1>1, <1>11 DEF Alone, Request
    <2>3. /\ Slack(d) >= 1
          /\ \A v \in Workers : ~Alone(v, d)'
          /\ \A v \in Workers : Waits(v, d) => Slack(d) >= 2
        BY <1>6, <1>9, <2>2 DEF Account
    <2>4. CASE ok
        BY <1>6, <1>9, <2>1, <2>3, <2>4 DEF Account
    <2>5. CASE ~ok
        BY <1>6, <1>9, <2>1, <2>3, <2>5 DEF Account
    <2>6. QED
        BY <2>4, <2>5
<1>12. QED
    BY <1>10, <1>11

LEMMA AccountsStep ==
    ASSUME TypeOK, TypeOK', AccountsFit, [Next]_vars
    PROVE  AccountsFit'
<1> SUFFICES ASSUME NEW d \in Deliveries
             PROVE  Account(d)'
    BY DEF AccountsFit
<1>0. Account(d) /\ Slack(d) \in Int
    BY SlackType DEF AccountsFit
<1>1. CASE UNCHANGED vars
    BY <1>0, <1>1, AccountUntouched DEF vars, tables, observed
<1>2. CASE SubscriptionStep
    <2>1. UNCHANGED <<jobs, sent, accepted, retries, overlaps, unrecorded>>
        BY <1>2 DEF SubscriptionStep, RegisterWebhook, DeleteWebhook, observed
    <2>2. deliveries'[d] = Null \/ deliveries'[d] = deliveries[d]
        BY <1>2 DEF SubscriptionStep, RegisterWebhook, DeleteWebhook
    <2>3. QED
        BY <1>0, <2>1, <2>2, AccountUntouched
<1>3. ASSUME NEW r \in Calls, CallStep(r), ~RetryWrites(r)
      PROVE  Account(d)'
    <2>1. UNCHANGED <<deliveries, jobs, sent, accepted, retries, overlaps, unrecorded>>
        BY <1>3 DEF CallStep, UpdateReads, RotateReads, RetryReads, UpdateWrites,
            RotateWrites, WriteUnanswered, CallFails, tables, observed
    <2>2. QED
        BY <1>0, <2>1, AccountUntouched
<1>4. ASSUME NEW r \in Calls, RetryWrites(r)
      PROVE  Account(d)'
    <2>1. UNCHANGED <<jobs, sent, accepted, overlaps, unrecorded>>
        BY <1>4 DEF RetryWrites
    <2>2. CASE calls[r].id = d
        <3>1. retries'[d] = retries[d] + 1 /\ retries[d] \in Nat
            BY <1>4, <2>2 DEF RetryWrites, TypeOK
        <3>2. Slack(d)' = Slack(d) + 1
            <4>1. /\ overlaps[d] \in Nat /\ unrecorded[d] \in Nat
                  /\ accepted[d] \in Nat
                BY WebhooksAssumption DEF TypeOK
            <4>2. QED
                BY <2>1, <3>1, <4>1 DEF Slack
        <3>3. Slack(d)' >= 1 /\ accepted'[d] <= sent'[d]
            BY <1>0, <2>1, <3>2 DEF Account
        <3>4. \A w \in Workers : /\ Alone(w, d)' => Alone(w, d)
                                 /\ Waits(w, d)' => Waits(w, d)
            BY <2>1, JobsEnd
        <3>5. QED
            BY <1>0, <3>2, <3>3, <3>4, AccountKept
    <2>3. CASE calls[r].id # d
        <3>1. retries'[d] = retries[d] /\ deliveries'[d] = deliveries[d]
            BY <1>4, <2>3 DEF RetryWrites, UpdateDelivery, TypeOK
        <3>2. Slack(d)' = Slack(d)
            BY <2>1, <3>1 DEF Slack
        <3>3. \A w \in Workers : /\ Alone(w, d)' => Alone(w, d)
                                 /\ Waits(w, d)' => Waits(w, d)
            BY <2>1, JobsEnd
        <3>4. Open(d)' => Open(d)
            BY <2>1, <3>1 DEF Open, Ends
        <3>5. accepted'[d] <= sent'[d]
            BY <1>0, <2>1 DEF Account
        <3>6. QED
            BY <1>0, <3>2, <3>3, <3>4, <3>5, AccountKept
    <2>4. QED
        BY <2>2, <2>3
<1>5. ASSUME NEW w \in Workers, NEW e \in Deliveries, Take(w, e)
      PROVE  Account(d)'
    <2>1. PICK j : /\ j.pc = "taken" /\ j.id = e
                   /\ j.shared \in BOOLEAN /\ (j.shared <=> Holding(e) # {})
                   /\ jobs' = [jobs EXCEPT ![w] = j]
        BY <1>5, TakenJob
    <2>2. jobs'[w] = j /\ \A v \in Workers \ {w} : jobs'[v] = jobs[v]
        BY <2>1 DEF TypeOK
    <2>3. UNCHANGED <<deliveries, sent, accepted, retries, overlaps, unrecorded>>
        BY <1>5 DEF Take, tables, observed
    <2>4. jobs[w].pc = "idle"
        BY <1>5 DEF Take
    <2>5. /\ \A v \in Workers : Waits(v, d)' => Waits(v, d)
          /\ \A v \in Workers : Ends(v, d) => Ends(v, d)'
          /\ \A v \in Workers \ {w} : Alone(v, d)' => Alone(v, d)
        BY <2>1, <2>2, <2>4 DEF Waits, Ends, Alone
    <2>6. Open(d)' => Open(d)
        BY <2>3, <2>5 DEF Open
    <2>7. Slack(d)' = Slack(d) /\ accepted'[d] <= sent'[d]
        BY <1>0, <2>3 DEF Slack, Account
    <2>8. CASE ~Alone(w, d)'
        BY <1>0, <2>5, <2>6, <2>7, <2>8, AccountKept
    <2>9. CASE Alone(w, d)'
        <3>1. e = d /\ Holding(d) = {}
            BY <2>1, <2>2, <2>9 DEF Alone
        <3>2. \A v \in Workers : ~Alone(v, d) /\ ~Waits(v, d) /\ ~Ends(v, d)
            BY <3>1 DEF Holding, Alone, Waits, Ends
        <3>3. Open(d)
            BY <1>5, <3>1, <3>2 DEF Open, Take, Pending, Live
        <3>4. QED
            BY <1>0, <2>5, <2>7, <3>2, <3>3 DEF Account
    <2>10. QED
        BY <2>8, <2>9
<1>6. ASSUME NEW w \in Workers, NEW ok \in BOOLEAN, Request(w, ok)
      PROVE  Account(d)'
    <2>1. CASE jobs[w].id = d
        BY <1>6, <2>1, AccountOfRequest
    <2>2. CASE jobs[w].id # d
        <3>1. /\ UNCHANGED deliveries
              /\ sent'[d] = sent[d] /\ accepted'[d] = accepted[d]
              /\ retries'[d] = retries[d] /\ overlaps'[d] = overlaps[d]
              /\ unrecorded'[d] = unrecorded[d]
            BY <1>6, <2>2 DEF Request, TypeOK, tables
        <3>2. \A v \in Workers :
                  jobs'[v] = jobs[v] \/ (v = w /\ jobs'[v].id = jobs[w].id)
            BY <1>6 DEF Request, TypeOK
        <3>3. \A v \in Workers : /\ Alone(v, d)' => Alone(v, d)
                                 /\ Waits(v, d)' => Waits(v, d)
                                 /\ Ends(v, d) => Ends(v, d)'
            BY <2>2, <3>2 DEF Alone, Waits, Ends
        <3>4. Open(d)' => Open(d)
            BY <3>1, <3>3 DEF Open
        <3>5. Slack(d)' = Slack(d) /\ accepted'[d] <= sent'[d]
            BY <1>0, <3>1 DEF Slack, Account
        <3>6. QED
            BY <1>0, <3>3, <3>4, <3>5, AccountKept
    <2>3. QED
        BY <2>1, <2>2
<1>7. ASSUME NEW w \in Workers, GiveUp(w) \/ StoreOutcome(w) \/ WorkerFails(w)
      PROVE  Account(d)'
    <2>1. /\ \A v \in Workers : jobs'[v] = jobs[v] \/ jobs'[v].pc = "idle"
          /\ \A v \in Workers \ {w} : jobs'[v] = jobs[v]
        BY <1>7, Freed DEF GiveUp, StoreOutcome, WorkerFails
    <2>2. UNCHANGED <<sent, accepted, retries, overlaps>>
        BY <1>7 DEF GiveUp, StoreOutcome, WorkerFails, observed
    <2>3. /\ unrecorded[d] \in Nat /\ retries[d] \in Nat /\ overlaps[d] \in Nat
          /\ accepted[d] \in Nat
        BY WebhooksAssumption DEF TypeOK
    <2>4. /\ \A v \in Workers : Alone(v, d)' => Alone(v, d)
          /\ \A v \in Workers : Waits(v, d)' => Waits(v, d)
          /\ \A v \in Workers \ {w} : Ends(v, d) => Ends(v, d)'
        BY <2>1 DEF Alone, Waits, Ends
    <2>5. accepted'[d] <= sent'[d]
        BY <1>0, <2>2 DEF Account
    <2>6. CASE GiveUp(w)
        <3>1. UNCHANGED <<deliveries, unrecorded>> /\ ~Ends(w, d)
            BY <2>6 DEF GiveUp, Ends, tables, observed
        <3>2. Open(d)' => Open(d)
            BY <2>4, <3>1 DEF Open
        <3>3. Slack(d)' = Slack(d)
            BY <2>2, <3>1 DEF Slack
        <3>4. QED
            BY <1>0, <2>4, <2>5, <3>2, <3>3, AccountKept
    <2>7. CASE StoreOutcome(w)
        <3>1. Slack(d)' = Slack(d)
            BY <2>2, <2>7 DEF Slack, StoreOutcome, observed
        <3>2. CASE Waits(w, d)
            BY <1>0, <2>4, <2>5, <3>1, <3>2, AccountKept DEF Account
        <3>3. CASE Ends(w, d)
            <4>1. deliveries'[d] = Null \/ ~Live(deliveries'[d])
                BY <2>7, <3>3 DEF StoreOutcome, UpdateDelivery, Ends, TypeOK
            <4>2. QED
                BY <1>0, <2>4, <2>5, <3>1, <4>1, AccountKept DEF Open
        <3>4. CASE jobs[w].id # d
            <4>1. deliveries'[d] = deliveries[d] /\ ~Ends(w, d)
                BY <2>7, <3>4 DEF StoreOutcome, UpdateDelivery, Ends, TypeOK
            <4>2. Open(d)' => Open(d)
                BY <2>4, <4>1 DEF Open
            <4>3. QED
                BY <1>0, <2>4, <2>5, <3>1, <4>2, AccountKept
        <3>5. QED
            BY <2>7, <3>2, <3>3, <3>4 DEF StoreOutcome, Waits, Ends
    <2>8. CASE WorkerFails(w)
        <3>1. UNCHANGED deliveries
            BY <2>8 DEF WorkerFails, tables
        <3>2. CASE jobs[w].id = d
            <4>1. unrecorded'[d] = unrecorded[d] + 1
                BY <2>8, <3>2 DEF WorkerFails, TypeOK
            <4>2. Slack(d)' = Slack(d) + 1
                BY <2>2, <2>3, <4>1 DEF Slack
            <4>3. Slack(d)' >= 1
                BY <1>0, <4>2 DEF Account
            <4>4. QED
                BY <1>0, <2>4, <2>5, <4>2, <4>3, AccountKept
        <3>3. CASE jobs[w].id # d
            <4>1. unrecorded'[d] = unrecorded[d] /\ ~Ends(w, d)
                BY <2>8, <3>3 DEF WorkerFails, Ends, TypeOK
            <4>2. Open(d)' => Open(d)
                BY <2>4, <3>1, <4>1 DEF Open
            <4>3. Slack(d)' = Slack(d)
                BY <2>2, <4>1 DEF Slack
            <4>4. QED
                BY <1>0, <2>4, <2>5, <4>2, <4>3, AccountKept
        <3>4. QED
            BY <3>2, <3>3
    <2>9. QED
        BY <1>7, <2>6, <2>7, <2>8
<1>8. ASSUME NEW e \in Deliveries, CreateDelivery(e)
      PROVE  Account(d)'
    <2>1. UNCHANGED <<jobs, sent, accepted, retries, overlaps, unrecorded>>
        BY <1>8 DEF CreateDelivery, observed
    <2>2. CASE e # d
        <3>1. deliveries'[d] = deliveries[d]
            BY <1>8, <2>2 DEF CreateDelivery, TypeOK
        <3>2. QED
            BY <1>0, <2>1, <3>1, AccountUntouched
    <2>3. CASE e = d
        <3>1. /\ retries[d] \in Nat /\ overlaps[d] \in Nat
              /\ unrecorded[d] \in Nat /\ accepted[d] = 0
            BY <1>0, <1>8, <2>3, WebhooksAssumption DEF CreateDelivery, Account, TypeOK
        <3>2. Slack(d)' = Slack(d) /\ Slack(d) >= 1
            BY <2>1, <3>1 DEF Slack
        <3>3. \A w \in Workers : /\ Alone(w, d)' => Alone(w, d)
                                 /\ Waits(w, d)' => Waits(w, d)
            BY <2>1, JobsEnd
        <3>4. accepted'[d] <= sent'[d]
            BY <1>0, <2>1 DEF Account
        <3>5. QED
            BY <1>0, <3>2, <3>3, <3>4, AccountKept
    <2>4. QED
        BY <2>2, <2>3
<1>9. ASSUME NEW e \in Deliveries, BecomesDue(e)
      PROVE  Account(d)'
    <2>1. UNCHANGED <<jobs, sent, accepted, retries, overlaps, unrecorded>>
        BY <1>9 DEF BecomesDue, observed
    <2>2. \/ deliveries'[d] = deliveries[d]
          \/ deliveries[d] # Null /\ (Live(deliveries'[d]) => Live(deliveries[d]))
        <3>1. CASE e # d
            BY <1>9, <3>1 DEF BecomesDue, TypeOK
        <3>2. CASE e = d
            <4>1. deliveries[d] \in DeliveryRow
                BY <1>9, <3>2 DEF BecomesDue, TypeOK
            <4>2. deliveries'[d] = [deliveries[d] EXCEPT !.due = TRUE]
                BY <1>9, <3>2 DEF BecomesDue, TypeOK
            <4>3. QED
                BY <1>9, <3>2, <4>1, <4>2 DEF BecomesDue, DeliveryRow, Live
        <3>3. QED
            BY <3>1, <3>2
    <2>3. QED
        BY <1>0, <2>1, <2>2, AccountUntouched
<1>10. QED
    BY <1>1, <1>2, <1>3, <1>4, <1>5, <1>6, <1>7, <1>8, <1>9
        DEF Next, CallStep, WorkerStep

(* A tenant that answered 2xx gets the delivery again only for a manual    *)
(* retry, for a second worker that had taken it too, or for a request that *)
(* a crash or a failed UPDATE left unrecorded (Dispatch, handleFailure,    *)
(* RetryWebhookDelivery, ListPendingDeliveries).                           *)
THEOREM RepeatsAreBounded == Spec => []RepeatsBounded
<1>1. Init => AccountsFit
    BY DEF Init, AccountsFit, Account, Slack, Alone, Waits, Open
<1>2. TypeOK /\ TypeOK' /\ AccountsFit /\ [Next]_vars => AccountsFit'
    BY AccountsStep
<1>3. TypeOK /\ AccountsFit => RepeatsBounded
    <2> SUFFICES ASSUME TypeOK, AccountsFit, NEW d \in Deliveries
                 PROVE  accepted[d] <= 1 + retries[d] + overlaps[d] + unrecorded[d]
        BY DEF RepeatsBounded
    <2>1. /\ retries[d] \in Nat /\ overlaps[d] \in Nat
          /\ unrecorded[d] \in Nat /\ accepted[d] \in Nat
        BY WebhooksAssumption DEF TypeOK
    <2>2. QED
        BY <2>1 DEF AccountsFit, Account, Slack
<1>4. QED
    BY <1>1, <1>2, <1>3, TypeInvariant, PTL DEF Spec
=============================================================================
