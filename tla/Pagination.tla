----------------------------- MODULE Pagination -----------------------------
(* A client that follows next_page_token through one of the List RPCs      *)
(* while rows enter and leave what the request selects: they are inserted, *)
(* some of them later than a row with a later created_at, are deleted, or  *)
(* a column that the filter looks at is updated.  Most tables are paged by *)
(* the cursor (created_at, id), tenants and webhooks by an offset.         *)
EXTENDS Integers, Sequences, FiniteSets, SequencesExt

CONSTANTS Rows,         \* ids, numbers in the order of their UUIDs
          MaxStamp,     \* bound: created_at is in 1..MaxStamp
          AskedSizes,   \* page_size of the requests
          DefaultSize,  \* 20 in the code
          LargestSize,  \* 100 in the code
          MaxChanges    \* bound: rows that enter, and that leave, meanwhile

ASSUME PaginationAssumption ==
    /\ Rows \subseteq Nat /\ IsFiniteSet(Rows)
    /\ MaxStamp \in Nat /\ MaxChanges \in Nat
    /\ AskedSizes \subseteq Int
    /\ LargestSize \in Nat /\ DefaultSize \in 1..LargestSize

Listings ==
    {"members", "paymentLinks", "plans", "subscriptions", "tenantPayments",
     "memberPayments", "subscriptionPayments", "tenants", "webhooks",
     "balances"}

VARIABLES
    listing,  \* the RPC
    stamp,    \* created_at of each row, updated_at of a balance
    visible,  \* the rows that the request selects
    broken,   \* a connection broke off while the rows were read
    token,    \* the next_page_token in the client's hands
    state,    \* of the client
    (* Observations. *)
    times,    \* how often each row was returned, up to TimesCap
    stayed,   \* the rows selected ever since the first page
    entered, left

table == <<stamp, visible>>
vars == <<listing, table, broken, token, state, times, stayed, entered, left>>

TimesCap == MaxChanges + 2

NoToken == [kind |-> "none"]

Init ==
    /\ listing \in Listings
    /\ stamp \in [Rows -> 1..MaxStamp]
    /\ visible \in SUBSET Rows
    /\ broken = FALSE
    /\ token = NoToken
    /\ state = "first"
    /\ times = [r \in Rows |-> 0]
    /\ stayed = {}
    /\ entered = 0 /\ left = 0

-----------------------------------------------------------------------------
(* The repositories: one query that asks for a row more than the page has. *)

(* What a query may answer: the rows, in an order that its ORDER BY allows.*)
Answers(rows, before) ==
    {s \in SetToSeqs(rows) :
        \A i, j \in DOMAIN s : i < j => <<s[i], s[j]>> \in before}

(* LIMIT n OFFSET skipped.                                                 *)
Slice(s, skipped, n) ==
    SubSeq(s, skipped + 1, IF skipped + n > Len(s) THEN Len(s) ELSE skipped + n)

(* The page of an answer, and the token for the next one if there is a row *)
(* more than fits.                                                         *)
PageOf(got, size, next) ==
    [rows |-> Slice(got, 0, size),
     next |-> IF Len(got) > size THEN next ELSE NoToken]

(* Deviation: the row that did not fit becomes the cursor.                 *)
CursorBeyond(page) ==
    LET rest == {r \in visible : \A i \in DOMAIN page : page[i] # r}
        r == CHOOSE r \in rest :
                 \A q \in rest :
                     stamp[r] > stamp[q] \/ (stamp[r] = stamp[q] /\ r >= q)
    IN  [kind |-> "cursor", at |-> stamp[r], id |-> r]

(* encodeCursor of the last row of the page.                               *)
CursorAfter(page) ==
    LET r == Last(page) IN [kind |-> "cursor", at |-> stamp[r], id |-> r]

(* (created_at, id) < the cursor.  A token that does not decode is ignored.*)
Behind(t) ==
    IF t.kind # "cursor" THEN visible
    ELSE {r \in visible : stamp[r] < t.at \/ (stamp[r] = t.at /\ r < t.id)}

(* ORDER BY created_at DESC, id DESC                                       *)
NewestFirst ==
    {p \in Rows \X Rows : \/ stamp[p[1]] > stamp[p[2]]
                          \/ stamp[p[1]] = stamp[p[2]] /\ p[1] > p[2]}

(* ORDER BY created_at DESC: rows of one moment come in any order.         *)
NewestFirstAnyTie == {p \in Rows \X Rows : stamp[p[1]] >= stamp[p[2]]}

(* ORDER BY created_at ASC, id ASC                                         *)
OldestFirst == {p \in Rows \X Rows : <<p[2], p[1]>> \in NewestFirst}

KeysetPages(t, size) ==
    {PageOf(Slice(s, 0, size + 1), size, CursorAfter(Slice(s, 0, size))) :
        s \in Answers(Behind(t), NewestFirst)}

Offset(t) == IF t.kind = "offset" THEN t.offset ELSE 0

(* Deviation: the offset counts the row that did not fit.                  *)
OffsetPagesSkipping(t, size, answers) ==
    {PageOf(Slice(s, Offset(t), size + 1), size,
            [kind |-> "offset", offset |-> Offset(t) + size + 1]) :
        s \in answers}

OffsetPages(t, size, answers) ==
    {PageOf(Slice(s, Offset(t), size + 1), size,
            [kind |-> "offset", offset |-> Offset(t) + size]) :
        s \in answers}

AtLeastOne(size) == IF size <= 0 THEN DefaultSize ELSE size

InRange(size) == IF size <= 0 \/ size > LargestSize THEN DefaultSize ELSE size

MembersPages(t, size) == KeysetPages(t, AtLeastOne(size))
PaymentLinksPages(t, size) == KeysetPages(t, AtLeastOne(size))
PlansPages(t, size) == KeysetPages(t, AtLeastOne(size))
SubscriptionsPages(t, size) == KeysetPages(t, AtLeastOne(size))
PaymentsPages(t, size) == KeysetPages(t, InRange(size))
TenantsPages(t, size) ==
    OffsetPages(t, AtLeastOne(size), Answers(visible, OldestFirst))
WebhooksPages(t, size) ==
    OffsetPages(t, InRange(size), Answers(visible, NewestFirstAnyTie))

(* Rows.Err is not looked at: the rows read before the connection broke are *)
(* taken for all there are, and there is no token.                         *)
TruncatedWebhooksPages(t, size) ==
    {[rows |-> Slice(page.rows, 0, n), next |-> NoToken] :
        page \in WebhooksPages(t, size), n \in 0..InRange(size)}

(* The token makes no difference: every answer is the first page.          *)
BalancesPages(t, size) ==
    {PageOf(Slice(s, 0, InRange(size) + 1), InRange(size),
            CursorAfter(Slice(s, 0, InRange(size)))) :
        s \in Answers(visible, NewestFirstAnyTie)}

-----------------------------------------------------------------------------
(* The RPCs: each hands page_size and page_token to its repository.        *)

(* The client takes the page and goes on while there is a token.           *)
Deliver(pages) ==
    /\ state # "done"
    /\ \E page \in pages :
           /\ times' = [r \in Rows |->
                           IF Contains(page.rows, r) /\ times[r] < TimesCap
                           THEN times[r] + 1 ELSE times[r]]
           /\ token' = page.next
           /\ state' = IF page.next = NoToken THEN "done" ELSE "next"
    /\ stayed' = IF state = "first" THEN visible ELSE stayed
    /\ UNCHANGED <<listing, table, entered, left>>

Receive(pages) == Deliver(pages) /\ UNCHANGED broken

ListMembers(asked) ==
    listing = "members" /\ Receive(MembersPages(token, asked))

ListPaymentLinks(asked) ==
    listing = "paymentLinks" /\ Receive(PaymentLinksPages(token, asked))

ListPlans(asked) ==
    listing = "plans" /\ Receive(PlansPages(token, asked))

ListSubscriptions(asked) ==
    listing = "subscriptions" /\ Receive(SubscriptionsPages(token, asked))

ListTenantPayments(asked) ==
    listing = "tenantPayments" /\ Receive(PaymentsPages(token, asked))

ListPayments(asked) ==
    listing = "memberPayments" /\ Receive(PaymentsPages(token, asked))

ListSubscriptionPayments(asked) ==
    /\ listing = "subscriptionPayments"
    /\ Receive(PaymentsPages(token, asked))

ListTenants(asked) ==
    /\ listing = "tenants"
    /\ Receive(TenantsPages(token,
                   IF asked > LargestSize THEN LargestSize ELSE AtLeastOne(asked)))

ListWebhooks(asked) ==
    /\ listing = "webhooks"
    /\ \/ Receive(WebhooksPages(token, asked))
       \/ Deliver(TruncatedWebhooksPages(token, asked)) /\ broken' = TRUE

ListBalances(asked) ==
    listing = "balances" /\ Receive(BalancesPages(token, asked))

Fetch(asked) ==
    \/ ListMembers(asked) \/ ListPaymentLinks(asked)
    \/ ListPlans(asked) \/ ListSubscriptions(asked)
    \/ ListTenantPayments(asked) \/ ListPayments(asked)
    \/ ListSubscriptionPayments(asked)
    \/ ListTenants(asked) \/ ListWebhooks(asked) \/ ListBalances(asked)

(* Between two pages a row is inserted, or an update makes it selected.    *)
Enter(r) ==
    /\ state = "next"
    /\ r \notin visible
    /\ entered < MaxChanges
    /\ visible' = visible \cup {r}
    /\ entered' = entered + 1
    /\ UNCHANGED <<listing, stamp, broken, token, state, times, stayed, left>>

(* Between two pages a row is deleted, or an update hides it.              *)
Leave(r) ==
    /\ state = "next"
    /\ r \in visible
    /\ left < MaxChanges
    /\ visible' = visible \ {r}
    /\ stayed' = stayed \ {r}
    /\ left' = left + 1
    /\ UNCHANGED <<listing, stamp, broken, token, state, times, entered>>

(* Between two pages a settlement writes updated_at of a balance.          *)
CreditSettlement(r) ==
    /\ listing = "balances"
    /\ state = "next"
    /\ entered < MaxChanges
    /\ stamp' = [stamp EXCEPT ![r] = MaxStamp]
    /\ entered' = entered + 1
    /\ UNCHANGED <<listing, visible, broken, token, state, times, stayed, left>>

Next ==
    \/ \E asked \in AskedSizes : Fetch(asked)
    \/ \E r \in Rows : Enter(r) \/ Leave(r) \/ CreditSettlement(r)

Spec == Init /\ [][Next]_vars

(* The client asks for the next page as long as it gets a token.           *)
FairSpec == Spec /\ WF_vars(\E asked \in AskedSizes : Fetch(asked))

-----------------------------------------------------------------------------
ByCursor == listing \in Listings \ {"tenants", "webhooks", "balances"}
ByOffset == listing \in {"tenants", "webhooks"}

Missed == {r \in stayed : times[r] = 0}
(* Row r was shown for the n-th time.                                      *)
Repeats == {repeat \in Rows \X (2..TimesCap) : repeat[2] <= times[repeat[1]]}

(* Under the cursor no change of the table between two pages, not even of  *)
(* the row that the token was made from, shows a row twice or hides one    *)
(* that was there all the time.                                            *)
CursorIsExact ==
    ByCursor => /\ \A r \in Rows : times[r] <= 1
                /\ state = "done" => Missed = {}

(* An offset drifts: each row that enters between two pages may show one   *)
(* row again, each row that leaves may hide one that was there all the     *)
(* time, and nothing worse happens -- unless two webhooks were created in  *)
(* the same moment, whose order the query leaves open, or the last page of *)
(* webhooks broke off unnoticed.                                           *)
OffsetDrifts ==
    ByOffset /\ (listing = "webhooks" => IsInjective(stamp)) =>
        /\ Cardinality(Repeats) <= entered
        /\ state = "done" /\ ~broken => Cardinality(Missed) <= left

-----------------------------------------------------------------------------
(* What the documentation states and the program does not ensure.          *)

(* Whoever follows the tokens of a list reaches its end.                   *)
EveryListingEnds == <>(state = "done")
=============================================================================
