-------------------------- MODULE PaginationProofs --------------------------
(***************************************************************************)
(* Theorems about Pagination for every table, every page size and every    *)
(* number of changes: what a page of either kind returns, that the cursor  *)
(* is exact, and by how much the offset drifts.                            *)
(***************************************************************************)
EXTENDS Pagination, SequenceTheorems, FiniteSetTheorems, TLAPS

-----------------------------------------------------------------------------
(* What a query answers, and what a page keeps of it.                      *)

(* A sequence of len elements, and how many of them a LIMIT and OFFSET take.*)
IsLine(s, S, len) == s \in Seq(S) /\ Len(s) = len
Taken(len, skipped, n) ==
    IF skipped + n <= len THEN n ELSE IF skipped <= len THEN len - skipped ELSE 0

LEMMA AnswerIsListing ==
    ASSUME NEW S, IsFiniteSet(S), NEW s \in SetToSeqs(S)
    PROVE  \E n \in Nat :
              /\ n = Cardinality(S) /\ IsLine(s, S, n)
              /\ \A i \in 1..n : s[i] \in S
              /\ \A i, j \in 1..n : i # j => s[i] # s[j]
              /\ \A r \in S : \E i \in 1..n : s[i] = r
<1>1. PICK n \in Nat : n = Cardinality(S)
    BY FS_CardinalityType
<1>2. s \in [1..n -> S] /\ \A i, j \in 1..n : i # j => s[i] # s[j]
    BY <1>1 DEF SetToSeqs
<1>3. s \in Seq(S) /\ Len(s) = n
    BY <1>2, SeqDef
<1>4. s \in Injection(1..n, S)
    BY <1>2 DEF Injection, IsInjective
<1>5. IsFiniteSet(1..n) /\ Cardinality(1..n) = n
    BY FS_Interval
<1>6. s \in Surjection(1..n, S)
    BY <1>1, <1>4, <1>5, FS_Injection
<1>7. \A r \in S : \E i \in 1..n : s[i] = r
    BY <1>6 DEF Surjection
<1>8. QED
    BY <1>1, <1>2, <1>3, <1>7 DEF IsLine

LEMMA TakenType ==
    ASSUME NEW len \in Nat, NEW skipped \in Nat, NEW n \in Nat
    PROVE  Taken(len, skipped, n) \in Nat
BY DEF Taken

LEMMA SliceIs ==
    ASSUME NEW S, NEW s, NEW len \in Nat, IsLine(s, S, len),
           NEW skipped \in Nat, NEW n \in Nat
    PROVE  /\ IsLine(Slice(s, skipped, n), S, Taken(len, skipped, n))
           /\ \A i \in 1..Taken(len, skipped, n) :
                 Slice(s, skipped, n)[i] = s[skipped + i]
<1>1. PICK end \in Nat : end = IF skipped + n > len THEN len ELSE skipped + n
    OBVIOUS
<1>2. Slice(s, skipped, n) = SubSeq(s, skipped + 1, end)
    BY <1>1 DEF Slice, IsLine
<1>3. ASSUME NEW i \in skipped + 1 .. end
      PROVE  s[i] \in S
    <2>1. i \in 1 .. len
        BY <1>1
    <2>2. QED
        BY <2>1, ElementOfSeq DEF IsLine
<1>4. PICK cut : cut = SubSeq(s, skipped + 1, end)
    OBVIOUS
<1>5. /\ cut \in Seq(S)
      /\ Len(cut) = IF skipped + 1 <= end THEN end - (skipped + 1) + 1 ELSE 0
      /\ \A i \in 1 .. end - (skipped + 1) + 1 : cut[i] = s[(skipped + 1) + i - 1]
    <2>1. skipped + 1 \in Int /\ end \in Int
        OBVIOUS
    <2>2. QED
        BY <1>3, <1>4, <2>1, SubSeqProperties
<1>6. (IF skipped + 1 <= end THEN end - (skipped + 1) + 1 ELSE 0) = Taken(len, skipped, n)
    BY <1>1 DEF Taken
<1>7. ASSUME NEW i \in 1..Taken(len, skipped, n)
      PROVE  cut[i] = s[skipped + i]
    <2>1. i \in 1 .. end - (skipped + 1) + 1 /\ (skipped + 1) + i - 1 = skipped + i
        BY <1>1 DEF Taken
    <2>2. QED
        BY <1>5, <2>1
<1>8. QED
    BY <1>2, <1>4, <1>5, <1>6, <1>7 DEF IsLine

(* The page that a repository makes of an answer.                          *)
Paged(s, skipped, size, next) == PageOf(Slice(s, skipped, size + 1), size, next)

(* Row r is among those of the answer from the one after those skipped to   *)
(* the last one that fits.                                                 *)
FallsOn(s, len, skipped, size, r) ==
    \E i \in 1..len : skipped < i /\ i <= skipped + size /\ s[i] = r

(* A page holds the rows of the answer from the one after those skipped to *)
(* the last one that fits, and a token exactly if there are more.          *)
LEMMA PageIs ==
    ASSUME NEW S, NEW s, NEW len \in Nat, IsLine(s, S, len),
           NEW skipped \in Nat, NEW size \in Nat, NEW next,
           NEW page, page = Paged(s, skipped, size, next)
    PROVE  /\ \A r : Contains(page.rows, r) <=> FallsOn(s, len, skipped, size, r)
           /\ page.next = IF skipped + size < len THEN next ELSE NoToken
<1>1. PICK n \in Nat : n = size + 1
    OBVIOUS
<1>2. PICK l \in Nat : l = Taken(len, skipped, n)
    BY TakenType
<1>3. PICK m \in Nat : m = Taken(l, 0, size)
    BY TakenType
<1>4. PICK got : got = Slice(s, skipped, n)
    OBVIOUS
<1>5. IsLine(got, S, l) /\ \A i \in 1..l : got[i] = s[skipped + i]
    BY <1>2, <1>4, SliceIs
<1>6. PICK rows : rows = Slice(got, 0, size)
    OBVIOUS
<1>7. IsLine(rows, S, m) /\ \A i \in 1..m : rows[i] = got[0 + i]
    BY <1>3, <1>5, <1>6, SliceIs
<1>8. /\ m <= l
      /\ \A i \in 1..m : skipped + i \in 1..len /\ i <= size /\ 0 + i = i
      /\ \A j \in 1..len : skipped < j /\ j <= skipped + size =>
            j - skipped \in 1..m /\ skipped + (j - skipped) = j
      /\ l > size <=> skipped + size < len
    BY <1>1, <1>2, <1>3 DEF Taken
<1>9. \A i \in 1..m : rows[i] = s[skipped + i]
    <2>1. TAKE i \in 1..m
    <2>2. i \in 1..l /\ 0 + i = i
        BY <1>8
    <2>3. QED
        BY <1>5, <1>7, <2>2
<1>10. ASSUME NEW r
       PROVE  Contains(rows, r) <=>
                 \E i \in 1..len : skipped < i /\ i <= skipped + size /\ s[i] = r
    <2>1. Contains(rows, r) <=> \E i \in 1..m : rows[i] = r
        BY <1>7 DEF Contains, IsLine
    <2>2. ASSUME NEW i \in 1..m, rows[i] = r
          PROVE  \E j \in 1..len : skipped < j /\ j <= skipped + size /\ s[j] = r
        <3>1. PICK j \in 1..len : j = skipped + i
            BY <1>8
        <3>2. skipped < j /\ j <= skipped + size
            BY <1>8, <3>1
        <3>3. QED
            BY <1>9, <2>2, <3>1, <3>2
    <2>3. ASSUME NEW j \in 1..len, skipped < j, j <= skipped + size, s[j] = r
          PROVE  \E i \in 1..m : rows[i] = r
        <3>1. PICK i \in 1..m : skipped + i = j
            BY <1>8, <2>3
        <3>2. QED
            BY <1>9, <2>3, <3>1
    <2>4. QED
        BY <2>1, <2>2, <2>3
<1>11. /\ page.rows = rows
       /\ page.next = IF l > size THEN next ELSE NoToken
    BY <1>1, <1>4, <1>5, <1>6 DEF Paged, PageOf, IsLine
<1>12. QED
    BY <1>8, <1>10, <1>11 DEF FallsOn

LEMMA PageIsLine ==
    ASSUME NEW S, NEW s, NEW len \in Nat, IsLine(s, S, len),
           NEW skipped \in Nat, NEW size \in Nat, NEW next,
           NEW page, page = Paged(s, skipped, size, next)
    PROVE  \E m \in Nat : IsLine(page.rows, S, m)
<1>1. PICK l \in Nat : l = Taken(len, skipped, size + 1)
    BY TakenType
<1>2. PICK m \in Nat : m = Taken(l, 0, size)
    BY TakenType
<1>3. PICK got : got = Slice(s, skipped, size + 1)
    OBVIOUS
<1>4. IsLine(got, S, l)
    BY <1>1, <1>3, SliceIs
<1>5. IsLine(Slice(got, 0, size), S, m)
    BY <1>2, <1>4, SliceIs
<1>6. QED
    BY <1>3, <1>5 DEF Paged, PageOf

(* The last row of a full first page.                                      *)
LEMMA LastOfPage ==
    ASSUME NEW S, NEW s, NEW len \in Nat, IsLine(s, S, len),
           NEW size \in Nat, 0 < size, size < len
    PROVE  Last(Slice(s, 0, size)) = s[size]
<1>1. Taken(len, 0, size) = size /\ size \in 1..size /\ 0 + size = size
    BY DEF Taken
<1>2. IsLine(Slice(s, 0, size), S, size) /\ Slice(s, 0, size)[size] = s[0 + size]
    BY <1>1, SliceIs
<1>3. QED
    BY <1>1, <1>2 DEF Last, IsLine

LEMMA Sizes ==
    ASSUME PaginationAssumption, NEW asked \in Int
    PROVE  /\ AtLeastOne(asked) \in Nat /\ 0 < AtLeastOne(asked)
           /\ InRange(asked) \in Nat /\ 0 < InRange(asked)
           /\ LargestSize \in Nat /\ 0 < LargestSize
BY DEF PaginationAssumption, AtLeastOne, InRange

-----------------------------------------------------------------------------
(* What holds of every listing.                                            *)

Typed ==
    /\ listing \in Listings
    /\ stamp \in [Rows -> 1..MaxStamp]
    /\ visible \subseteq Rows
    /\ broken \in BOOLEAN
    /\ state \in {"first", "next", "done"}
    /\ times \in [Rows -> Nat]
    /\ stayed \subseteq visible
    /\ entered \in Nat /\ left \in Nat
    /\ state = "first" =>
          token = NoToken /\ stayed = {} /\ \A r \in Rows : times[r] = 0

(* What Deliver does to the variables, whatever the pages hold.            *)
LEMMA DeliverTyped ==
    ASSUME Typed, NEW pages, Deliver(pages), broken' \in BOOLEAN
    PROVE  Typed'
<1>1. PICK page \in pages :
          /\ times' = [r \in Rows |->
                          IF Contains(page.rows, r) /\ times[r] < TimesCap
                          THEN times[r] + 1 ELSE times[r]]
          /\ state' = IF page.next = NoToken THEN "done" ELSE "next"
    BY DEF Deliver
<1>2. times' \in [Rows -> Nat]
    BY <1>1 DEF Typed
<1>3. state' \in {"next", "done"}
    BY <1>1
<1>4. stayed' \subseteq visible'
    BY DEF Typed, Deliver, table
<1>5. UNCHANGED <<listing, stamp, visible, entered, left>>
    BY DEF Deliver, table
<1>6. QED
    BY <1>2, <1>3, <1>4, <1>5 DEF Typed

LEMMA TypedInvariant == PaginationAssumption => (Spec => []Typed)
<1> SUFFICES ASSUME PaginationAssumption PROVE Spec => []Typed
    OBVIOUS
<1>1. ASSUME Init PROVE Typed
    <2>1. times \in [Rows -> Nat] /\ \A r \in Rows : times[r] = 0
        BY <1>1 DEF Init
    <2>2. visible \subseteq Rows /\ stayed \subseteq visible
        BY <1>1 DEF Init
    <2>3. /\ listing \in Listings /\ stamp \in [Rows -> 1..MaxStamp]
          /\ broken \in BOOLEAN /\ token = NoToken /\ state = "first"
          /\ stayed = {} /\ entered \in Nat /\ left \in Nat
        BY <1>1 DEF Init
    <2>4. QED
        BY <2>1, <2>2, <2>3 DEF Typed
<1>2. ASSUME Typed, [Next]_vars PROVE Typed'
    <2>1. CASE UNCHANGED vars
        BY <1>2, <2>1 DEF Typed, vars, table
    <2>2. ASSUME NEW asked \in AskedSizes, Fetch(asked) PROVE Typed'
        <3>1. ASSUME NEW pages, Receive(pages) PROVE Typed'
            <4>1. broken' \in BOOLEAN /\ Deliver(pages)
                BY <1>2, <3>1 DEF Receive, Typed
            <4>2. QED
                BY <1>2, <4>1, DeliverTyped
        <3>2. ASSUME NEW pages, Deliver(pages), broken' = TRUE PROVE Typed'
            BY <1>2, <3>2, DeliverTyped
        <3>3. QED
            BY <2>2, <3>1, <3>2
               DEF Fetch, ListMembers, ListPaymentLinks, ListPlans,
                   ListSubscriptions, ListTenantPayments, ListPayments,
                   ListSubscriptionPayments, ListTenants, ListWebhooks,
                   ListBalances
    <2>3. ASSUME NEW r \in Rows, Enter(r) PROVE Typed'
        BY <1>2, <2>3 DEF Enter, Typed
    <2>4. ASSUME NEW r \in Rows, Leave(r) PROVE Typed'
        BY <1>2, <2>4 DEF Leave, Typed
    <2>5. ASSUME NEW r \in Rows, CreditSettlement(r) PROVE Typed'
        <3>1. MaxStamp \in 1..MaxStamp
            <4>1. stamp[r] \in 1..MaxStamp /\ MaxStamp \in Nat
                BY <1>2 DEF Typed, PaginationAssumption
            <4>2. QED
                BY <4>1
        <3>2. stamp' \in [Rows -> 1..MaxStamp]
            BY <1>2, <2>5, <3>1 DEF CreditSettlement, Typed
        <3>3. QED
            BY <1>2, <2>5, <3>2 DEF CreditSettlement, Typed
    <2>6. QED
        BY <1>2, <2>1, <2>2, <2>3, <2>4, <2>5 DEF Next
<1>3. QED
    BY <1>1, <1>2, PTL DEF Spec

-----------------------------------------------------------------------------
(* The cursor.                                                             *)

(* The order of the query puts row r behind the cursor t.                  *)
Past(t, r) == stamp[r] < t.at \/ (stamp[r] = t.at /\ r < t.id)

CursorOf(r) == [kind |-> "cursor", at |-> stamp[r], id |-> r]

(* A page of the keyset query shows only rows behind the token, and either *)
(* all of them, or those that the cursor of its last row leaves out.       *)
LEMMA KeysetPage ==
    ASSUME PaginationAssumption, Typed,
           NEW t, NEW size \in Nat, 0 < size, NEW page \in KeysetPages(t, size)
    PROVE  /\ \A r : Contains(page.rows, r) => r \in Behind(t)
           /\ \/ /\ page.next = NoToken
                 /\ \A r \in Behind(t) : Contains(page.rows, r)
              \/ \E last \in Behind(t) :
                    /\ page.next = CursorOf(last)
                    /\ \A r \in Behind(t) :
                          Contains(page.rows, r) <=> ~Past(page.next, r)
<1>1. PICK S : S = Behind(t)
    OBVIOUS
<1>2. S \subseteq Rows /\ IsFiniteSet(S)
    <2>1. S \subseteq Rows
        BY <1>1 DEF Behind, Typed
    <2>2. QED
        BY <2>1, FS_Subset DEF PaginationAssumption
<1>3. PICK s \in Answers(S, NewestFirst) :
          page = Paged(s, 0, size, CursorAfter(Slice(s, 0, size)))
    BY <1>1 DEF KeysetPages, Paged
<1>4. s \in SetToSeqs(S)
    BY DEF Answers
<1>5. PICK n \in Nat :
          /\ IsLine(s, S, n)
          /\ \A i \in 1..n : s[i] \in S
          /\ \A i, j \in 1..n : i # j => s[i] # s[j]
          /\ \A r \in S : \E i \in 1..n : s[i] = r
    BY <1>2, <1>4, AnswerIsListing
<1>6. \A i, j \in 1..n : i < j => <<s[i], s[j]>> \in NewestFirst
    <2>1. DOMAIN s = 1..n
        BY <1>5 DEF IsLine
    <2>2. QED
        BY <2>1 DEF Answers
<1>7. PICK next : next = CursorAfter(Slice(s, 0, size))
    OBVIOUS
<1>8. /\ \A r : Contains(page.rows, r) <=> FallsOn(s, n, 0, size, r)
      /\ page.next = IF 0 + size < n THEN next ELSE NoToken
    BY <1>3, <1>5, <1>7, PageIs
<1>9. \A i \in 1..n : Contains(page.rows, s[i]) <=> i <= size
    <2>1. TAKE i \in 1..n
    <2>2. \A j \in 1..n : s[j] = s[i] => j = i
        BY <1>5
    <2>3. QED
        BY <1>8, <2>2 DEF FallsOn
<1>10. \A r : Contains(page.rows, r) => r \in S
    BY <1>5, <1>8 DEF FallsOn
<1>11. CASE n <= size
    <2>1. page.next = NoToken
        BY <1>8, <1>11
    <2>2. \A r \in S : Contains(page.rows, r)
        <3>1. \A i \in 1..n : i <= size
            BY <1>11
        <3>2. QED
            BY <1>5, <1>9, <3>1
    <2>3. QED
        BY <1>1, <1>10, <2>1, <2>2
<1>12. CASE size < n
    <2>1. PICK last : last = s[size]
        OBVIOUS
    <2>2. size \in 1..n /\ last \in S
        BY <1>5, <1>12, <2>1
    <2>3. next = CursorOf(last) /\ page.next = next
        <3>1. Last(Slice(s, 0, size)) = last
            BY <1>5, <1>12, <2>1, LastOfPage
        <3>2. QED
            BY <1>7, <1>8, <1>12, <3>1 DEF CursorAfter, CursorOf
    <2>4. \A i \in 1..n : i <= size <=> ~Past(next, s[i])
        <3>1. TAKE i \in 1..n
        <3>2. /\ s[i] \in Nat /\ last \in Nat
              /\ stamp[s[i]] \in Nat /\ stamp[last] \in Nat
            <4>1. s[i] \in Rows /\ last \in Rows
                BY <1>2, <1>5, <2>2
            <4>2. stamp[s[i]] \in 1..MaxStamp /\ stamp[last] \in 1..MaxStamp
                BY <4>1 DEF Typed
            <4>3. MaxStamp \in Nat /\ Rows \subseteq Nat
                BY DEF PaginationAssumption
            <4>4. 1..MaxStamp \subseteq Nat
                BY <4>3
            <4>5. QED
                BY <4>1, <4>2, <4>3, <4>4
        <3>3. Past(next, s[i]) <=> \/ stamp[s[i]] < stamp[last]
                                   \/ stamp[s[i]] = stamp[last] /\ s[i] < last
            BY <2>3 DEF Past, CursorOf
        <3>4. CASE i = size
            BY <2>1, <3>2, <3>3, <3>4
        <3>5. CASE i < size
            <4>1. <<s[i], last>> \in NewestFirst
                BY <1>6, <2>1, <2>2, <3>5
            <4>2. stamp[s[i]] > stamp[last] \/ (stamp[s[i]] = stamp[last] /\ s[i] > last)
                BY <4>1 DEF NewestFirst
            <4>3. QED
                BY <3>2, <3>3, <3>5, <4>2
        <3>6. CASE size < i
            <4>1. <<last, s[i]>> \in NewestFirst
                BY <1>6, <2>1, <2>2, <3>6
            <4>2. stamp[last] > stamp[s[i]] \/ (stamp[last] = stamp[s[i]] /\ last > s[i])
                BY <4>1 DEF NewestFirst
            <4>3. QED
                BY <3>2, <3>3, <3>6, <4>2
        <3>7. QED
            BY <3>4, <3>5, <3>6
    <2>5. \A r \in S : Contains(page.rows, r) <=> ~Past(page.next, r)
        BY <1>5, <1>9, <2>3, <2>4
    <2>6. QED
        BY <1>1, <1>10, <2>2, <2>3, <2>5
<1>13. QED
    BY <1>11, <1>12

(* Every RPC that pages by the cursor answers a page of the keyset query.  *)
LEMMA CursorFetch ==
    ASSUME PaginationAssumption, ByCursor, NEW asked \in AskedSizes, Fetch(asked)
    PROVE  \E size \in Nat : 0 < size /\ Deliver(KeysetPages(token, size))
<1>1. PICK small \in Nat : small = AtLeastOne(asked) /\ 0 < small
    BY Sizes DEF PaginationAssumption
<1>2. PICK large \in Nat : large = InRange(asked) /\ 0 < large
    BY Sizes DEF PaginationAssumption
<1>3. \/ Deliver(KeysetPages(token, AtLeastOne(asked)))
      \/ Deliver(KeysetPages(token, InRange(asked)))
    BY DEF Fetch, ByCursor, Receive, ListMembers, ListPaymentLinks, ListPlans,
           ListSubscriptions, ListTenantPayments, ListPayments,
           ListSubscriptionPayments, ListTenants, ListWebhooks, ListBalances,
           MembersPages, PaymentLinksPages, PlansPages, SubscriptionsPages,
           PaymentsPages
<1>4. QED
    BY <1>1, <1>2, <1>3

(* The token separates the rows that were shown from those that were not:  *)
(* no row was shown twice, none that was shown is behind the token, and    *)
(* every row that was there all the time and was not shown is.             *)
Shown ==
    state = "next" =>
        /\ token.kind = "cursor" /\ token.at \in Nat /\ token.id \in Nat
        /\ \A r \in Rows : times[r] > 0 => ~Past(token, r)
        /\ \A r \in stayed : times[r] = 0 => Past(token, r)

CursorInv == ByCursor => Shown /\ CursorIsExact

LEMMA CursorFetchKeeps ==
    ASSUME PaginationAssumption, Typed, ByCursor, Shown, CursorIsExact,
           NEW asked \in AskedSizes, Fetch(asked)
    PROVE  Shown' /\ CursorIsExact'
<1>1. PICK size \in Nat : 0 < size /\ Deliver(KeysetPages(token, size))
    BY CursorFetch
<1>2. PICK page \in KeysetPages(token, size) :
          /\ times' = [r \in Rows |->
                          IF Contains(page.rows, r) /\ times[r] < TimesCap
                          THEN times[r] + 1 ELSE times[r]]
          /\ token' = page.next
          /\ state' = IF page.next = NoToken THEN "done" ELSE "next"
    BY <1>1 DEF Deliver
<1>3. /\ state \in {"first", "next"} /\ UNCHANGED <<listing, stamp, visible>>
      /\ stayed' = IF state = "first" THEN visible ELSE stayed
    BY <1>1 DEF Deliver, Typed, table
<1>4. PICK B : B = Behind(token)
    OBVIOUS
<1>5. /\ \A r : Contains(page.rows, r) => r \in B
      /\ \/ /\ page.next = NoToken
            /\ \A r \in B : Contains(page.rows, r)
         \/ \E last \in B :
               /\ page.next = CursorOf(last)
               /\ \A r \in B : Contains(page.rows, r) <=> ~Past(page.next, r)
    BY <1>1, <1>4, KeysetPage
<1>6. B = IF state = "first" THEN visible ELSE {r \in visible : Past(token, r)}
    BY <1>3, <1>4 DEF Behind, Shown, Typed, NoToken, Past
<1>7. B \subseteq Rows /\ \A r \in B : times[r] = 0
    <2>1. B \subseteq visible /\ visible \subseteq Rows
        BY <1>6 DEF Typed
    <2>2. ASSUME NEW r \in B PROVE times[r] = 0
        <3>1. times[r] \in Nat /\ r \in Rows
            BY <2>1 DEF Typed
        <3>2. CASE state = "first"
            BY <3>1, <3>2 DEF Typed
        <3>3. CASE state = "next"
            BY <1>6, <3>1, <3>3 DEF Shown
        <3>4. QED
            BY <1>3, <3>2, <3>3
    <2>3. QED
        BY <2>1, <2>2
<1>8. \A r \in stayed' : r \in visible /\ (times[r] = 0 => r \in B)
    BY <1>3, <1>6 DEF Typed, Shown
<1>9. \A r \in Rows : times'[r] = IF Contains(page.rows, r) THEN 1 ELSE times[r]
    <2>1. 0 < TimesCap
        BY DEF PaginationAssumption, TimesCap
    <2>2. QED
        BY <1>2, <1>5, <1>7, <2>1
<1>10. \A r \in Rows : times'[r] <= 1
    BY <1>9 DEF CursorIsExact
<1>11. CASE page.next = NoToken /\ \A r \in B : Contains(page.rows, r)
    <2>1. state' = "done"
        BY <1>2, <1>11
    <2>2. \A r \in stayed' : times'[r] # 0
        <3>1. TAKE r \in stayed'
        <3>2. r \in Rows /\ (times[r] = 0 => r \in B)
            BY <1>8 DEF Typed
        <3>3. QED
            BY <1>9, <1>11, <3>2
    <2>3. QED
        BY <1>10, <2>1, <2>2 DEF Shown, CursorIsExact, Missed
<1>12. CASE \E last \in B :
               /\ page.next = CursorOf(last)
               /\ \A r \in B : Contains(page.rows, r) <=> ~Past(page.next, r)
    <2>1. PICK last \in B :
              /\ page.next = CursorOf(last)
              /\ \A r \in B : Contains(page.rows, r) <=> ~Past(page.next, r)
        BY <1>12
    <2>2. token' = CursorOf(last) /\ state' = "next"
        BY <1>2, <2>1 DEF CursorOf, NoToken
    <2>3. Rows \subseteq Nat /\ \A r \in Rows : stamp[r] \in Nat
        <3>1. 1..MaxStamp \subseteq Nat /\ Rows \subseteq Nat
            BY DEF PaginationAssumption
        <3>2. QED
            BY <3>1 DEF Typed
    <2>4. token'.kind = "cursor" /\ token'.at = stamp[last] /\ token'.id = last
        BY <2>2 DEF CursorOf
    <2>5. \A r \in Rows : Past(token, r)' <=> Past(page.next, r)
        BY <1>2, <1>3 DEF Past
    <2>6. ASSUME NEW r \in Rows, times'[r] > 0 PROVE ~Past(page.next, r)
        <3>1. CASE Contains(page.rows, r)
            BY <1>5, <2>1, <3>1
        <3>2. CASE ~Contains(page.rows, r)
            <4>1. times[r] > 0
                BY <1>9, <2>6, <3>2
            <4>2. state = "next"
                BY <1>3, <4>1 DEF Typed
            <4>3. ~Past(token, r) /\ Past(token, last)
                BY <1>6, <4>1, <4>2 DEF Shown
            <4>4. /\ stamp[r] \in Nat /\ stamp[last] \in Nat
                  /\ r \in Nat /\ last \in Nat
                  /\ token.at \in Nat /\ token.id \in Nat
                BY <1>7, <2>3, <4>2 DEF Shown
            <4>5. QED
                BY <2>1, <4>3, <4>4 DEF Past, CursorOf
        <3>3. QED
            BY <3>1, <3>2
    <2>7. ASSUME NEW r \in stayed', times'[r] = 0 PROVE Past(page.next, r)
        <3>1. r \in Rows /\ (times[r] = 0 => r \in B)
            BY <1>8 DEF Typed
        <3>2. ~Contains(page.rows, r) /\ times[r] = 0
            BY <1>9, <2>7, <3>1
        <3>3. QED
            BY <2>1, <3>1, <3>2
    <2>8. stayed' \subseteq Rows
        BY <1>8 DEF Typed
    <2>9. Shown'
        <3>1. token'.at \in Nat /\ token'.id \in Nat
            BY <1>7, <2>3, <2>4
        <3>2. \A r \in Rows : times'[r] > 0 => ~Past(token, r)'
            BY <2>5, <2>6
        <3>3. \A r \in stayed' : times'[r] = 0 => Past(token, r)'
            BY <2>5, <2>7, <2>8
        <3>4. QED
            BY <2>4, <3>1, <3>2, <3>3 DEF Shown
    <2>10. QED
        BY <1>10, <2>2, <2>9 DEF CursorIsExact
<1>13. QED
    BY <1>5, <1>11, <1>12

(* CursorIsExact: whatever enters and leaves between two pages, a list     *)
(* under the cursor shows no row twice and, once it ends, has shown every  *)
(* row that was there from the first page to the last.                     *)
THEOREM CursorExact == PaginationAssumption => (Spec => []CursorIsExact)
<1> SUFFICES ASSUME PaginationAssumption PROVE Spec => []CursorIsExact
    OBVIOUS
<1>1. Init => CursorInv
    BY DEF Init, CursorInv, Shown, CursorIsExact
<1>2. ASSUME Typed, CursorInv, [Next]_vars PROVE CursorInv'
    <2> SUFFICES ASSUME ByCursor' PROVE Shown' /\ CursorIsExact'
        BY DEF CursorInv
    <2>1. CASE UNCHANGED vars
        BY <1>2, <2>1 DEF CursorInv, ByCursor, Shown, CursorIsExact, Missed, Past,
                          vars, table
    <2>2. ASSUME NEW asked \in AskedSizes, Fetch(asked)
          PROVE  Shown' /\ CursorIsExact'
        <3>1. listing' = listing
            BY <2>2 DEF Fetch, Receive, Deliver, ListMembers, ListPaymentLinks,
                        ListPlans, ListSubscriptions, ListTenantPayments,
                        ListPayments, ListSubscriptionPayments, ListTenants,
                        ListWebhooks, ListBalances
        <3>2. ByCursor /\ Shown /\ CursorIsExact
            BY <1>2, <3>1 DEF ByCursor, CursorInv
        <3>3. QED
            BY <1>2, <2>2, <3>2, CursorFetchKeeps
    <2>3. ASSUME NEW r \in Rows, Enter(r) PROVE Shown' /\ CursorIsExact'
        BY <1>2, <2>3 DEF Enter, CursorInv, ByCursor, Shown, CursorIsExact, Missed, Past
    <2>4. ASSUME NEW r \in Rows, Leave(r) PROVE Shown' /\ CursorIsExact'
        BY <1>2, <2>4 DEF Leave, CursorInv, ByCursor, Shown, CursorIsExact, Missed, Past
    <2>5. ASSUME NEW r \in Rows, CreditSettlement(r) PROVE Shown' /\ CursorIsExact'
        BY <2>5 DEF CreditSettlement, ByCursor
    <2>6. QED
        BY <1>2, <2>1, <2>2, <2>3, <2>4, <2>5 DEF Next
<1>3. CursorInv => CursorIsExact
    BY DEF CursorInv, CursorIsExact
<1>4. QED
    BY <1>1, <1>2, <1>3, TypedInvariant, PTL DEF Spec

-----------------------------------------------------------------------------
(* Ranks in a strict total order: how many elements come before one.       *)

StrictlyOrders(R, S) ==
    /\ \A x \in S : <<x, x>> \notin R
    /\ \A x, y, z \in S : <<x, y>> \in R /\ <<y, z>> \in R => <<x, z>> \in R
    /\ \A x, y \in S : x # y => <<x, y>> \in R \/ <<y, x>> \in R

Before(R, S, r) == {q \in S : <<q, r>> \in R}
Rank(R, S, r) == Cardinality(Before(R, S, r))
Leading(R, S, k) == {r \in S : Rank(R, S, r) < k}

LEMMA Cardinalities ==
    ASSUME NEW T, IsFiniteSet(T), NEW S \in SUBSET T
    PROVE  /\ IsFiniteSet(S) /\ Cardinality(S) \in Nat /\ Cardinality(T) \in Nat
           /\ Cardinality(S) <= Cardinality(T)
           /\ S # T => Cardinality(S) < Cardinality(T)
<1>1. IsFiniteSet(S) /\ Cardinality(S) <= Cardinality(T)
    BY FS_Subset
<1>2. Cardinality(S) = Cardinality(T) => S = T
    BY FS_Subset
<1>3. Cardinality(S) \in Nat /\ Cardinality(T) \in Nat
    BY <1>1, FS_CardinalityType
<1>4. QED
    BY <1>1, <1>2, <1>3

LEMMA AtMostOneMore ==
    ASSUME NEW T, IsFiniteSet(T), NEW y, NEW S \in SUBSET (T \cup {y})
    PROVE  /\ IsFiniteSet(S) /\ Cardinality(S) \in Nat /\ Cardinality(T) \in Nat
           /\ Cardinality(S) <= Cardinality(T) + 1
<1>1. PICK U : U = T \cup {y}
    OBVIOUS
<1>2. /\ IsFiniteSet(U)
      /\ Cardinality(U) = IF y \in T THEN Cardinality(T) ELSE Cardinality(T) + 1
    BY <1>1, FS_AddElement
<1>3. /\ IsFiniteSet(S) /\ Cardinality(S) \in Nat /\ Cardinality(U) \in Nat
      /\ Cardinality(S) <= Cardinality(U)
    BY <1>1, <1>2, Cardinalities
<1>4. Cardinality(T) \in Nat
    BY FS_CardinalityType
<1>5. QED
    BY <1>2, <1>3, <1>4

LEMMA RankType ==
    ASSUME NEW R, NEW S, IsFiniteSet(S), NEW r
    PROVE  IsFiniteSet(Before(R, S, r)) /\ Rank(R, S, r) \in Nat
<1>1. Before(R, S, r) \in SUBSET S
    BY DEF Before
<1>2. QED
    BY <1>1, Cardinalities DEF Rank

LEMMA RankGrows ==
    ASSUME NEW R, NEW S, IsFiniteSet(S), StrictlyOrders(R, S),
           NEW x \in S, NEW y \in S, <<x, y>> \in R
    PROVE  Rank(R, S, x) < Rank(R, S, y)
<1>1. PICK X, Y : X = Before(R, S, x) /\ Y = Before(R, S, y)
    OBVIOUS
<1>2. X \in SUBSET Y /\ x \in Y /\ x \notin X
    BY <1>1 DEF Before, StrictlyOrders
<1>3. IsFiniteSet(Y)
    BY <1>1, RankType
<1>4. Cardinality(X) < Cardinality(Y)
    BY <1>2, <1>3, Cardinalities
<1>5. QED
    BY <1>1, <1>4 DEF Rank

LEMMA RankIdentifies ==
    ASSUME NEW R, NEW S, IsFiniteSet(S), StrictlyOrders(R, S),
           NEW x \in S, NEW y \in S, Rank(R, S, x) = Rank(R, S, y)
    PROVE  x = y
<1>1. Rank(R, S, x) \in Nat
    BY RankType
<1>2. CASE <<x, y>> \in R
    <2>1. Rank(R, S, x) < Rank(R, S, y)
        BY <1>2, RankGrows
    <2>2. QED
        BY <1>1, <2>1
<1>3. CASE <<y, x>> \in R
    <2>1. Rank(R, S, y) < Rank(R, S, x)
        BY <1>3, RankGrows
    <2>2. QED
        BY <1>1, <2>1
<1>4. QED
    BY <1>2, <1>3 DEF StrictlyOrders

LEMMA RankWithOneMore ==
    ASSUME NEW R, NEW S, IsFiniteSet(S), NEW x, x \notin S, NEW r
    PROVE  Rank(R, S \cup {x}, r) =
              Rank(R, S, r) + (IF <<x, r>> \in R THEN 1 ELSE 0)
<1>1. PICK B : B = Before(R, S, r)
    OBVIOUS
<1>2. IsFiniteSet(B) /\ Cardinality(B) \in Nat /\ x \notin B
    BY <1>1, RankType DEF Rank, Before
<1>3. CASE <<x, r>> \in R
    <2>1. Before(R, S \cup {x}, r) = B \cup {x}
        BY <1>1, <1>3 DEF Before
    <2>2. Cardinality(B \cup {x}) = Cardinality(B) + 1
        BY <1>2, FS_AddElement
    <2>3. QED
        BY <1>1, <1>3, <2>1, <2>2 DEF Rank
<1>4. CASE <<x, r>> \notin R
    <2>1. Before(R, S \cup {x}, r) = B
        BY <1>1, <1>4 DEF Before
    <2>2. QED
        BY <1>1, <1>2, <1>4, <2>1 DEF Rank
<1>5. QED
    BY <1>3, <1>4

(* One more element x among those ordered: no other joins the k leading    *)
(* ones, and at most one element joins those that follow.                  *)
LEMMA LeadingWithOneMore ==
    ASSUME NEW R, NEW S, IsFiniteSet(S), NEW x, x \notin S,
           StrictlyOrders(R, S \cup {x}), NEW k \in Nat
    PROVE  /\ Leading(R, S \cup {x}, k) \subseteq Leading(R, S, k) \cup {x}
           /\ \E y : (S \cup {x}) \ Leading(R, S \cup {x}, k) \subseteq
                        (S \ Leading(R, S, k)) \cup {y}
<1>1. PICK T : T = S \cup {x}
    OBVIOUS
<1>2. IsFiniteSet(T) /\ StrictlyOrders(R, T) /\ StrictlyOrders(R, S)
    BY <1>1, FS_AddElement DEF StrictlyOrders
<1>3. ASSUME NEW r
      PROVE  /\ Rank(R, S, r) \in Nat /\ Rank(R, T, r) \in Nat
             /\ Rank(R, T, r) =
                   Rank(R, S, r) + (IF <<x, r>> \in R THEN 1 ELSE 0)
    BY <1>1, <1>2, RankType, RankWithOneMore
<1>4. Leading(R, T, k) \subseteq Leading(R, S, k) \cup {x}
    <2>1. ASSUME NEW r \in T, Rank(R, T, r) < k, r # x
          PROVE  r \in S /\ Rank(R, S, r) < k
        <3>1. PICK a, b : a = Rank(R, S, r) /\ b = Rank(R, T, r)
            OBVIOUS
        <3>2. a \in Nat /\ b \in Nat
            BY <1>3, <3>1
        <3>3. b = a \/ b = a + 1
            <4>1. b = a + (IF <<x, r>> \in R THEN 1 ELSE 0)
                BY <1>3, <3>1
            <4>2. QED
                BY <3>2, <4>1
        <3>4. a < k
            BY <2>1, <3>1, <3>2, <3>3
        <3>5. QED
            BY <1>1, <2>1, <3>1, <3>4
    <2>2. QED
        BY <2>1 DEF Leading
<1>5. PICK D : D = (T \ Leading(R, T, k)) \ (S \ Leading(R, S, k))
    OBVIOUS
<1>6. ASSUME NEW r \in D, r # x
      PROVE  /\ r \in T /\ Rank(R, T, r) = k /\ Rank(R, S, r) = k - 1
             /\ <<x, r>> \in R
    <2>1. r \in T /\ r \in S /\ ~(Rank(R, T, r) < k) /\ Rank(R, S, r) < k
        BY <1>1, <1>5, <1>6 DEF Leading
    <2>2. QED
        BY <1>3, <2>1
<1>7. ASSUME x \in D PROVE ~(Rank(R, T, x) < k)
    BY <1>5, <1>7 DEF Leading
<1>8. ASSUME NEW r \in D, NEW q \in D PROVE r = q
    <2>1. CASE r # x /\ q # x
        <3>1. Rank(R, T, r) = Rank(R, T, q) /\ r \in T /\ q \in T
            BY <1>6, <2>1
        <3>2. QED
            BY <1>2, <3>1, RankIdentifies
    <2>2. ASSUME NEW z \in D, z # x, x \in D PROVE FALSE
        <3>1. z \in T /\ x \in T /\ Rank(R, T, z) = k /\ <<x, z>> \in R
            BY <1>1, <1>6, <2>2
        <3>2. Rank(R, T, x) < Rank(R, T, z)
            BY <1>2, <3>1, RankGrows
        <3>3. QED
            BY <1>7, <2>2, <3>1, <3>2
    <2>3. QED
        BY <2>1, <2>2
<1>9. \E y : D \subseteq {y}
    BY <1>8
<1>10. QED
    BY <1>1, <1>4, <1>5, <1>9

(* One element x less: nothing joins those that follow the k leading ones, *)
(* and at most one element joins the leading ones.                         *)
LEMMA LeadingWithOneLess ==
    ASSUME NEW R, NEW S, IsFiniteSet(S), NEW x \in S, StrictlyOrders(R, S),
           NEW k \in Nat
    PROVE  /\ (S \ {x}) \ Leading(R, S \ {x}, k) \subseteq S \ Leading(R, S, k)
           /\ \E y : Leading(R, S \ {x}, k) \subseteq Leading(R, S, k) \cup {y}
<1>1. PICK T : T = S \ {x}
    OBVIOUS
<1>2. S = T \cup {x} /\ x \notin T /\ IsFiniteSet(T)
    BY <1>1, FS_RemoveElement
<1>3. /\ Leading(R, S, k) \subseteq Leading(R, T, k) \cup {x}
      /\ \E y : S \ Leading(R, S, k) \subseteq (T \ Leading(R, T, k)) \cup {y}
    BY <1>2, LeadingWithOneMore
<1>4. Leading(R, T, k) \subseteq T
    BY DEF Leading
<1>5. QED
    BY <1>1, <1>2, <1>3, <1>4

(* The first n elements of s are those of S in the order R.                *)
Sorted(s, n, S, R) ==
    /\ \A i \in 1..n : s[i] \in S
    /\ \A r \in S : \E i \in 1..n : s[i] = r
    /\ \A i, j \in 1..n : i < j => <<s[i], s[j]>> \in R

(* In an answer that follows the order, the i-th row has rank i - 1.       *)
LEMMA RankInLine ==
    ASSUME NEW R, NEW S, StrictlyOrders(R, S), NEW s, NEW n \in Nat,
           Sorted(s, n, S, R), NEW i \in 1..n
    PROVE  Rank(R, S, s[i]) = i - 1
<1> USE DEF Sorted
<1>1. PICK m \in Nat : m = i - 1
    OBVIOUS
<1>2. PICK B : B = Before(R, S, s[i])
    OBVIOUS
<1>3. \A j \in 1..n : s[j] \in B <=> j < i
    <2>1. TAKE j \in 1..n
    <2>2. CASE j < i
        BY <1>2, <2>2 DEF Before
    <2>3. CASE j = i
        BY <1>2, <2>3 DEF Before, StrictlyOrders
    <2>4. CASE i < j
        <3>1. <<s[i], s[j]>> \in R /\ s[i] \in S /\ s[j] \in S
            BY <2>4
        <3>2. <<s[j], s[i]>> \notin R
            BY <3>1 DEF StrictlyOrders
        <3>3. QED
            BY <1>2, <2>4, <3>2 DEF Before
    <2>5. QED
        BY <2>2, <2>3, <2>4
<1>4. PICK f : f = [j \in 1..m |-> s[j]]
    OBVIOUS
<1>5. \A j \in 1..m : j \in 1..n /\ j < i
    BY <1>1
<1>6. f \in [1..m -> B] /\ \A j \in 1..m : f[j] = s[j]
    BY <1>3, <1>4, <1>5
<1>7. \A j, l \in 1..m : j # l => s[j] # s[l]
    <2>1. TAKE j, l \in 1..m
    <2>2. s[j] \in S /\ s[l] \in S /\ <<s[j], s[j]>> \notin R
        BY <1>5 DEF StrictlyOrders
    <2>3. CASE j < l
        BY <1>5, <2>2, <2>3
    <2>4. CASE l < j
        BY <1>5, <2>2, <2>4
    <2>5. QED
        BY <2>3, <2>4
<1>8. \A b \in B : \E j \in 1..m : f[j] = b
    <2>1. TAKE b \in B
    <2>2. b \in S
        BY <1>2 DEF Before
    <2>3. PICK j \in 1..n : s[j] = b
        BY <2>2
    <2>4. j \in 1..m
        <3>1. j < i
            BY <1>3, <2>3
        <3>2. QED
            BY <1>1, <3>1
    <2>5. QED
        BY <1>6, <2>3, <2>4
<1>9. f \in Bijection(1..m, B)
    BY <1>6, <1>7, <1>8 DEF Bijection, Injection, Surjection, IsInjective
<1>10. Cardinality(B) = m
    BY <1>9, FS_CountingElements DEF ExistsBijection
<1>11. QED
    BY <1>1, <1>2, <1>10 DEF Rank

-----------------------------------------------------------------------------
(* The offset.                                                             *)

(* The order in which ListTenants and ListWebhooks go through the rows.    *)
Order ==
    IF listing = "tenants" THEN OldestFirst
    ELSE {p \in Rows \X Rows : stamp[p[1]] > stamp[p[2]]}

(* The case that OffsetDrifts is about: no two webhooks of one moment.     *)
Orderly == ByOffset /\ (listing = "webhooks" => IsInjective(stamp))

(* The rows that precede the offset n, in the table as it is.              *)
Ahead(n) == Leading(Order, visible, n)

LEMMA Stamps ==
    ASSUME PaginationAssumption, Typed
    PROVE  Rows \subseteq Nat /\ \A r \in Rows : stamp[r] \in Nat
<1>1. 1..MaxStamp \subseteq Nat /\ Rows \subseteq Nat
    BY DEF PaginationAssumption
<1>2. QED
    BY <1>1 DEF Typed

LEMMA OrderIsStrict ==
    ASSUME PaginationAssumption, Typed, Orderly, NEW S \in SUBSET Rows
    PROVE  StrictlyOrders(Order, S)
<1>1. ASSUME NEW a \in Rows, NEW b \in Rows
      PROVE  /\ a \in Nat /\ b \in Nat /\ stamp[a] \in Nat /\ stamp[b] \in Nat
             /\ listing = "tenants" =>
                   (<<a, b>> \in Order <=>
                       \/ stamp[b] > stamp[a]
                       \/ (stamp[b] = stamp[a] /\ b > a))
             /\ listing # "tenants" =>
                   /\ <<a, b>> \in Order <=> stamp[a] > stamp[b]
                   /\ a # b => stamp[a] # stamp[b]
    <2>1. a \in Nat /\ b \in Nat /\ stamp[a] \in Nat /\ stamp[b] \in Nat
        BY Stamps
    <2>2. CASE listing = "tenants"
        BY <2>1, <2>2 DEF Order, OldestFirst, NewestFirst
    <2>3. CASE listing # "tenants"
        <3>1. <<a, b>> \in Order <=> stamp[a] > stamp[b]
            BY <2>3 DEF Order
        <3>2. a # b => stamp[a] # stamp[b]
            BY <2>3 DEF Orderly, ByOffset, IsInjective, Typed
        <3>3. QED
            BY <2>1, <2>3, <3>1, <3>2
    <2>4. QED
        BY <2>2, <2>3
<1>2. CASE listing = "tenants"
    <2>1. \A x \in S : <<x, x>> \notin Order
        BY <1>1, <1>2
    <2>2. \A x, y, z \in S :
             <<x, y>> \in Order /\ <<y, z>> \in Order => <<x, z>> \in Order
        BY <1>1, <1>2
    <2>3. \A x, y \in S : x # y => <<x, y>> \in Order \/ <<y, x>> \in Order
        BY <1>1, <1>2
    <2>4. QED
        BY <2>1, <2>2, <2>3 DEF StrictlyOrders
<1>3. CASE listing # "tenants"
    <2>1. \A x \in S : <<x, x>> \notin Order
        BY <1>1, <1>3
    <2>2. \A x, y, z \in S :
             <<x, y>> \in Order /\ <<y, z>> \in Order => <<x, z>> \in Order
        BY <1>1, <1>3
    <2>3. \A x, y \in S : x # y => <<x, y>> \in Order \/ <<y, x>> \in Order
        BY <1>1, <1>3
    <2>4. QED
        BY <2>1, <2>2, <2>3 DEF StrictlyOrders
<1>4. QED
    BY <1>2, <1>3

(* What the two queries of these RPCs may answer.                          *)
OffsetAnswers ==
    Answers(visible, IF listing = "tenants" THEN OldestFirst ELSE NewestFirstAnyTie)

(* A page of an offset query shows the rows whose rank falls on it, and    *)
(* the token adds its size to the offset unless there is no row behind it. *)
LEMMA OffsetPage ==
    ASSUME PaginationAssumption, Typed, Orderly,
           NEW t, NEW k \in Nat, k = Offset(t), NEW size \in Nat, 0 < size,
           NEW page \in OffsetPages(t, size, OffsetAnswers)
    PROVE  /\ \A r : Contains(page.rows, r) <=>
                        r \in Ahead(k + size) /\ r \notin Ahead(k)
           /\ \/ page.next = NoToken /\ visible \subseteq Ahead(k + size)
              \/ page.next = [kind |-> "offset", offset |-> k + size]
           /\ \E m \in Nat : IsLine(page.rows, visible, m)
<1>1. IsFiniteSet(visible) /\ visible \subseteq Rows
    BY FS_Subset DEF PaginationAssumption, Typed
<1>2. StrictlyOrders(Order, visible)
    BY <1>1, OrderIsStrict
<1>3. PICK next : next = [kind |-> "offset", offset |-> k + size]
    OBVIOUS
<1>4. PICK s \in OffsetAnswers : page = Paged(s, k, size, next)
    BY <1>3 DEF OffsetPages, Paged
<1>5. s \in SetToSeqs(visible)
    BY DEF OffsetAnswers, Answers
<1>6. PICK n \in Nat :
          /\ IsLine(s, visible, n)
          /\ \A i \in 1..n : s[i] \in visible
          /\ \A i, j \in 1..n : i # j => s[i] # s[j]
          /\ \A r \in visible : \E i \in 1..n : s[i] = r
    BY <1>1, <1>5, AnswerIsListing
<1>7. \A i, j \in 1..n : i < j => <<s[i], s[j]>> \in Order
    <2>1. TAKE i, j \in 1..n
    <2>2. HAVE i < j
    <2>3. i \in DOMAIN s /\ j \in DOMAIN s
        BY <1>6 DEF IsLine
    <2>4. CASE listing = "tenants"
        BY <2>2, <2>3, <2>4 DEF OffsetAnswers, Answers, Order
    <2>5. CASE listing # "tenants"
        <3>1. <<s[i], s[j]>> \in NewestFirstAnyTie
            BY <2>2, <2>3, <2>5 DEF OffsetAnswers, Answers
        <3>2. PICK a \in Rows, b \in Rows : a = s[i] /\ b = s[j] /\ a # b
            <4>1. s[i] \in Rows /\ s[j] \in Rows
                BY <1>1, <1>6
            <4>2. i # j
                BY <2>2
            <4>3. s[i] # s[j]
                BY <1>6, <4>2
            <4>4. QED
                BY <4>1, <4>3
        <3>3. stamp[a] >= stamp[b]
            BY <3>1, <3>2 DEF NewestFirstAnyTie
        <3>4. stamp[a] # stamp[b] /\ stamp[a] \in Nat /\ stamp[b] \in Nat
            BY <2>5, <3>2, Stamps DEF Orderly, ByOffset, IsInjective, Typed
        <3>5. stamp[a] > stamp[b]
            BY <3>3, <3>4
        <3>6. QED
            BY <2>5, <3>2, <3>5 DEF Order
    <2>6. QED
        BY <2>4, <2>5
<1>8. \A i \in 1..n : Rank(Order, visible, s[i]) = i - 1
    <2>1. Sorted(s, n, visible, Order)
        BY <1>6, <1>7 DEF Sorted
    <2>2. QED
        BY <1>2, <2>1, RankInLine
<1>9. /\ \A r : Contains(page.rows, r) <=> FallsOn(s, n, k, size, r)
      /\ page.next = IF k + size < n THEN next ELSE NoToken
    BY <1>4, <1>6, PageIs
<1>10. \E m \in Nat : IsLine(page.rows, visible, m)
    BY <1>4, <1>6, PageIsLine
<1>11. ASSUME NEW i \in 1..n, NEW j \in Nat
       PROVE  s[i] \in Ahead(j) <=> i <= j
    <2>1. s[i] \in visible /\ Rank(Order, visible, s[i]) = i - 1
        BY <1>6, <1>8
    <2>2. s[i] \in Ahead(j) <=> i - 1 < j
        BY <2>1 DEF Ahead, Leading
    <2>3. QED
        BY <2>2
<1>12. k + size \in Nat
    OBVIOUS
<1>13. ASSUME NEW r
       PROVE  Contains(page.rows, r) <=> r \in Ahead(k + size) /\ r \notin Ahead(k)
    <2>1. CASE r \in visible
        <3>1. PICK i \in 1..n : s[i] = r
            BY <1>6, <2>1
        <3>2. \A j \in 1..n : s[j] = r => j = i
            BY <1>6, <3>1
        <3>3. Contains(page.rows, r) <=> k < i /\ i <= k + size
            BY <1>9, <3>1, <3>2 DEF FallsOn
        <3>4. (r \in Ahead(k) <=> i <= k) /\ (r \in Ahead(k + size) <=> i <= k + size)
            BY <1>11, <1>12, <3>1
        <3>5. QED
            BY <3>3, <3>4
    <2>2. CASE r \notin visible
        BY <1>6, <1>9, <2>2 DEF FallsOn, Ahead, Leading
    <2>3. QED
        BY <2>1, <2>2
<1>14. CASE n <= k + size
    <2>1. visible \subseteq Ahead(k + size)
        <3>1. \A i \in 1..n : i <= k + size
            BY <1>14
        <3>2. QED
            BY <1>6, <1>11, <1>12, <3>1
    <2>2. page.next = NoToken
        BY <1>9, <1>14
    <2>3. QED
        BY <1>13, <1>10, <2>1, <2>2
<1>15. CASE k + size < n
    BY <1>3, <1>9, <1>13, <1>15, <1>10
<1>16. QED
    BY <1>14, <1>15

(* What a response of ListTenants or ListWebhooks does: it shows rows of   *)
(* its page, and all of them unless the connection broke off.              *)
Showing(rows, size) ==
    /\ rows \subseteq Ahead(Offset(token) + size) \ Ahead(Offset(token))
    /\ times' = [r \in Rows |-> IF r \in rows /\ times[r] < TimesCap
                                THEN times[r] + 1 ELSE times[r]]
    /\ state # "done"
    /\ stayed' = IF state = "first" THEN visible ELSE stayed
    /\ UNCHANGED <<listing, stamp, visible, entered, left>>
    /\ \/ state' = "done" /\ broken' = TRUE
       \/ /\ rows = Ahead(Offset(token) + size) \ Ahead(Offset(token))
          /\ \/ state' = "done" /\ visible \subseteq Ahead(Offset(token) + size)
             \/ /\ state' = "next"
                /\ token' = [kind |-> "offset", offset |-> Offset(token) + size]

LEMMA OffsetFetch ==
    ASSUME PaginationAssumption, Typed, Orderly, Offset(token) \in Nat,
           NEW asked \in AskedSizes, Fetch(asked)
    PROVE  \E size \in Nat, rows \in SUBSET Rows : 0 < size /\ Showing(rows, size)
<1>1. PICK k \in Nat : k = Offset(token)
    OBVIOUS
<1>2. PICK large \in Nat : large = InRange(asked) /\ 0 < large
    BY Sizes DEF PaginationAssumption
<1>3. PICK tenantsSize \in Nat :
          /\ 0 < tenantsSize
          /\ tenantsSize =
                AtLeastOne(IF asked > LargestSize THEN LargestSize ELSE AtLeastOne(asked))
    <2>1. asked \in Int
        BY DEF PaginationAssumption
    <2>2. AtLeastOne(asked) \in Int /\ LargestSize \in Int
        BY <2>1, Sizes
    <2>3. PICK limited \in Int :
              limited = IF asked > LargestSize THEN LargestSize ELSE AtLeastOne(asked)
        BY <2>2
    <2>4. AtLeastOne(limited) \in Nat /\ 0 < AtLeastOne(limited)
        BY Sizes
    <2>5. QED
        BY <2>3, <2>4
<1>4. Ahead(k) \subseteq visible /\ visible \subseteq Rows /\ \A n : Ahead(n) \subseteq visible
    BY DEF Ahead, Leading, Typed
<1>5. ASSUME NEW size \in Nat, 0 < size,
             Receive(OffsetPages(token, size, OffsetAnswers))
      PROVE  \E rows \in SUBSET Rows : Showing(rows, size)
    <2>1. PICK page \in OffsetPages(token, size, OffsetAnswers) :
              /\ times' = [r \in Rows |->
                              IF Contains(page.rows, r) /\ times[r] < TimesCap
                              THEN times[r] + 1 ELSE times[r]]
              /\ token' = page.next
              /\ state' = IF page.next = NoToken THEN "done" ELSE "next"
        BY <1>5 DEF Receive, Deliver
    <2>2. /\ \A r : Contains(page.rows, r) <=> r \in Ahead(k + size) /\ r \notin Ahead(k)
          /\ \/ page.next = NoToken /\ visible \subseteq Ahead(k + size)
             \/ page.next = [kind |-> "offset", offset |-> k + size]
        BY <1>1, <1>5, OffsetPage
    <2>3. PICK rows : rows = Ahead(k + size) \ Ahead(k)
        OBVIOUS
    <2>4. times' = [r \in Rows |-> IF r \in rows /\ times[r] < TimesCap
                                   THEN times[r] + 1 ELSE times[r]]
        BY <2>1, <2>2, <2>3
    <2>5. \/ state' = "done" /\ visible \subseteq Ahead(k + size)
          \/ state' = "next" /\ token' = [kind |-> "offset", offset |-> k + size]
        <3>1. CASE page.next = NoToken /\ visible \subseteq Ahead(k + size)
            BY <2>1, <3>1
        <3>2. CASE page.next = [kind |-> "offset", offset |-> k + size]
            <4>1. page.next # NoToken
                BY <3>2 DEF NoToken
            <4>2. QED
                BY <2>1, <3>2, <4>1
        <3>3. QED
            BY <2>2, <3>1, <3>2
    <2>6. rows \in SUBSET Rows
        BY <1>4, <2>3
    <2>7. Showing(rows, size)
        BY <1>1, <1>5, <2>3, <2>4, <2>5 DEF Showing, Receive, Deliver, table
    <2>8. QED
        BY <2>6, <2>7
<1>6. CASE listing = "tenants"
    <2>1. Receive(OffsetPages(token, tenantsSize, OffsetAnswers))
        BY <1>3, <1>6
           DEF Fetch, ListMembers, ListPaymentLinks, ListPlans, ListSubscriptions,
               ListTenantPayments, ListPayments, ListSubscriptionPayments,
               ListTenants, ListWebhooks, ListBalances, TenantsPages, OffsetAnswers
    <2>2. QED
        BY <1>3, <1>5, <2>1
<1>7. CASE listing = "webhooks"
    <2>1. PICK pages : pages = WebhooksPages(token, asked)
        OBVIOUS
    <2>2. pages = OffsetPages(token, large, OffsetAnswers)
        BY <1>2, <1>7, <2>1 DEF WebhooksPages, OffsetAnswers
    <2>3. \/ Receive(pages)
          \/ Deliver(TruncatedWebhooksPages(token, asked)) /\ broken' = TRUE
        BY <1>7, <2>1
           DEF Fetch, ListMembers, ListPaymentLinks, ListPlans, ListSubscriptions,
               ListTenantPayments, ListPayments, ListSubscriptionPayments,
               ListTenants, ListWebhooks, ListBalances
    <2>4. CASE Receive(pages)
        BY <1>2, <1>5, <2>2, <2>4
    <2>5. CASE Deliver(TruncatedWebhooksPages(token, asked)) /\ broken' = TRUE
        <3>1. PICK cut \in TruncatedWebhooksPages(token, asked) :
                  /\ times' = [r \in Rows |->
                                  IF Contains(cut.rows, r) /\ times[r] < TimesCap
                                  THEN times[r] + 1 ELSE times[r]]
                  /\ state' = IF cut.next = NoToken THEN "done" ELSE "next"
            BY <2>5 DEF Deliver
        <3>2. PICK page \in pages, n \in 0..InRange(asked) :
                  cut = [rows |-> Slice(page.rows, 0, n), next |-> NoToken]
            BY <2>1 DEF TruncatedWebhooksPages
        <3>3. cut.rows = Slice(page.rows, 0, n) /\ cut.next = NoToken /\ n \in Nat
            <4>1. InRange(asked) \in Nat
                BY <1>2
            <4>2. QED
                BY <3>2, <4>1
        <3>4. /\ \A r : Contains(page.rows, r) =>
                           r \in Ahead(k + large) /\ r \notin Ahead(k)
              /\ \E m \in Nat : IsLine(page.rows, visible, m)
            BY <1>1, <1>2, <2>2, OffsetPage
        <3>5. PICK m \in Nat : IsLine(page.rows, visible, m)
            BY <3>4
        <3>6. PICK l \in Nat : l = Taken(m, 0, n) /\ l <= m
            BY <3>3 DEF Taken
        <3>7. /\ IsLine(cut.rows, visible, l)
              /\ \A i \in 1..l : cut.rows[i] = page.rows[0 + i]
            BY <3>3, <3>5, <3>6, SliceIs
        <3>8. \A r : Contains(cut.rows, r) => Contains(page.rows, r)
            <4>1. TAKE r
            <4>2. Contains(cut.rows, r) => \E i \in 1..l : cut.rows[i] = r
                BY <3>7 DEF Contains, IsLine
            <4>3. Contains(page.rows, r) <=> \E i \in 1..m : page.rows[i] = r
                BY <3>5 DEF Contains, IsLine
            <4>4. \A i \in 1..l : i \in 1..m /\ 0 + i = i
                BY <3>6
            <4>5. QED
                BY <3>7, <4>2, <4>3, <4>4
        <3>9. PICK rows \in SUBSET Rows : rows = {r \in Rows : Contains(cut.rows, r)}
            OBVIOUS
        <3>10. rows \subseteq Ahead(k + large) \ Ahead(k)
            BY <3>4, <3>8, <3>9
        <3>11. times' = [r \in Rows |-> IF r \in rows /\ times[r] < TimesCap
                                        THEN times[r] + 1 ELSE times[r]]
            BY <3>1, <3>9
        <3>12. Showing(rows, large)
            BY <1>1, <2>5, <3>1, <3>3, <3>10, <3>11 DEF Showing, Deliver, table
        <3>13. QED
            BY <1>2, <3>12
    <2>6. QED
        BY <2>3, <2>4, <2>5
<1>8. QED
    BY <1>6, <1>7 DEF Orderly, ByOffset

(* Rows that were shown and come again, and rows that were not shown and   *)
(* will not come, if the client goes on at its offset.                     *)
ShownAhead == {r \in visible : r \notin Ahead(Offset(token)) /\ times[r] > 0}
PassedOver == {r \in stayed : r \in Ahead(Offset(token)) /\ times[r] = 0}

(* Each row that entered pays for one row shown again or about to be, each *)
(* row that left for one that is passed over.                              *)
Drift ==
    /\ Cardinality(Repeats) <= entered
    /\ state # "done" =>
          /\ Offset(token) \in Nat
          /\ Cardinality(Repeats) + Cardinality(ShownAhead) <= entered
          /\ Cardinality(PassedOver) <= left
    /\ state = "done" /\ ~broken => Cardinality(Missed) <= left

OffsetInv == Orderly => Drift

LEMMA Finite ==
    ASSUME PaginationAssumption, Typed
    PROVE  /\ IsFiniteSet(Rows) /\ IsFiniteSet(visible)
           /\ IsFiniteSet(Repeats) /\ Cardinality(Repeats) \in Nat
           /\ IsFiniteSet(ShownAhead) /\ Cardinality(ShownAhead) \in Nat
           /\ IsFiniteSet(PassedOver) /\ Cardinality(PassedOver) \in Nat
<1>1. IsFiniteSet(Rows)
    BY DEF PaginationAssumption
<1>2. /\ visible \in SUBSET Rows /\ ShownAhead \in SUBSET Rows
      /\ PassedOver \in SUBSET Rows
    BY DEF Typed, ShownAhead, PassedOver
<1>3. PICK counts : counts = 2..TimesCap
    OBVIOUS
<1>4. TimesCap \in Int /\ 2 \in Int
    BY DEF PaginationAssumption, TimesCap
<1>5. IsFiniteSet(counts)
    BY <1>3, <1>4, FS_Interval
<1>6. IsFiniteSet(Rows \X counts)
    BY <1>1, <1>5, FS_Product
<1>7. Repeats \in SUBSET (Rows \X counts)
    BY <1>3 DEF Repeats
<1>8. QED
    BY <1>1, <1>2, <1>6, <1>7, Cardinalities

(* A response adds at most one repeat for each row in it that was shown    *)
(* before.                                                                 *)
LEMMA RepeatsOfResponse ==
    ASSUME PaginationAssumption, Typed, NEW rows \in SUBSET Rows,
           times' = [r \in Rows |-> IF r \in rows /\ times[r] < TimesCap
                                    THEN times[r] + 1 ELSE times[r]]
    PROVE  /\ Cardinality(Repeats)' \in Nat
           /\ Cardinality(Repeats)' <=
                 Cardinality(Repeats) + Cardinality({r \in rows : times[r] > 0})
<1>1. PICK again : again = {r \in rows : times[r] > 0}
    OBVIOUS
<1>2. IsFiniteSet(again) /\ Cardinality(again) \in Nat
    <2>1. again \in SUBSET Rows /\ IsFiniteSet(Rows)
        BY <1>1 DEF PaginationAssumption
    <2>2. QED
        BY <2>1, Cardinalities
<1>3. PICK f : f = [r \in again |-> <<r, times[r] + 1>>]
    OBVIOUS
<1>4. PICK new : new = {f[r] : r \in again}
    OBVIOUS
<1>5. IsFiniteSet(new) /\ Cardinality(new) <= Cardinality(again)
    <2>1. f \in Surjection(again, new)
        BY <1>3, <1>4 DEF Surjection
    <2>2. QED
        BY <1>2, <2>1, FS_Surjection
<1>6. Repeats' \in SUBSET (Repeats \cup new)
    <2>1. ASSUME NEW r \in Rows, NEW n \in 2..TimesCap, n <= times'[r]
          PROVE  <<r, n>> \in Repeats \cup new
        <3>1. times[r] \in Nat /\ TimesCap \in Nat
            BY DEF Typed, PaginationAssumption, TimesCap
        <3>2. CASE n <= times[r]
            BY <3>2 DEF Repeats
        <3>3. CASE ~(n <= times[r])
            <4>1. r \in rows /\ times'[r] = times[r] + 1
                BY <2>1, <3>3
            <4>2. n = times[r] + 1 /\ times[r] > 0
                BY <2>1, <3>1, <3>3, <4>1
            <4>3. r \in again /\ f[r] = <<r, times[r] + 1>>
                BY <1>1, <1>3, <4>1, <4>2
            <4>4. <<r, n>> \in new
                BY <1>4, <4>2, <4>3
            <4>5. QED
                BY <4>4
        <3>4. QED
            BY <3>2, <3>3
    <2>2. TimesCap' = TimesCap
        BY DEF TimesCap
    <2>3. Repeats' = {repeat \in Rows \X (2..TimesCap) : repeat[2] <= times'[repeat[1]]}
        BY <2>2 DEF Repeats
    <2>4. ASSUME NEW repeat \in Repeats' PROVE repeat \in Repeats \cup new
        <3>1. repeat \in Rows \X (2..TimesCap) /\ repeat[2] <= times'[repeat[1]]
            BY <2>3
        <3>2. PICK r, n : r = repeat[1] /\ n = repeat[2]
            OBVIOUS
        <3>3. r \in Rows /\ n \in 2..TimesCap /\ repeat = <<r, n>> /\ n <= times'[r]
            BY <3>1, <3>2
        <3>4. QED
            BY <2>1, <3>3
    <2>5. QED
        BY <2>4
<1>7. /\ IsFiniteSet(Repeats \cup new)
      /\ Cardinality(Repeats \cup new) <= Cardinality(Repeats) + Cardinality(new)
    <2>1. IsFiniteSet(Repeats) /\ Cardinality(Repeats) \in Nat
        BY Finite
    <2>2. Cardinality(new) \in Nat
        BY <1>5, FS_CardinalityType
    <2>3. PICK both : both = Repeats \cap new
        OBVIOUS
    <2>4. Cardinality(both) \in Nat
        BY <2>1, <2>3, Cardinalities
    <2>5. /\ IsFiniteSet(Repeats \cup new)
          /\ Cardinality(Repeats \cup new) =
                Cardinality(Repeats) + Cardinality(new) - Cardinality(both)
        BY <1>5, <2>1, <2>3, FS_Union
    <2>6. QED
        BY <2>1, <2>2, <2>4, <2>5
<1>8. Cardinality(Repeats') <= Cardinality(Repeats \cup new)
    BY <1>6, <1>7, Cardinalities
<1>9. /\ Cardinality(Repeats) \in Nat /\ Cardinality(new) \in Nat
      /\ Cardinality(Repeats') \in Nat /\ Cardinality(Repeats \cup new) \in Nat
    <2>1. Cardinality(Repeats) \in Nat /\ Cardinality(new) \in Nat
        BY <1>5, Finite, FS_CardinalityType
    <2>2. Cardinality(Repeats') \in Nat /\ Cardinality(Repeats \cup new) \in Nat
        BY <1>6, <1>7, Cardinalities
    <2>3. QED
        BY <2>1, <2>2
<1>10. QED
    BY <1>1, <1>2, <1>5, <1>7, <1>8, <1>9

(* Two parts of a finite set that have nothing in common.                  *)
LEMMA Parts ==
    ASSUME NEW S, IsFiniteSet(S), NEW A \in SUBSET S, NEW B \in SUBSET S,
           A \cap B = {}
    PROVE  Cardinality(A) + Cardinality(B) <= Cardinality(S)
<1>1. /\ IsFiniteSet(A) /\ IsFiniteSet(B)
      /\ Cardinality(A) \in Nat /\ Cardinality(B) \in Nat
    BY Cardinalities
<1>2. Cardinality(A \cup B) = Cardinality(A) + Cardinality(B) - Cardinality({})
    BY <1>1, FS_Union
<1>3. Cardinality({}) = 0
    BY FS_EmptySet
<1>4. PICK U : U = A \cup B /\ U \in SUBSET S
    OBVIOUS
<1>5. Cardinality(U) <= Cardinality(S)
    BY <1>4, Cardinalities
<1>6. QED
    BY <1>1, <1>2, <1>3, <1>4, <1>5

LEMMA OffsetFetchKeeps ==
    ASSUME PaginationAssumption, Typed, Orderly, Drift,
           NEW asked \in AskedSizes, Fetch(asked)
    PROVE  Drift'
<1>1. PICK size \in Nat, rows \in SUBSET Rows : 0 < size /\ Showing(rows, size)
    <2>1. Offset(token) \in Nat
        BY DEF Fetch, Drift, Receive, Deliver, ListMembers, ListPaymentLinks,
               ListPlans, ListSubscriptions, ListTenantPayments, ListPayments,
               ListSubscriptionPayments, ListTenants, ListWebhooks, ListBalances
    <2>2. QED
        BY <2>1, OffsetFetch
<1>2. PICK k \in Nat : k = Offset(token)
    BY <1>1 DEF Showing, Drift
<1>3. /\ Cardinality(Repeats) + Cardinality(ShownAhead) <= entered
      /\ Cardinality(PassedOver) <= left
    BY <1>1 DEF Showing, Drift
<1>4. /\ Cardinality(Repeats) \in Nat /\ entered \in Nat /\ left \in Nat
      /\ IsFiniteSet(ShownAhead) /\ Cardinality(ShownAhead) \in Nat
      /\ IsFiniteSet(PassedOver) /\ Cardinality(PassedOver) \in Nat
    BY Finite DEF Typed
<1>5. PICK again : again = {r \in rows : times[r] > 0}
    OBVIOUS
<1>6. /\ Cardinality(Repeats)' \in Nat
      /\ Cardinality(Repeats)' <= Cardinality(Repeats) + Cardinality(again)
    BY <1>1, <1>5, RepeatsOfResponse DEF Showing
<1>7. /\ again \in SUBSET ShownAhead /\ IsFiniteSet(again)
      /\ Cardinality(again) \in Nat /\ Cardinality(again) <= Cardinality(ShownAhead)
    <2>1. again \in SUBSET ShownAhead
        BY <1>1, <1>5 DEF Showing, ShownAhead, Ahead, Leading
    <2>2. QED
        BY <1>4, <2>1, Cardinalities
<1>8. Typed'
    <2>1. PICK pages : Deliver(pages) /\ broken' \in BOOLEAN
        BY DEF Typed, Fetch, Receive, ListMembers, ListPaymentLinks,
               ListPlans, ListSubscriptions, ListTenantPayments, ListPayments,
               ListSubscriptionPayments, ListTenants, ListWebhooks, ListBalances
    <2>2. QED
        BY <2>1, DeliverTyped
<1>9. Cardinality(Repeats)' <= entered'
    BY <1>1, <1>3, <1>4, <1>6, <1>7 DEF Showing
<1>10. \A n : Ahead(n)' = Ahead(n)
    BY <1>1 DEF Showing, Ahead, Leading, Rank, Before, Order, OldestFirst, NewestFirst
<1>11. \A r \in rows : times'[r] # 0
    <2>1. TAKE r \in rows
    <2>2. times[r] \in Nat /\ 0 < TimesCap
        BY DEF Typed, PaginationAssumption, TimesCap
    <2>3. times'[r] = IF times[r] < TimesCap THEN times[r] + 1 ELSE times[r]
        BY <1>1 DEF Showing
    <2>4. QED
        BY <2>2, <2>3
<1>12. \A r \in Rows \ rows : times'[r] = times[r]
    BY <1>1 DEF Showing
<1>13. stayed' \subseteq Rows
    BY <1>8 DEF Typed
<1>14. ASSUME rows = Ahead(k + size) \ Ahead(k)
       PROVE  {r \in stayed' : r \in Ahead(k + size) /\ times'[r] = 0} \subseteq PassedOver
    <2>1. ASSUME NEW r \in stayed', r \in Ahead(k + size), times'[r] = 0
          PROVE  r \in PassedOver
        <3>1. r \in Ahead(k) /\ times[r] = 0
            BY <1>11, <1>12, <1>13, <1>14, <2>1
        <3>2. state # "first"
            <4>1. SUFFICES ASSUME state = "first" PROVE FALSE
                OBVIOUS
            <4>2. k = 0
                BY <1>2, <4>1 DEF Typed, Offset, NoToken
            <4>3. Rank(Order, visible, r) \in Nat /\ Rank(Order, visible, r) < 0
                BY <3>1, <4>2, Finite, RankType DEF Ahead, Leading
            <4>4. QED
                BY <4>3
        <3>3. r \in stayed
            BY <1>1, <3>2 DEF Showing
        <3>4. QED
            BY <1>2, <3>1, <3>3 DEF PassedOver
    <2>2. QED
        BY <2>1
<1>15. CASE state' = "done" /\ broken' = TRUE
    BY <1>9, <1>15 DEF Drift
<1>16. CASE /\ rows = Ahead(k + size) \ Ahead(k)
            /\ state' = "done" /\ visible \subseteq Ahead(k + size)
    <2>1. Missed' \in SUBSET PassedOver
        <3>1. stayed' \subseteq visible
            BY <1>1, <1>8 DEF Showing, Typed
        <3>2. Missed' \subseteq {r \in stayed' : r \in Ahead(k + size) /\ times'[r] = 0}
            BY <1>16, <3>1 DEF Missed
        <3>3. QED
            BY <1>14, <1>16, <3>2
    <2>2. Cardinality(Missed') \in Nat /\ Cardinality(Missed') <= Cardinality(PassedOver)
        BY <1>4, <2>1, Cardinalities
    <2>3. Cardinality(Missed') <= left'
        BY <1>1, <1>3, <1>4, <2>2 DEF Showing
    <2>4. QED
        BY <1>9, <1>16, <2>3 DEF Drift
<1>17. CASE /\ rows = Ahead(k + size) \ Ahead(k)
            /\ state' = "next"
            /\ token' = [kind |-> "offset", offset |-> k + size]
    <2>1. Offset(token)' = k + size
        BY <1>17 DEF Offset
    <2>2. /\ ShownAhead' = {r \in visible : r \notin Ahead(k + size) /\ times'[r] > 0}
          /\ PassedOver' = {r \in stayed' : r \in Ahead(k + size) /\ times'[r] = 0}
        BY <1>1, <1>10, <2>1 DEF Showing, ShownAhead, PassedOver
    <2>3. PICK passed : passed = PassedOver'
        OBVIOUS
    <2>4. Cardinality(passed) \in Nat /\ Cardinality(passed) <= Cardinality(PassedOver)
        <3>1. passed \in SUBSET PassedOver
            BY <1>14, <1>17, <2>2, <2>3
        <3>2. QED
            BY <1>4, <3>1, Cardinalities
    <2>5. PICK ahead : ahead = ShownAhead'
        OBVIOUS
    <2>6. ahead \in SUBSET ShownAhead /\ ahead \cap again = {}
        <3>1. ASSUME NEW r \in ahead
              PROVE  r \in visible /\ r \notin rows /\ r \notin Ahead(k) /\ times[r] > 0
            <4>1. r \in visible /\ r \in Rows /\ r \notin Ahead(k + size) /\ times'[r] > 0
                BY <2>2, <2>5 DEF Typed
            <4>2. r \notin rows
                BY <1>17, <4>1
            <4>3. r \notin Ahead(k)
                <5>1. PICK a : a = Rank(Order, visible, r)
                    OBVIOUS
                <5>2. a \in Nat /\ ~(a < k + size)
                    BY <4>1, <5>1, Finite, RankType DEF Ahead, Leading
                <5>3. ~(a < k)
                    BY <5>2
                <5>4. QED
                    BY <5>1, <5>3 DEF Ahead, Leading
            <4>4. QED
                BY <1>12, <4>1, <4>2, <4>3
        <3>2. QED
            BY <1>2, <1>5, <3>1 DEF ShownAhead
    <2>7. Cardinality(again) + Cardinality(ahead) <= Cardinality(ShownAhead)
        BY <1>4, <1>7, <2>6, Parts
    <2>8. Cardinality(ahead) \in Nat
        BY <1>4, <2>6, Cardinalities
    <2>9. Cardinality(Repeats)' + Cardinality(ahead) <= entered'
        BY <1>1, <1>3, <1>4, <1>6, <1>7, <2>7, <2>8 DEF Showing
    <2>10. Cardinality(passed) <= left'
        BY <1>1, <1>3, <1>4, <2>4 DEF Showing
    <2>11. k + size \in Nat
        OBVIOUS
    <2>12. QED
        BY <1>9, <1>17, <2>1, <2>3, <2>5, <2>9, <2>10, <2>11 DEF Drift
<1>18. QED
    BY <1>1, <1>2, <1>15, <1>16, <1>17 DEF Showing

(* OffsetDrifts: where the order of the rows is total, an offset shows at  *)
(* most as many rows again as entered between two pages and, once the list *)
(* ends with a response that was read whole, has passed over at most as    *)
(* many of those that were there all the time as left.                     *)
THEOREM OffsetDriftBounded == PaginationAssumption => (Spec => []OffsetDrifts)
<1> SUFFICES ASSUME PaginationAssumption PROVE Spec => []OffsetDrifts
    OBVIOUS
<1>1. ASSUME Init PROVE OffsetInv
    <2>1. /\ times = [r \in Rows |-> 0] /\ stayed = {} /\ entered = 0 /\ left = 0
          /\ token = NoToken /\ state = "first"
        BY <1>1 DEF Init
    <2>2. Repeats = {} /\ ShownAhead = {} /\ PassedOver = {}
        <3>1. visible \subseteq Rows
            BY <1>1 DEF Init
        <3>2. \A r \in Rows : times[r] = 0
            BY <2>1
        <3>3. ShownAhead = {} /\ PassedOver = {}
            <4>1. \A r \in visible : ~(times[r] > 0)
                BY <3>1, <3>2
            <4>2. QED
                BY <2>1, <4>1 DEF ShownAhead, PassedOver
        <3>4. ASSUME NEW repeat \in Repeats PROVE FALSE
            <4>1. repeat \in Rows \X (2..TimesCap) /\ repeat[2] <= times[repeat[1]]
                BY DEF Repeats
            <4>2. PICK r \in Rows, n \in 2..TimesCap : r = repeat[1] /\ n = repeat[2]
                BY <4>1
            <4>3. n <= times[r] /\ times[r] = 0
                BY <3>2, <4>1, <4>2
            <4>4. n \in Int /\ 2 <= n
                BY <4>2
            <4>5. QED
                BY <4>3, <4>4
        <3>5. QED
            BY <3>3, <3>4
    <2>3. Cardinality({}) = 0
        BY FS_EmptySet
    <2>4. Offset(token) = 0
        BY <2>1 DEF Offset, NoToken
    <2>5. QED
        BY <2>1, <2>2, <2>3, <2>4 DEF OffsetInv, Drift
<1>2. ASSUME Typed, OffsetInv, [Next]_vars PROVE OffsetInv'
    <2> SUFFICES ASSUME Orderly' PROVE Drift'
        BY DEF OffsetInv
    <2>1. CASE UNCHANGED vars
        <3>1. Orderly /\ Drift
            BY <1>2, <2>1 DEF OffsetInv, Orderly, ByOffset, vars, table
        <3>2. /\ Repeats' = Repeats /\ ShownAhead' = ShownAhead
              /\ PassedOver' = PassedOver /\ Missed' = Missed
              /\ Offset(token)' = Offset(token)
            BY <2>1 DEF Repeats, TimesCap, ShownAhead, PassedOver, Missed, Offset, Ahead,
                        Leading, Rank, Before, Order, OldestFirst, NewestFirst,
                        vars, table
        <3>3. QED
            BY <2>1, <3>1, <3>2 DEF Drift, vars, table
    <2>2. ASSUME NEW asked \in AskedSizes, Fetch(asked) PROVE Drift'
        <3>1. UNCHANGED <<listing, stamp>>
            BY <2>2 DEF Fetch, Receive, Deliver, table, ListMembers,
                        ListPaymentLinks, ListPlans, ListSubscriptions,
                        ListTenantPayments, ListPayments,
                        ListSubscriptionPayments, ListTenants, ListWebhooks,
                        ListBalances
        <3>2. Orderly /\ Drift
            BY <1>2, <3>1 DEF OffsetInv, Orderly, ByOffset
        <3>3. QED
            BY <1>2, <2>2, <3>2, OffsetFetchKeeps
    <2>3. ASSUME NEW x \in Rows, Enter(x) PROVE Drift'
        <3>1. Orderly /\ Drift
            BY <1>2, <2>3 DEF Enter, OffsetInv, Orderly, ByOffset
        <3>2. PICK k \in Nat : k = Offset(token)
            BY <2>3, <3>1 DEF Enter, Drift
        <3>3. /\ Repeats' = Repeats /\ Offset(token)' = k
              /\ Order' = Order /\ visible' = visible \cup {x} /\ x \notin visible
              /\ UNCHANGED <<state, times, stayed, left>> /\ entered' = entered + 1
              /\ state = "next"
            BY <2>3, <3>2 DEF Enter, Repeats, TimesCap, Offset, Order, OldestFirst,
                              NewestFirst
        <3>4. PICK O : O = Order
            OBVIOUS
        <3>5. PICK S, T : S = visible /\ T = visible'
            OBVIOUS
        <3>6. /\ IsFiniteSet(S) /\ x \notin S /\ T = S \cup {x}
              /\ StrictlyOrders(O, S \cup {x})
            <4>1. S \cup {x} \in SUBSET Rows
                BY <1>2, <3>5 DEF Typed
            <4>2. QED
                BY <1>2, <3>1, <3>3, <3>4, <3>5, <4>1, Finite, OrderIsStrict
        <3>7. /\ Leading(O, T, k) \subseteq Leading(O, S, k) \cup {x}
              /\ \E y : T \ Leading(O, T, k) \subseteq (S \ Leading(O, S, k)) \cup {y}
            BY <3>6, LeadingWithOneMore
        <3>8. /\ ShownAhead = {r \in S : r \notin Leading(O, S, k) /\ times[r] > 0}
              /\ PassedOver = {r \in stayed : r \in Leading(O, S, k) /\ times[r] = 0}
            BY <3>2, <3>4, <3>5 DEF ShownAhead, PassedOver, Ahead
        <3>9. /\ ShownAhead' = {r \in T : r \notin Leading(O, T, k) /\ times[r] > 0}
              /\ PassedOver' = {r \in stayed : r \in Leading(O, T, k) /\ times[r] = 0}
            BY <3>3, <3>4, <3>5 DEF ShownAhead, PassedOver, Ahead, Leading, Rank, Before
        <3>10. /\ Cardinality(Repeats) \in Nat /\ entered \in Nat /\ left \in Nat
               /\ IsFiniteSet(ShownAhead) /\ Cardinality(ShownAhead) \in Nat
               /\ IsFiniteSet(PassedOver) /\ Cardinality(PassedOver) \in Nat
            BY <1>2, Finite DEF Typed
        <3>11. PICK ahead : ahead = ShownAhead'
            OBVIOUS
        <3>12. \E y : ahead \in SUBSET (ShownAhead \cup {y})
            <4>1. PICK y : T \ Leading(O, T, k) \subseteq (S \ Leading(O, S, k)) \cup {y}
                BY <3>7
            <4>2. ahead \in SUBSET (ShownAhead \cup {y})
                BY <3>8, <3>9, <3>11, <4>1
            <4>3. QED
                BY <4>2
        <3>13. Cardinality(ahead) \in Nat /\ Cardinality(ahead) <= Cardinality(ShownAhead) + 1
            BY <3>10, <3>12, AtMostOneMore
        <3>14. PICK passed : passed = PassedOver'
            OBVIOUS
        <3>15. passed \in SUBSET PassedOver
            <4>1. x \notin stayed
                BY <1>2, <3>3 DEF Typed
            <4>2. QED
                BY <3>7, <3>8, <3>9, <3>14, <4>1
        <3>16. Cardinality(passed) \in Nat /\ Cardinality(passed) <= Cardinality(PassedOver)
            BY <3>10, <3>15, Cardinalities
        <3>17. /\ Cardinality(Repeats) + Cardinality(ShownAhead) <= entered
               /\ Cardinality(PassedOver) <= left
            BY <3>1, <3>3 DEF Drift
        <3>18. /\ Cardinality(Repeats) + Cardinality(ahead) <= entered'
               /\ Cardinality(Repeats) <= entered' /\ Cardinality(passed) <= left'
            BY <3>3, <3>10, <3>13, <3>16, <3>17
        <3>19. QED
            BY <3>3, <3>11, <3>14, <3>18 DEF Drift
    <2>4. ASSUME NEW x \in Rows, Leave(x) PROVE Drift'
        <3>1. Orderly /\ Drift
            BY <1>2, <2>4 DEF Leave, OffsetInv, Orderly, ByOffset
        <3>2. PICK k \in Nat : k = Offset(token)
            BY <2>4, <3>1 DEF Leave, Drift
        <3>3. /\ Repeats' = Repeats /\ Offset(token)' = k
              /\ Order' = Order /\ visible' = visible \ {x} /\ x \in visible
              /\ stayed' = stayed \ {x}
              /\ UNCHANGED <<state, times, entered>> /\ left' = left + 1
              /\ state = "next"
            BY <2>4, <3>2 DEF Leave, Repeats, TimesCap, Offset, Order, OldestFirst,
                              NewestFirst
        <3>4. PICK O : O = Order
            OBVIOUS
        <3>5. PICK S, T : S = visible /\ T = visible'
            OBVIOUS
        <3>6. /\ IsFiniteSet(S) /\ x \in S /\ T = S \ {x} /\ StrictlyOrders(O, S)
            <4>1. S \in SUBSET Rows
                BY <1>2, <3>5 DEF Typed
            <4>2. QED
                BY <1>2, <3>1, <3>3, <3>4, <3>5, <4>1, Finite, OrderIsStrict
        <3>7. /\ T \ Leading(O, T, k) \subseteq S \ Leading(O, S, k)
              /\ \E y : Leading(O, T, k) \subseteq Leading(O, S, k) \cup {y}
            BY <3>6, LeadingWithOneLess
        <3>8. /\ ShownAhead = {r \in S : r \notin Leading(O, S, k) /\ times[r] > 0}
              /\ PassedOver = {r \in stayed : r \in Leading(O, S, k) /\ times[r] = 0}
            BY <3>2, <3>4, <3>5 DEF ShownAhead, PassedOver, Ahead
        <3>9. /\ ShownAhead' = {r \in T : r \notin Leading(O, T, k) /\ times[r] > 0}
              /\ PassedOver' = {r \in stayed' : r \in Leading(O, T, k) /\ times[r] = 0}
            BY <3>3, <3>4, <3>5 DEF ShownAhead, PassedOver, Ahead, Leading, Rank, Before
        <3>10. /\ Cardinality(Repeats) \in Nat /\ entered \in Nat /\ left \in Nat
               /\ IsFiniteSet(ShownAhead) /\ Cardinality(ShownAhead) \in Nat
               /\ IsFiniteSet(PassedOver) /\ Cardinality(PassedOver) \in Nat
            BY <1>2, Finite DEF Typed
        <3>11. PICK ahead : ahead = ShownAhead'
            OBVIOUS
        <3>12. ahead \in SUBSET ShownAhead
            BY <3>7, <3>8, <3>9, <3>11
        <3>13. Cardinality(ahead) \in Nat /\ Cardinality(ahead) <= Cardinality(ShownAhead)
            BY <3>10, <3>12, Cardinalities
        <3>14. PICK passed : passed = PassedOver'
            OBVIOUS
        <3>15. \E y : passed \in SUBSET (PassedOver \cup {y})
            <4>1. PICK y : Leading(O, T, k) \subseteq Leading(O, S, k) \cup {y}
                BY <3>7
            <4>2. passed \in SUBSET (PassedOver \cup {y})
                BY <3>3, <3>8, <3>9, <3>14, <4>1
            <4>3. QED
                BY <4>2
        <3>16. Cardinality(passed) \in Nat /\ Cardinality(passed) <= Cardinality(PassedOver) + 1
            BY <3>10, <3>15, AtMostOneMore
        <3>17. /\ Cardinality(Repeats) + Cardinality(ShownAhead) <= entered
               /\ Cardinality(PassedOver) <= left
            BY <3>1, <3>3 DEF Drift
        <3>18. /\ Cardinality(Repeats) + Cardinality(ahead) <= entered'
               /\ Cardinality(Repeats) <= entered' /\ Cardinality(passed) <= left'
            BY <3>3, <3>10, <3>13, <3>16, <3>17
        <3>19. QED
            BY <3>3, <3>11, <3>14, <3>18 DEF Drift
    <2>5. ASSUME NEW x \in Rows, CreditSettlement(x) PROVE Drift'
        BY <2>5 DEF CreditSettlement, Orderly, ByOffset
    <2>6. QED
        BY <1>2, <2>1, <2>2, <2>3, <2>4, <2>5 DEF Next
<1>3. OffsetInv => OffsetDrifts
    BY DEF OffsetInv, Drift, Orderly, OffsetDrifts
<1>4. QED
    BY <1>1, <1>2, <1>3, TypedInvariant, PTL DEF Spec
=============================================================================
