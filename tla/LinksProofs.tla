----------------------------- MODULE LinksProofs -----------------------------
(***************************************************************************)
(* How many orders a link can cause, for any number of attempts and        *)
(* faults.  None of the properties is inductive alone.  Stages says what   *)
(* an attempt has done by each step.  Spent is the heart of the count:     *)
(* while the link is still usable, every order of an attempt that is over  *)
(* took a fault, so that an attempt which begins alone is the one that is  *)
(* free.                                                                   *)
(***************************************************************************)
EXTENDS Links, FiniteSetTheorems, TLAPS

Stages ==
    /\ \A a \in At({"order"} \cup After) : a \in cardRows
    /\ \A a \in At(Before \cup {"new", "expire"}) : a \notin orders
    /\ \A a \in At(After) : a \in orders
    /\ \A a \in At({"row"}) : a \notin orderRows
    /\ link.kind = "subscription" => At({"mark"}) \subseteq orderRows
    /\ orderRows \subseteq orders

Spent == Usable => Cardinality(orders \ At(After)) <= faults

Unrecorded == (orders \ orderRows) \ At({"row"})

Inv ==
    /\ TypeOK
    /\ Stages
    /\ RedeemedIsOrdered
    /\ OrdersBounded
    /\ Spent
    /\ UnrecordedBounded

-----------------------------------------------------------------------------
(* Sizes of sets of attempts.                                              *)
LEMMA Sizes ==
    ASSUME NEW S \in SUBSET Attempts
    PROVE  /\ IsFiniteSet(S)
           /\ Cardinality(S) \in Nat
           /\ \A T \in SUBSET S : Cardinality(T) <= Cardinality(S)
           /\ \A a \in Attempts : Cardinality(S \cup {a}) <= Cardinality(S) + 1
           /\ \A a \in S : Cardinality(S \ {a}) = Cardinality(S) - 1
<1>1. IsFiniteSet(S) /\ Cardinality(S) \in Nat
    BY LinksAssumption, FS_Subset, FS_CardinalityType
<1>2. ASSUME NEW T \in SUBSET S
      PROVE  Cardinality(T) <= Cardinality(S)
    BY <1>1, FS_Subset
<1>3. ASSUME NEW a \in Attempts
      PROVE  Cardinality(S \cup {a}) <= Cardinality(S) + 1
    BY <1>1, FS_AddElement
<1>4. ASSUME NEW a \in S
      PROVE  Cardinality(S \ {a}) = Cardinality(S) - 1
    BY <1>1, FS_RemoveElement
<1>5. QED
    BY <1>1, <1>2, <1>3, <1>4

(* A link that an attempt or an expiry has written is not usable.          *)
LEMMA WrittenClosed ==
    ASSUME TypeOK, NEW by,
           NEW status \in {"expired", "cancelled", Done(link.kind)},
           WriteLink(status, by)
    PROVE  /\ link'.kind = link.kind
           /\ link'.status = status
           /\ link'.by = by
           /\ ~Usable'
<1>1. link.kind \in Kinds /\ DOMAIN link = {"kind", "status", "by"}
    BY DEF TypeOK, Link
<1>2. link \in [kind : Kinds, status : {link.status}, by : {link.by}]
    BY DEF TypeOK, Link
<1>3. QED
    BY <1>1, <1>2 DEF WriteLink, Usable, Open, Done, Kinds

LEMMA LinkTyped ==
    ASSUME TypeOK, NEW by \in Attempts \cup {NoAttempt},
           NEW status \in {"expired", "cancelled", Done(link.kind)},
           WriteLink(status, by)
    PROVE  link' \in Link
<1>1. PICK k \in Kinds :
          link \in [kind : {k}, status : {Open(k), Done(k), "expired", "cancelled"},
                   by : Attempts \cup {NoAttempt}]
    BY DEF TypeOK, Link
<1>2. link' \in [kind : {k}, status : {Open(k), Done(k), "expired", "cancelled"},
                by : Attempts \cup {NoAttempt}]
    BY <1>1 DEF WriteLink
<1>3. QED
    BY <1>2 DEF Link

-----------------------------------------------------------------------------
LEMMA InitInv == Init => Inv
<1> SUFFICES ASSUME Init PROVE Inv
    OBVIOUS
<1>1. TypeOK
    <2>1. PICK k \in Kinds :
              link = [kind |-> k, status |-> Open(k), by |-> NoAttempt]
        BY DEF Init
    <2>2. link \in [kind : {k}, status : {Open(k), Done(k), "expired", "cancelled"},
                   by : Attempts \cup {NoAttempt}]
        BY <2>1
    <2>3. link \in Link
        BY <2>2 DEF Link
    <2>4. /\ attempt = [a \in Attempts |-> "new"]
          /\ due = FALSE /\ expiring = FALSE
          /\ cards = {} /\ orders = {} /\ cardRows = {} /\ orderRows = {}
          /\ overlaps = 0 /\ faults = 0
        BY DEF Init
    <2>5. due \in BOOLEAN /\ expiring \in BOOLEAN
        BY <2>4
    <2>6. attempt \in [Attempts ->
             Before \cup After \cup {"new", "expire", "answered", "failed"}]
        BY <2>4
    <2>7. overlaps \in Nat /\ faults \in 0 .. MaxFaults
        BY <2>4, LinksAssumption
    <2>8. QED
        BY <2>3, <2>4, <2>5, <2>6, <2>7 DEF TypeOK
<1>2. /\ At(Before) = {} /\ At(After) = {} /\ At({"order"} \cup After) = {}
      /\ At({"row"}) = {} /\ At({"mark"}) = {}
    BY DEF Init, At, Before, After
<1>3. Stages
    BY <1>2 DEF Init, Stages
<1>4. RedeemedIsOrdered
    BY DEF Init, RedeemedIsOrdered, Open, Done, Kinds
<1>5. OrdersBounded /\ Spent /\ UnrecordedBounded
    BY <1>2, FS_EmptySet DEF Init, OrdersBounded, Spent, UnrecordedBounded
<1>6. QED
    BY <1>1, <1>3, <1>4, <1>5 DEF Inv

LEMMA TypedStep ==
    ASSUME Inv, Next
    PROVE  TypeOK'
<1> USE DEF Inv, TypeOK, Step, Fault, Before, After
<1>1. ASSUME NEW a \in Attempts, AttemptStep(a)
      PROVE  TypeOK'
    <2>1. CASE WritesExpired(a) \/ Mark(a)
        <3>1. link' \in Link
            BY <2>1, LinkTyped DEF WritesExpired, Mark
        <3>2. QED
            BY <2>1, <3>1 DEF WritesExpired, Mark
    <2>2. CASE Begin(a) \/ Refuse(a) \/ FindsExpired(a)
        BY <2>2 DEF Begin, Refuse, FindsExpired
    <2>3. CASE CreateCard(a) \/ DenyCard(a) \/ StoreCard(a) \/ Order(a)
        BY <2>3 DEF CreateCard, DenyCard, StoreCard, Order
    <2>4. CASE DeclineOrder(a) \/ StoreRow(a)
        BY <2>4 DEF DeclineOrder, StoreRow
    <2>5. CASE RowFails(a) \/ MarkFails(a) \/ AttemptFails(a)
        BY <2>5, LinksAssumption DEF RowFails, MarkFails, AttemptFails
    <2>6. QED
        BY <1>1, <2>1, <2>2, <2>3, <2>4, <2>5 DEF AttemptStep
<1>2. ASSUME ExpireReads \/ ExpireWrites \/ ExpireFails \/ TimePasses
      PROVE  TypeOK'
    <2>1. link' \in Link
        BY <1>2, LinkTyped DEF ExpireReads, ExpireWrites, ExpireFails, TimePasses
    <2>2. QED
        BY <1>2, <2>1
           DEF ExpireReads, ExpireWrites, ExpireFails, TimePasses
<1>3. QED
    BY <1>1, <1>2 DEF Next

-----------------------------------------------------------------------------
(* Where an attempt's step leaves the sets of attempts at given steps.     *)
LEMMA StepAt ==
    ASSUME TypeOK, NEW a \in Attempts, NEW from, NEW to, Step(a, from, to),
           NEW S
    PROVE  /\ from \in S => a \in At(S)
           /\ to \in S => At(S)' = At(S) \cup {a}
           /\ to \notin S => At(S)' = At(S) \ {a}
BY DEF TypeOK, Step, At

LEMMA StagesStep ==
    ASSUME Inv, NEW a \in Attempts, AttemptStep(a)
    PROVE  Stages' /\ RedeemedIsOrdered'
<1> USE DEF Step, At, Before, After, Fault
<1>1. TypeOK /\ Stages /\ RedeemedIsOrdered
    BY DEF Inv
<1>2. CASE Begin(a) \/ Refuse(a) \/ FindsExpired(a)
    BY <1>1, <1>2
       DEF TypeOK, Stages, RedeemedIsOrdered, Begin, Refuse, FindsExpired
<1>3. CASE CreateCard(a) \/ DenyCard(a) \/ DeclineOrder(a) \/ StoreCard(a)
    BY <1>1, <1>3
       DEF TypeOK, Stages, RedeemedIsOrdered, CreateCard, DenyCard,
           DeclineOrder, StoreCard
<1>4. CASE Order(a)
    BY <1>1, <1>4 DEF TypeOK, Stages, RedeemedIsOrdered, Order
<1>5. CASE StoreRow(a)
    BY <1>1, <1>5 DEF TypeOK, Stages, RedeemedIsOrdered, StoreRow
<1>6. CASE RowFails(a) \/ MarkFails(a) \/ AttemptFails(a)
    BY <1>1, <1>6
       DEF TypeOK, Stages, RedeemedIsOrdered, RowFails, MarkFails, AttemptFails
<1>7. CASE WritesExpired(a)
    <2>1. /\ link'.kind = link.kind /\ link'.by = NoAttempt
          /\ link'.status = "expired"
        BY <1>1, <1>7, WrittenClosed DEF WritesExpired
    <2>2. Done(link.kind) # "expired"
        BY DEF Done
    <2>3. QED
        BY <1>1, <1>7, <2>1, <2>2
           DEF TypeOK, Stages, RedeemedIsOrdered, WritesExpired
<1>8. CASE Mark(a)
    <2>1. /\ link'.kind = link.kind /\ link'.by = a
          /\ link'.status = Done(link.kind)
        BY <1>1, <1>8, WrittenClosed DEF Mark
    <2>2. a # NoAttempt
        BY LinksAssumption
    <2>3. QED
        BY <1>1, <1>8, <2>1, <2>2 DEF TypeOK, Stages, RedeemedIsOrdered, Mark
<1>9. QED
    BY <1>2, <1>3, <1>4, <1>5, <1>6, <1>7, <1>8 DEF AttemptStep

(* An attempt's step keeps the three counts.                               *)
LEMMA CountsStep ==
    ASSUME Inv, NEW a \in Attempts, AttemptStep(a)
    PROVE  OrdersBounded' /\ Spent' /\ UnrecordedBounded'
<1>1. /\ TypeOK /\ Stages /\ OrdersBounded /\ Spent /\ UnrecordedBounded
      /\ faults \in Nat /\ overlaps \in Nat
    BY LinksAssumption DEF Inv, TypeOK
<1>2. PICK O, B, L, U :
          /\ O = orders /\ B = At(Before) /\ L = orders \ At(After)
          /\ U = Unrecorded
    OBVIOUS
<1>3. PICK Q, C, M, V :
          /\ Q = orders' /\ C = At(Before)' /\ M = (orders \ At(After))'
          /\ V = Unrecorded'
    OBVIOUS
<1>4. /\ O \in SUBSET Attempts /\ B \in SUBSET Attempts
      /\ L \in SUBSET Attempts /\ U \in SUBSET Attempts
    BY <1>1, <1>2 DEF TypeOK, At, Unrecorded
<1>5. /\ Cardinality(O) + Cardinality(B) <= 1 + overlaps + faults
      /\ Usable => Cardinality(L) <= faults
      /\ Cardinality(U) <= faults
    BY <1>1, <1>2 DEF OrdersBounded, Spent, UnrecordedBounded, Unrecorded
<1>6. SUFFICES /\ Cardinality(Q) + Cardinality(C) <= 1 + overlaps' + faults'
               /\ Usable' => Cardinality(M) <= faults'
               /\ Cardinality(V) <= faults'
    BY <1>3 DEF OrdersBounded, Spent, UnrecordedBounded, Unrecorded
<1>7. /\ Cardinality(O) \in Nat /\ Cardinality(B) \in Nat
      /\ Cardinality(L) \in Nat /\ Cardinality(U) \in Nat
      /\ Cardinality(B \ {a}) \in Nat
      /\ Cardinality(B \ {a}) <= Cardinality(B)
      /\ a \in B => Cardinality(B \ {a}) = Cardinality(B) - 1
      /\ Cardinality(B \cup {a}) <= Cardinality(B) + 1
      /\ Cardinality(O \cup {a}) <= Cardinality(O) + 1
      /\ Cardinality(L \cup {a}) <= Cardinality(L) + 1
      /\ Cardinality(U \cup {a}) <= Cardinality(U) + 1
      /\ Cardinality(L \ {a}) <= Cardinality(L)
      /\ Cardinality(U \ {a}) <= Cardinality(U)
      /\ Cardinality(B \cup {a}) \in Nat /\ Cardinality(O \cup {a}) \in Nat
      /\ Cardinality(L \cup {a}) \in Nat /\ Cardinality(U \cup {a}) \in Nat
      /\ Cardinality(L \ {a}) \in Nat /\ Cardinality(U \ {a}) \in Nat
    <2>1. /\ B \ {a} \in SUBSET Attempts /\ B \ {a} \in SUBSET B
          /\ L \ {a} \in SUBSET Attempts /\ L \ {a} \in SUBSET L
          /\ U \ {a} \in SUBSET Attempts /\ U \ {a} \in SUBSET U
          /\ B \cup {a} \in SUBSET Attempts /\ O \cup {a} \in SUBSET Attempts
          /\ L \cup {a} \in SUBSET Attempts /\ U \cup {a} \in SUBSET Attempts
        BY <1>4
    <2>2. QED
        BY <1>4, <2>1, Sizes
<1>8. CASE Begin(a)
    <2>1. Q = O /\ C = B \cup {a} /\ M = L /\ V = U
        BY <1>1, <1>2, <1>3, <1>8
           DEF Begin, Step, TypeOK, At, Before, After, Unrecorded
    <2>2. UNCHANGED faults /\ Usable
        BY <1>8 DEF Begin
    <2>3. CASE InProgress = {}
        <3>1. B = {} /\ L = O
            BY <1>2, <2>3 DEF InProgress, At
        <3>2. Cardinality(B) = 0
            BY <3>1, FS_EmptySet
        <3>3. QED
            BY <1>1, <1>5, <1>7, <1>8, <2>1, <2>2, <2>3, <3>1, <3>2 DEF Begin
    <2>4. CASE InProgress # {}
        BY <1>1, <1>5, <1>7, <1>8, <2>1, <2>2, <2>4 DEF Begin
    <2>5. QED
        BY <2>3, <2>4
<1>9. CASE Refuse(a) \/ FindsExpired(a) \/ CreateCard(a) \/ StoreCard(a)
    <2>1. Q = O /\ C = B /\ M = L /\ V = U
        BY <1>1, <1>2, <1>3, <1>9
           DEF Refuse, FindsExpired, CreateCard, StoreCard, Step, TypeOK, At,
               Before, After, Unrecorded
    <2>2. UNCHANGED <<link, overlaps, faults>>
        BY <1>9 DEF Refuse, FindsExpired, CreateCard, StoreCard
    <2>3. QED
        BY <1>5, <2>1, <2>2 DEF Usable
<1>10. CASE DenyCard(a) \/ DeclineOrder(a)
    <2>1. Q = O /\ C = B \ {a} /\ M = L /\ V = U
        BY <1>1, <1>2, <1>3, <1>10
           DEF DenyCard, DeclineOrder, Step, TypeOK, At, Before, After,
               Unrecorded
    <2>2. UNCHANGED <<link, overlaps, faults>>
        BY <1>10 DEF DenyCard, DeclineOrder
    <2>3. QED
        BY <1>1, <1>5, <1>7, <2>1, <2>2 DEF Usable
<1>11. CASE Order(a)
    <2>1. Q = O \cup {a} /\ C = B \ {a} /\ a \in B
        BY <1>1, <1>2, <1>3, <1>11 DEF Order, Step, TypeOK, At, Before, After
    <2>2. M = L
        BY <1>1, <1>2, <1>3, <1>11 DEF Order, Step, TypeOK, At, After, Stages,
                                       Before
    <2>3. V = U
        BY <1>1, <1>2, <1>3, <1>11 DEF Order, Step, TypeOK, At, Unrecorded,
                                       Stages, Before
    <2>4. UNCHANGED <<link, overlaps, faults>>
        BY <1>11 DEF Order
    <2>5. QED
        BY <1>1, <1>5, <1>7, <2>1, <2>2, <2>3, <2>4 DEF Usable
<1>12. CASE StoreRow(a)
    <2>1. Q = O /\ C = B /\ M = L /\ V = U
        BY <1>1, <1>2, <1>3, <1>12
           DEF StoreRow, Step, TypeOK, At, Before, After, Unrecorded
    <2>2. UNCHANGED <<link, overlaps, faults>>
        BY <1>12 DEF StoreRow
    <2>3. QED
        BY <1>5, <2>1, <2>2 DEF Usable
<1>13. CASE RowFails(a) \/ MarkFails(a) \/ AttemptFails(a)
    <2>1. Q = O /\ C \in {B, B \ {a}}
        BY <1>1, <1>2, <1>3, <1>13
           DEF RowFails, MarkFails, AttemptFails, Step, TypeOK, At, Before,
               After
    <2>2. M \in {L, L \cup {a}} /\ V \in {U, U \cup {a}}
        BY <1>1, <1>2, <1>3, <1>13
           DEF RowFails, MarkFails, AttemptFails, Step, TypeOK, At, Before,
               After, Unrecorded, Stages
    <2>3. UNCHANGED <<link, overlaps>> /\ faults' = faults + 1
        BY <1>13 DEF RowFails, MarkFails, AttemptFails, Fault
    <2>4. Cardinality(C) \in Nat /\ Cardinality(C) <= Cardinality(B)
        <3>1. CASE C = B
            BY <1>7, <3>1
        <3>2. CASE C = B \ {a}
            BY <1>7, <3>2
        <3>3. QED
            BY <2>1, <3>1, <3>2
    <2>5. Cardinality(M) \in Nat /\ Cardinality(M) <= Cardinality(L) + 1
        <3>1. CASE M = L
            BY <1>7, <3>1
        <3>2. CASE M = L \cup {a}
            BY <1>7, <3>2
        <3>3. QED
            BY <2>2, <3>1, <3>2
    <2>6. Cardinality(V) \in Nat /\ Cardinality(V) <= Cardinality(U) + 1
        <3>1. CASE V = U
            BY <1>7, <3>1
        <3>2. CASE V = U \cup {a}
            BY <1>7, <3>2
        <3>3. QED
            BY <2>2, <3>1, <3>2
    <2>7. Usable' <=> Usable
        BY <2>3 DEF Usable
    <2>8. QED
        BY <1>1, <1>5, <1>7, <2>1, <2>3, <2>4, <2>5, <2>6, <2>7
<1>14. CASE WritesExpired(a) \/ Mark(a)
    <2>1. Q = O /\ C = B /\ V = U
        BY <1>1, <1>2, <1>3, <1>14
           DEF WritesExpired, Mark, Step, TypeOK, At, Before, After, Unrecorded
    <2>2. ~Usable'
        BY <1>1, <1>14, WrittenClosed DEF WritesExpired, Mark
    <2>3. UNCHANGED <<overlaps, faults>>
        BY <1>14 DEF WritesExpired, Mark
    <2>4. QED
        BY <1>5, <2>1, <2>2, <2>3
<1>15. QED
    BY <1>8, <1>9, <1>10, <1>11, <1>12, <1>13, <1>14 DEF AttemptStep

(* What the tenant and the clock do changes no count.                      *)
LEMMA OthersStep ==
    ASSUME Inv, ExpireReads \/ ExpireWrites \/ ExpireFails \/ TimePasses
    PROVE  /\ Stages' /\ RedeemedIsOrdered'
           /\ OrdersBounded' /\ Spent' /\ UnrecordedBounded'
<1>1. /\ TypeOK /\ Stages /\ RedeemedIsOrdered
      /\ OrdersBounded /\ Spent /\ UnrecordedBounded
    BY DEF Inv
<1>2. UNCHANGED <<attempt, orders, cardRows, orderRows, overlaps, faults>>
    BY DEF ExpireReads, ExpireWrites, ExpireFails, TimePasses
<1>3. \A S : At(S)' = At(S)
    BY <1>2 DEF At
<1>4. CASE UNCHANGED link
    BY <1>1, <1>2, <1>3, <1>4
       DEF Stages, RedeemedIsOrdered, OrdersBounded, Spent, UnrecordedBounded,
           Usable, At
<1>5. CASE ExpireWrites
    <2>1. link'.kind = link.kind /\ link'.by = NoAttempt /\ ~Usable'
        BY <1>1, <1>5, WrittenClosed DEF ExpireWrites
    <2>2. link'.status = "cancelled"
        BY <1>1, <1>5, WrittenClosed DEF ExpireWrites
    <2>3. QED
        BY <1>1, <1>2, <1>3, <2>1, <2>2
           DEF Stages, RedeemedIsOrdered, OrdersBounded, Spent,
               UnrecordedBounded, At, Done
<1>6. QED
    BY <1>4, <1>5 DEF ExpireReads, ExpireFails, TimePasses

LEMMA NextInv == Inv /\ [Next]_vars => Inv'
<1> SUFFICES ASSUME Inv, [Next]_vars PROVE Inv'
    OBVIOUS
<1>1. CASE Next
    BY <1>1, TypedStep, StagesStep, CountsStep, OthersStep DEF Next, Inv
<1>2. CASE UNCHANGED vars
    BY <1>2
       DEF vars, Inv, TypeOK, Stages, At, RedeemedIsOrdered, OrdersBounded,
           Spent, UnrecordedBounded, Usable
<1>3. QED
    BY <1>1, <1>2

LEMMA Invariant == Spec => []Inv
BY InitInv, NextInv, PTL DEF Spec

-----------------------------------------------------------------------------
(* Links, attempts and rows are well typed.                                *)
THEOREM TypeInvariant == Spec => []TypeOK
<1>1. Inv => TypeOK
    BY DEF Inv
<1>2. QED
    BY <1>1, Invariant, PTL

(* RedeemPaymentLink and RedeemSubscriptionLink: the orders of one link    *)
(* are at most one, plus the attempts that overlapped and the faults.      *)
THEOREM Orders == Spec => []OrdersBounded
<1>1. Inv => OrdersBounded
    BY DEF Inv
<1>2. QED
    BY <1>1, Invariant, PTL

(* An order without a row is paid for by a fault.                          *)
THEOREM UnrecordedOrders == Spec => []UnrecordedBounded
<1>1. Inv => UnrecordedBounded
    BY DEF Inv
<1>2. QED
    BY <1>1, Invariant, PTL

(* The mark of a link is whole and names an attempt that ordered.          *)
THEOREM Redeemed == Spec => []RedeemedIsOrdered
<1>1. Inv => RedeemedIsOrdered
    BY DEF Inv
<1>2. QED
    BY <1>1, Invariant, PTL
=============================================================================
