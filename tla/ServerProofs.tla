----------------------------- MODULE ServerProofs -----------------------------
(***************************************************************************)
(* The rate limit and the end of the process, proved for any number of     *)
(* RPCs and notifications, any limit and any clock.                        *)
(***************************************************************************)
EXTENDS Server, FiniteSetTheorems, TLAPS

-----------------------------------------------------------------------------
(* Types.                                                                  *)

LEMMA Bounds ==
    /\ MaxNow \in Nat /\ MaxRetries \in Nat /\ Ttl \in Nat
    /\ Limit \in Nat /\ Limit >= 1 /\ Minute \in Nat /\ Minute >= 1
BY ServerAssumption

LEMMA DelayBound == MaxDelay \in Int /\ MaxDelay <= Ttl - Minute
BY ServerAssumption

LEMMA CallType ==
    ASSUME TypeOK, NEW c \in Calls
    PROVE  /\ call[c] \in [state : CallStates, at : 0..MaxNow,
                           redis : {"not asked", "answered", "failed"}]
           /\ call[c].at \in Nat /\ call[c].at <= MaxNow /\ now \in Nat
<1>1. call[c] \in [state : CallStates, at : 0..MaxNow,
                   redis : {"not asked", "answered", "failed"}]
    BY DEF TypeOK
<1>2. call[c].at \in 0..MaxNow
    BY <1>1
<1>3. now \in 0..MaxNow
    BY DEF TypeOK
<1>4. call[c].at \in Nat /\ call[c].at <= MaxNow /\ now \in Nat
    BY <1>2, <1>3, Bounds
<1>5. QED
    BY <1>1, <1>4

LEMMA CounterType ==
    ASSUME TypeOK, NEW m \in Minutes
    PROVE  /\ counter[m].count \in Nat /\ counter[m].until \in Nat
           /\ Counted(m) \in Nat
<1>1. counter[m] \in [count : Nat, until : Nat]
    BY DEF TypeOK
<1>2. counter[m].count \in Nat /\ counter[m].until \in Nat
    BY <1>1
<1>3. QED
    BY <1>2 DEF Counted

LEMMA CountType ==
    ASSUME TypeOK, NEW m, Count(m)
    PROVE  counter' \in [Minutes -> [count : Nat, until : Nat]]
<1>1. now + Ttl \in Nat
    <2>1. now \in 0..MaxNow
        BY DEF TypeOK
    <2>2. QED
        BY <2>1, Bounds
<1>2. m \in Minutes => Counted(m) \in Nat
    BY CounterType
<1>3. [count |-> Counted(m), until |-> now + Ttl] \in [count : Nat, until : Nat]
          \/ m \notin Minutes
    BY <1>1, <1>2
<1>4. counter \in [Minutes -> [count : Nat, until : Nat]]
    BY DEF TypeOK
<1>5. PICK new : new = [count |-> Counted(m), until |-> now + Ttl]
    OBVIOUS
<1>6. counter' = [counter EXCEPT ![m] = new]
    BY <1>5 DEF Count
<1>7. QED
    <2>1. new \in [count : Nat, until : Nat] \/ m \notin Minutes
        BY <1>3, <1>5
    <2>2. QED
        BY <1>4, <1>6, <2>1

(* Whatever becomes of RPCs, Redis and the process, every variable keeps   *)
(* its type.                                                               *)
THEOREM TypeInvariant == Spec => []TypeOK
<1>1. Init => TypeOK
    <2> SUFFICES ASSUME Init
                 PROVE  TypeOK
        OBVIOUS
    <2>1. 0 \in 0..MaxNow /\ 0 \in 0..MaxRetries
        BY Bounds
    <2>2. call \in [Calls -> [state : CallStates, at : 0..MaxNow,
                              redis : {"not asked", "answered", "failed"}]]
        BY <2>1 DEF Init, CallStates
    <2>3. counter \in [Minutes -> [count : Nat, until : Nat]]
        BY DEF Init
    <2>4. QED
        BY <2>1, <2>2, <2>3 DEF Init, TypeOK
<1>2. TypeOK /\ [Next]_vars => TypeOK'
    <2> SUFFICES ASSUME TypeOK, [Next]_vars
                 PROVE  TypeOK'
        OBVIOUS
    <2>1. CASE UNCHANGED vars
        BY <2>1 DEF vars, limiter, ingress, TypeOK
    <2>2. ASSUME NEW c \in Calls, NEW method \in Methods, NEW key \in Keys,
                 Arrive(c, method, key)
          PROVE  TypeOK'
        <3>1. PICK to \in CallStates : call' = [call EXCEPT ![c].state = to]
            BY <2>2 DEF Arrive, Step, CallStates
        <3>2. call' \in [Calls -> [state : CallStates, at : 0..MaxNow,
                                   redis : {"not asked", "answered", "failed"}]]
            BY <3>1 DEF TypeOK
        <3>3. QED
            BY <2>2, <3>2 DEF TypeOK, Arrive, ingress
    <2>3. ASSUME NEW c \in Calls, ReadClock(c)
          PROVE  TypeOK'
        BY <2>3 DEF TypeOK, ReadClock, ingress, CallStates
    <2>4. ASSUME NEW c \in Calls, RateLimitInterceptor(c)
          PROVE  TypeOK'
        <3>1. counter' \in [Minutes -> [count : Nat, until : Nat]]
            BY <2>4, CountType
                DEF RateLimitInterceptor, Answered, FailsOpen, SentAgain, TypeOK
        <3>2. again' \in 0 .. MaxRetries
            <4>1. again \in 0 .. MaxRetries
                BY DEF TypeOK
            <4>2. again' = again \/ (again < MaxRetries /\ again' = again + 1)
                BY <2>4 DEF RateLimitInterceptor, Answered, FailsOpen, SentAgain
            <4>3. QED
                BY <4>1, <4>2, Bounds
        <3>3. call' \in [Calls -> [state : CallStates, at : 0..MaxNow,
                                   redis : {"not asked", "answered", "failed"}]]
            <4>1. CASE Answered(c)
                <5>1. PICK to \in CallStates :
                          call' = [call EXCEPT ![c].state = to, ![c].redis = "answered"]
                    BY <4>1 DEF Answered, CallStates
                <5>2. QED
                    BY <5>1 DEF TypeOK
            <4>2. CASE FailsOpen(c)
                BY <4>2 DEF TypeOK, FailsOpen, CallStates
            <4>3. CASE SentAgain(c)
                BY <4>3 DEF TypeOK, SentAgain, Step, CallStates
            <4>4. QED
                BY <2>4, <4>1, <4>2, <4>3 DEF RateLimitInterceptor
        <3>4. QED
            BY <2>4, <3>1, <3>2, <3>3 DEF RateLimitInterceptor, TypeOK, ingress
    <2>5. ASSUME NEW c \in Calls, Handle(c) \/ CloseStream(c)
          PROVE  TypeOK'
        BY <2>5 DEF TypeOK, Handle, CloseStream, Step, ingress, CallStates
    <2>6. ASSUME NEW n \in Notices, Connect(n) \/ ReadBody(n) \/ Serve(n)
          PROVE  TypeOK'
        <3>1. /\ notice' \in [Notices -> {"none", "reading", "settling", "crediting",
                                          "publishing", "acked", "failed", "cut"}]
              /\ UNCHANGED <<now, limiter, server, gaveUp>>
            BY <2>6 DEF TypeOK, Connect, ReadBody, Serve, SettlePayment,
                CreditSettlement, PublishPaymentEvent, Advance
        <3>2. lost' \in Nat
            <4>1. lost' = lost \/ lost' = lost + 1
                <5>1. CASE Connect(n) \/ ReadBody(n) \/ SettlePayment(n)
                    BY <5>1 DEF Connect, ReadBody, SettlePayment
                <5>2. CASE CreditSettlement(n)
                    BY <5>2 DEF CreditSettlement, Logged
                <5>3. CASE PublishPaymentEvent(n)
                    BY <5>3 DEF PublishPaymentEvent, Logged
                <5>4. QED
                    BY <2>6, <5>1, <5>2, <5>3 DEF Serve
            <4>2. lost \in Nat
                BY DEF TypeOK
            <4>3. QED
                BY <4>1, <4>2
        <3>3. QED
            BY <3>1, <3>2 DEF TypeOK, limiter
    <2>7. CASE Tick
        <3>1. now' \in 0..MaxNow
            <4>1. now \in 0..MaxNow
                BY DEF TypeOK
            <4>2. QED
                BY <2>7, <4>1, Bounds DEF Tick
        <3>2. QED
            BY <2>7, <3>1 DEF TypeOK, Tick, limiter, ingress
    <2>8. CASE Signal \/ Fatal \/ Main
        <3>1. UNCHANGED <<now, limiter, lost>>
            BY <2>8 DEF Signal, Fatal, Main, GracefulStop, Shutdown, CloseKafka,
                ClosePool, Exit, Proceed
        <3>2. /\ server' \in {"stopping", "draining", "drained", "kafkaClosed",
                              "poolClosed", "exited", "killed"}
              /\ gaveUp' \in BOOLEAN
            BY <2>8 DEF TypeOK, Signal, Fatal, Main, GracefulStop, Shutdown,
                CloseKafka, ClosePool, Exit, Proceed, NoticesEnded
        <3>3. notice' = notice \/ notice' = Cut
            BY <2>8 DEF Signal, Fatal, Main, GracefulStop, Shutdown, CloseKafka,
                ClosePool, Exit
        <3>4. QED
            BY <3>1, <3>2, <3>3 DEF TypeOK, limiter, Cut
    <2>9. QED
        BY <2>1, <2>2, <2>3, <2>4, <2>5, <2>6, <2>7, <2>8 DEF Next, Rpc
<1>3. QED
    BY <1>1, <1>2, PTL DEF Spec

-----------------------------------------------------------------------------
(* The end of the process.                                                 *)

(* GracefulStop, and Shutdown after it, have returned.                     *)
RpcsOver == server \in {"draining", "drained", "kafkaClosed", "poolClosed", "exited"}
NoticesOver == server \in {"drained", "kafkaClosed", "poolClosed", "exited"}

Orderly ==
    /\ RpcsOver => CallsEnded
    /\ gaveUp => NoticesOver
    /\ ~gaveUp /\ NoticesOver => NoticesEnded
    /\ ~gaveUp /\ server # "killed" =>
           lost = 0 /\ \A n \in Notices : notice[n] \notin {"cut", "failed"}

(* An RPC takes a step: none does once all have ended.                     *)
LEMMA OrderlyRpc ==
    ASSUME TypeOK, Orderly, NEW c \in Calls,
           \/ \E method \in Methods, key \in Keys : Arrive(c, method, key)
           \/ Rpc(c) \/ CloseStream(c)
    PROVE  Orderly'
<1>1. UNCHANGED <<ingress, server, gaveUp>>
    BY DEF Arrive, Rpc, ReadClock, RateLimitInterceptor, Handle, CloseStream
<1>2. server = "serving" \/ call[c].state \in {"known", "counting", "handling", "open"}
    BY DEF Arrive, Rpc, ReadClock, RateLimitInterceptor, Answered, FailsOpen,
        SentAgain, Handle, CloseStream, Step
<1>3. RpcsOver => FALSE
    BY <1>2 DEF Orderly, RpcsOver, CallsEnded
<1>4. QED
    BY <1>1, <1>3 DEF Orderly, RpcsOver, NoticesOver, NoticesEnded, ingress

(* A notification takes a step: the pool and Kafka are open until the HTTP *)
(* server has let the last one go.                                         *)
LEMMA OrderlyNotice ==
    ASSUME TypeOK, Orderly, NEW n \in Notices, Connect(n) \/ ReadBody(n) \/ Serve(n)
    PROVE  Orderly'
<1>1. /\ UNCHANGED <<call, server, gaveUp>>
      /\ \A k \in Notices \ {n} : notice'[k] = notice[k]
    BY DEF Connect, ReadBody, Serve, SettlePayment, CreditSettlement,
        PublishPaymentEvent, Advance, limiter, TypeOK
<1>2. CallsEnded' = CallsEnded /\ RpcsOver' = RpcsOver
    BY <1>1 DEF CallsEnded, RpcsOver
<1>3. CASE gaveUp \/ server = "killed"
    BY <1>1, <1>2, <1>3 DEF Orderly, NoticesOver
<1>4. CASE ~gaveUp /\ server # "killed"
    <2>1. ~NoticesOver
        <3>1. server \in {"serving", "stopping"}
                  \/ notice[n] \in {"reading", "settling", "crediting", "publishing"}
            BY DEF Connect, ReadBody, Serve, SettlePayment, CreditSettlement,
                PublishPaymentEvent, Advance
        <3>2. QED
            BY <1>4, <3>1 DEF Orderly, NoticesOver, NoticesEnded
    <2>2. PoolOpen /\ KafkaOpen
        BY <2>1 DEF NoticesOver, PoolOpen, KafkaOpen
    <2>3. lost' = lost
        BY <2>2 DEF Connect, ReadBody, Serve, SettlePayment, CreditSettlement,
            PublishPaymentEvent, Logged
    <2>4. notice'[n] \notin {"cut", "failed"}
        BY <2>2 DEF Connect, ReadBody, Serve, SettlePayment, CreditSettlement,
            PublishPaymentEvent, Advance, TypeOK
    <2>5. NoticesOver' = NoticesOver
        BY <1>1 DEF NoticesOver
    <2>6. QED
        BY <1>1, <1>2, <1>4, <2>1, <2>3, <2>4, <2>5 DEF Orderly
<1>5. QED
    BY <1>3, <1>4

LEMMA OrderlyMain ==
    ASSUME TypeOK, Orderly, Signal \/ Fatal \/ Main
    PROVE  Orderly'
<1>1. call' = call /\ lost' = lost
    BY DEF Signal, Fatal, Main, GracefulStop, Shutdown, CloseKafka, ClosePool,
        Exit, Proceed, limiter
<1>2. CallsEnded' = CallsEnded
    BY <1>1 DEF CallsEnded
<1>3. CASE Signal
    BY <1>1, <1>3 DEF Signal, Proceed, Orderly, RpcsOver, NoticesOver
<1>4. CASE Fatal
    BY <1>4 DEF Fatal, Proceed, Orderly, RpcsOver, NoticesOver
<1>5. CASE GracefulStop
    BY <1>1, <1>2, <1>5 DEF GracefulStop, Proceed, Orderly, RpcsOver, NoticesOver
<1>6. CASE Shutdown
    <2>1. notice' = notice /\ server = "draining" /\ server' = "drained"
        BY <1>6 DEF Shutdown, Proceed
    <2>2. NoticesEnded' = NoticesEnded
        BY <2>1 DEF NoticesEnded
    <2>3. gaveUp' = ~NoticesEnded
        BY <1>6 DEF Shutdown
    <2>4. ~gaveUp' => NoticesEnded
        BY <2>3
    <2>5. CallsEnded
        BY <2>1 DEF Orderly, RpcsOver
    <2>6. ~gaveUp' => lost = 0 /\ \A n \in Notices : notice[n] \notin {"cut", "failed"}
        BY <2>1 DEF Orderly, NoticesOver
    <2>7. QED
        BY <1>1, <1>2, <2>1, <2>2, <2>4, <2>5, <2>6 DEF Orderly, NoticesOver
<1>7. CASE CloseKafka \/ ClosePool
    <2>1. /\ notice' = notice /\ gaveUp' = gaveUp
          /\ RpcsOver /\ NoticesOver /\ NoticesOver'
          /\ server # "killed" /\ server' # "killed"
        BY <1>7 DEF CloseKafka, ClosePool, Proceed, RpcsOver, NoticesOver
    <2>2. NoticesEnded' = NoticesEnded
        BY <2>1 DEF NoticesEnded
    <2>3. QED
        BY <1>1, <1>2, <2>1, <2>2 DEF Orderly
<1>8. CASE Exit
    <2>1. /\ gaveUp' = gaveUp /\ notice' = Cut
          /\ RpcsOver /\ NoticesOver /\ NoticesOver'
          /\ server # "killed" /\ server' # "killed"
        BY <1>8 DEF Exit, Proceed, RpcsOver, NoticesOver
    <2>2. CASE gaveUp
        BY <1>1, <1>2, <2>1, <2>2 DEF Orderly
    <2>3. CASE ~gaveUp
        <3>1. NoticesEnded
            BY <2>1, <2>3 DEF Orderly
        <3>2. Cut = notice
            BY <3>1 DEF Cut, NoticesEnded, TypeOK
        <3>3. NoticesEnded'
            BY <2>1, <3>1, <3>2 DEF NoticesEnded
        <3>4. QED
            BY <1>1, <1>2, <2>1, <3>2, <3>3 DEF Orderly
    <2>4. QED
        BY <2>2, <2>3
<1>9. QED
    BY <1>3, <1>4, <1>5, <1>6, <1>7, <1>8 DEF Main

(* A process that ends on a signal cuts off no RPC, and unless Shutdown    *)
(* gave up no notification of OpenPay either, and it answers none that was *)
(* not credited and published: main closes Kafka and the pool only after   *)
(* the servers.                                                            *)
THEOREM OrderlyEnd == Spec => []ShutdownLosesNothing
<1>1. Init => Orderly
    BY DEF Init, Orderly, RpcsOver, NoticesOver
<1>2. TypeOK /\ Orderly /\ [Next]_vars => Orderly'
    <2> SUFFICES ASSUME TypeOK, Orderly, [Next]_vars
                 PROVE  Orderly'
        OBVIOUS
    <2>1. CASE UNCHANGED vars
        BY <2>1 DEF vars, limiter, ingress, Orderly, RpcsOver, NoticesOver,
            CallsEnded, NoticesEnded
    <2>2. CASE Tick
        BY <2>2 DEF Tick, limiter, ingress, Orderly, RpcsOver, NoticesOver,
            CallsEnded, NoticesEnded
    <2>3. QED
        BY <2>1, <2>2, OrderlyRpc, OrderlyNotice, OrderlyMain DEF Next
<1>3. Orderly => ShutdownLosesNothing
    BY DEF Orderly, RpcsOver, ShutdownLosesNothing
<1>4. QED
    BY <1>1, <1>2, <1>3, TypeInvariant, PTL DEF Spec

-----------------------------------------------------------------------------
(* The rate limit.                                                         *)

(* What the counter of a minute has let through, and what it was asked.    *)
Passed(m) == {c \in Calls : /\ call[c].redis = "answered" /\ call[c].state # "limited"
                            /\ WindowKey(call[c].at) = m}
Asked(m) == {c \in Calls : call[c].redis # "not asked" /\ WindowKey(call[c].at) = m}

(* A call waits for Redis no longer than the counter of its minute lives.  *)
CallsFit ==
    \A c \in Calls :
        /\ call[c].state = "counting" =>
               call[c].at <= now /\ now - call[c].at <= MaxDelay
        /\ call[c].state \in {"none", "refused", "known", "counting", "open", "closed"} =>
               call[c].redis = "not asked"

CountersFit ==
    \A m \in Minutes :
        /\ counter[m].count > 0 => counter[m].until >= m * Minute + Ttl
        /\ Cardinality(Passed(m)) <= counter[m].count
        /\ Cardinality(Passed(m)) <= Limit
        /\ counter[m].count <= again + Cardinality(Asked(m))

RefusalsFit ==
    \A c \in Calls, m \in Minutes :
        call[c].state = "limited" /\ WindowKey(call[c].at) = m =>
            again + Cardinality(Asked(m)) > Limit

Fit == CallsFit /\ CountersFit /\ RefusalsFit

LEMMA DivFacts ==
    ASSUME NEW a \in Nat, NEW b \in Nat, b >= 1
    PROVE  a \div b \in Nat /\ (a \div b) * b <= a /\ a < (a \div b) * b + b
OBVIOUS

LEMMA MultipleFacts ==
    ASSUME NEW p \in Nat, NEW q \in Nat, NEW b \in Nat, b >= 1, p + 1 <= q
    PROVE  p * b + b <= q * b
<1>1. (q - p - 1) * b >= 0
    OBVIOUS
<1>2. QED
    BY <1>1

LEMMA WindowFacts ==
    ASSUME NEW t \in Nat
    PROVE  /\ WindowKey(t) \in Nat
           /\ WindowKey(t) * Minute <= t /\ t < WindowKey(t) * Minute + Minute
           /\ t <= MaxNow => WindowKey(t) \in Minutes
<1>1. /\ WindowKey(t) \in Nat /\ MaxNow \div Minute \in Nat
      /\ WindowKey(t) * Minute <= t /\ t < WindowKey(t) * Minute + Minute
      /\ MaxNow < (MaxNow \div Minute) * Minute + Minute
    BY DivFacts, Bounds DEF WindowKey
<1>2. ASSUME t <= MaxNow
      PROVE  WindowKey(t) <= MaxNow \div Minute
    <2> SUFFICES ASSUME MaxNow \div Minute + 1 <= WindowKey(t)
                 PROVE  FALSE
        BY <1>1
    <2>1. (MaxNow \div Minute) * Minute + Minute <= WindowKey(t) * Minute
        BY <1>1, MultipleFacts, Bounds
    <2>2. QED
        BY <1>1, <1>2, <2>1, Bounds
<1>3. QED
    BY <1>1, <1>2 DEF Minutes

(* Less than a minute lies in at most two calendar minutes.                *)
LEMMA TwoWindows ==
    ASSUME NEW t \in Nat, NEW u \in Nat, t <= u, u <= t + Minute - 1
    PROVE  WindowKey(u) \in {WindowKey(t), WindowKey(t) + 1}
<1>1. PICK p \in Nat : p = WindowKey(t)
    BY WindowFacts
<1>2. PICK q \in Nat : q = WindowKey(u)
    BY WindowFacts
<1>3. p * Minute <= t /\ t < p * Minute + Minute
    BY <1>1, WindowFacts
<1>4. q * Minute <= u /\ u < q * Minute + Minute
    BY <1>2, WindowFacts
<1>5. ~(q + 1 <= p)
    <2> SUFFICES ASSUME q + 1 <= p
                 PROVE  FALSE
        OBVIOUS
    <2>1. q * Minute + Minute <= p * Minute
        BY MultipleFacts, Bounds
    <2>2. QED
        BY <1>3, <1>4, <2>1, Bounds
<1>6. ~((p + 1) + 1 <= q)
    <2> SUFFICES ASSUME (p + 1) + 1 <= q
                 PROVE  FALSE
        OBVIOUS
    <2>1. (p + 1) * Minute + Minute <= q * Minute
        BY MultipleFacts, Bounds
    <2>2. (p + 1) * Minute = p * Minute + Minute
        BY Bounds
    <2>3. QED
        BY <1>3, <1>4, <2>1, <2>2, Bounds
<1>7. QED
    BY <1>1, <1>2, <1>5, <1>6

LEMMA AccountsFinite ==
    ASSUME NEW m
    PROVE  /\ IsFiniteSet(Passed(m)) /\ Cardinality(Passed(m)) \in Nat
           /\ IsFiniteSet(Asked(m)) /\ Cardinality(Asked(m)) \in Nat
<1>1. Passed(m) \subseteq Calls /\ Asked(m) \subseteq Calls
    BY DEF Passed, Asked
<1>2. IsFiniteSet(Calls)
    BY ServerAssumption
<1>3. QED
    BY <1>1, <1>2, FS_Subset, FS_CardinalityType

(* A step that Redis has no part in.                                       *)
LEMMA FitElsewhere ==
    ASSUME TypeOK, Fit, UNCHANGED <<counter, again>>, CallsFit',
           \A d \in Calls :  /\ call'[d].redis = call[d].redis
                             /\ call[d].redis # "not asked" => call'[d].at = call[d].at
                             /\ call'[d].state = "limited" <=> call[d].state = "limited",
           \A d \in Calls : call[d].state = "limited" => call'[d].at = call[d].at
    PROVE  Fit'
<1>1. ASSUME NEW m
      PROVE  Passed(m)' = Passed(m) /\ Asked(m)' = Asked(m)
    BY DEF Passed, Asked
<1>2. CountersFit'
    BY <1>1 DEF Fit, CountersFit
<1>3. RefusalsFit'
    <2> SUFFICES ASSUME NEW d \in Calls, NEW m \in Minutes,
                        call'[d].state = "limited", WindowKey(call'[d].at) = m
                 PROVE  again' + Cardinality(Asked(m)') > Limit
        BY DEF RefusalsFit, WindowKey
    <2>1. call[d].state = "limited" /\ WindowKey(call[d].at) = m
        OBVIOUS
    <2>2. QED
        BY <1>1, <2>1 DEF Fit, RefusalsFit
<1>4. QED
    BY <1>2, <1>3 DEF Fit

LEMMA FitCall ==
    ASSUME TypeOK, Fit, NEW c \in Calls,
           \/ \E method \in Methods, key \in Keys : Arrive(c, method, key)
           \/ ReadClock(c) \/ Handle(c) \/ CloseStream(c)
    PROVE  Fit'
<1>1. UNCHANGED <<now, counter, again>>
    BY DEF Arrive, ReadClock, Handle, CloseStream
<1>2. /\ \A d \in Calls \ {c} : call'[d] = call[d]
      /\ call'[c].redis = call[c].redis
      /\ call[c].state # "limited" /\ call'[c].state # "limited"
      /\ call'[c].at = call[c].at \/ (ReadClock(c) /\ call'[c].at = now)
      /\ call'[c].state = "counting" => ReadClock(c)
      /\ call'[c].state \in {"none", "refused", "known", "counting", "open", "closed"} =>
             call[c].state \in {"none", "known", "open"}
    <2>0. call \in [Calls -> [state : CallStates, at : 0..MaxNow,
                              redis : {"not asked", "answered", "failed"}]]
        BY DEF TypeOK
    <2>1. CASE \E method \in Methods, key \in Keys : Arrive(c, method, key)
        <3>1. PICK to \in {"refused", "known", "open", "handling"} :
                  call' = [call EXCEPT ![c].state = to]
            BY <2>1 DEF Arrive, Step
        <3>2. call[c].state = "none"
            BY <2>1 DEF Arrive, Step
        <3>3. QED
            BY <2>0, <3>1, <3>2
    <2>2. CASE ReadClock(c)
        BY <2>0, <2>2 DEF ReadClock
    <2>3. CASE Handle(c)
        BY <2>0, <2>3 DEF Handle, Step
    <2>4. CASE CloseStream(c)
        <3>1. call[c].state = "open" /\ call' = [call EXCEPT ![c].state = "closed"]
            BY <2>4 DEF CloseStream, Step
        <3>2. QED
            BY <2>0, <3>1
    <2>5. QED
        BY <2>1, <2>2, <2>3, <2>4
<1>3. ReadClock(c) => call[c].redis = "not asked" /\ call'[c].at = now
    BY DEF ReadClock, Fit, CallsFit, TypeOK
<1>4. CallsFit'
    <2>1. now \in Int /\ 0 <= MaxDelay /\ MaxDelay \in Int
        <3>1. now \in 0..MaxNow
            BY DEF TypeOK
        <3>2. QED
            BY <3>1, Bounds, ServerAssumption
    <2>2. now <= now /\ now - now <= MaxDelay
        BY <2>1
    <2>3. QED
        <3> SUFFICES ASSUME NEW d \in Calls
                     PROVE  /\ call'[d].state = "counting" =>
                                  call'[d].at <= now' /\ now' - call'[d].at <= MaxDelay
                            /\ call'[d].state \in {"none", "refused", "known", "counting",
                                                   "open", "closed"} =>
                                  call'[d].redis = "not asked"
            BY DEF CallsFit
        <3>1. CASE d = c
            <4>1. call'[d].state = "counting" => call'[d].at = now /\ now' = now
                BY <1>1, <1>2, <1>3, <3>1
            <4>2. call'[d].state \in {"none", "refused", "known", "counting",
                                      "open", "closed"} => call'[d].redis = "not asked"
                BY <1>2, <3>1 DEF Fit, CallsFit
            <4>3. QED
                BY <4>1, <4>2, <2>2
        <3>2. CASE d # c
            BY <1>1, <1>2, <3>2 DEF Fit, CallsFit
        <3>3. QED
            BY <3>1, <3>2
<1>5. QED
    BY <1>1, <1>2, <1>3, <1>4, FitElsewhere

(* The counter of the minute in which a waiting call read the clock has    *)
(* not expired.                                                            *)
LEMMA NotExpired ==
    ASSUME TypeOK, Fit, NEW c \in Calls, call[c].state = "counting",
           NEW m, m = WindowKey(call[c].at)
    PROVE  /\ m \in Minutes /\ Counted(m) = counter[m].count + 1
           /\ now + Ttl >= m * Minute + Ttl
<1>1. PICK a \in Nat : a = call[c].at /\ a <= MaxNow
    BY CallType
<1>2. m \in Nat /\ m \in Minutes /\ m * Minute <= a /\ a < m * Minute + Minute
    BY <1>1, WindowFacts
<1>3. a <= now /\ now - a <= MaxDelay /\ now \in Nat
    BY <1>1, CallType DEF Fit, CallsFit
<1>4. PICK w \in Nat : w = m * Minute
    BY <1>2, Bounds
<1>5. w <= a /\ a < w + Minute
    BY <1>2, <1>4
<1>6. now < w + Ttl /\ now + Ttl >= w + Ttl
    BY <1>3, <1>5, Bounds, DelayBound
<1>7. Counted(m) = counter[m].count + 1
    <2>1. counter[m].count > 0 => now < counter[m].until
        BY <1>2, <1>3, <1>4, <1>6, CounterType, Bounds DEF Fit, CountersFit
    <2>2. counter[m].count \in Nat
        BY <1>2, CounterType
    <2>3. QED
        BY <2>1, <2>2 DEF Counted
<1>8. QED
    BY <1>2, <1>4, <1>6, <1>7

(* What the pipeline does to the accounts of all minutes.                  *)
LEMMA AccountsOfStep ==
    ASSUME TypeOK, Fit, NEW c \in Calls, RateLimitInterceptor(c),
           NEW m, m = WindowKey(call[c].at)
    PROVE  /\ UNCHANGED now
           /\ \A d \in Calls \ {c} : call'[d] = call[d]
           /\ call[c].state = "counting" /\ call[c].redis = "not asked"
           /\ call'[c].at = call[c].at
           /\ c \notin Passed(m) /\ c \notin Asked(m)
           /\ Passed(m)' = IF Answered(c) /\ Counted(m) <= Limit
                           THEN Passed(m) \cup {c} ELSE Passed(m)
           /\ Asked(m)' = IF SentAgain(c) THEN Asked(m) ELSE Asked(m) \cup {c}
           /\ call'[c].state = "limited" <=> Answered(c) /\ Counted(m) > Limit
           /\ SentAgain(c) => call' = call
           /\ ~SentAgain(c) => call'[c].state \in {"limited", "handling"}
<1>0. call \in [Calls -> [state : CallStates, at : 0..MaxNow,
                          redis : {"not asked", "answered", "failed"}]]
    BY DEF TypeOK
<1>1. call[c].state = "counting" /\ UNCHANGED now
    BY DEF RateLimitInterceptor, Answered, FailsOpen, SentAgain, Step
<1>2. call[c].redis = "not asked"
    BY <1>1 DEF Fit, CallsFit
<1>3. m \in Minutes /\ Counted(m) \in Nat
    BY <1>1, NotExpired, CounterType
<1>4. c \notin Passed(m) /\ c \notin Asked(m)
    BY <1>2 DEF Passed, Asked
<1>5. CASE SentAgain(c)
    <2>1. call' = call
        <3>1. call' = [call EXCEPT ![c].state = "counting"]
            BY <1>5 DEF SentAgain, Step
        <3>2. QED
            BY <1>0, <1>1, <3>1
    <2>2. ~Answered(c)
        BY <1>0, <1>2, <2>1 DEF Answered
    <2>3. QED
        BY <1>1, <1>2, <1>4, <1>5, <2>1, <2>2 DEF Passed, Asked
<1>6. CASE FailsOpen(c)
    <2>1. call' = [call EXCEPT ![c].state = "handling", ![c].redis = "failed"]
        BY <1>6 DEF FailsOpen
    <2>2. /\ \A d \in Calls \ {c} : call'[d] = call[d]
          /\ call'[c].state = "handling" /\ call'[c].redis = "failed"
          /\ call'[c].at = call[c].at
        BY <1>0, <2>1
    <2>3. ~Answered(c) /\ ~SentAgain(c)
        BY <1>0, <1>2, <2>2 DEF Answered, SentAgain, Step
    <2>4. QED
        BY <1>1, <1>2, <1>4, <2>2, <2>3 DEF Passed, Asked
<1>7. CASE Answered(c)
    <2>1. call' = [call EXCEPT ![c].state = IF Counted(m) > Limit
                                            THEN "limited" ELSE "handling",
                               ![c].redis = "answered"]
        BY <1>7 DEF Answered
    <2>2. /\ \A d \in Calls \ {c} : call'[d] = call[d]
          /\ call'[c].redis = "answered" /\ call'[c].at = call[c].at
          /\ call'[c].state = IF Counted(m) > Limit THEN "limited" ELSE "handling"
        BY <1>0, <2>1
    <2>3. ~SentAgain(c)
        BY <1>0, <1>2, <2>2 DEF SentAgain, Step
    <2>4. Counted(m) <= Limit <=> ~(Counted(m) > Limit)
        BY <1>3, Bounds
    <2>5. QED
        BY <1>1, <1>2, <1>4, <1>7, <2>2, <2>3, <2>4 DEF Passed, Asked
<1>8. QED
    BY <1>5, <1>6, <1>7 DEF RateLimitInterceptor

LEMMA CountersOfStep ==
    ASSUME TypeOK, Fit, NEW c \in Calls, RateLimitInterceptor(c),
           NEW m \in Minutes, m = WindowKey(call[c].at)
    PROVE  /\ \A x \in Minutes \ {m} : counter'[x] = counter[x]
           /\ \/ counter'[m] = counter[m] /\ FailsOpen(c)
              \/ counter'[m].count = Counted(m) /\ counter'[m].until = now + Ttl
           /\ again' = IF SentAgain(c) THEN again + 1 ELSE again
<1>0. counter \in [Minutes -> [count : Nat, until : Nat]]
    BY DEF TypeOK
<1>1. ASSUME Count(m)
      PROVE  /\ \A x \in Minutes \ {m} : counter'[x] = counter[x]
             /\ counter'[m].count = Counted(m) /\ counter'[m].until = now + Ttl
    BY <1>0, <1>1 DEF Count
<1>2. Count(m) \/ (UNCHANGED counter /\ FailsOpen(c))
    BY DEF RateLimitInterceptor, Answered, FailsOpen, SentAgain
<1>3. again' = IF SentAgain(c) THEN again + 1 ELSE again
    BY DEF RateLimitInterceptor, Answered, FailsOpen, SentAgain
<1>4. QED
    BY <1>1, <1>2, <1>3

LEMMA FitPipeline ==
    ASSUME TypeOK, Fit, NEW c \in Calls, RateLimitInterceptor(c)
    PROVE  Fit'
<1>0. call[c].state = "counting"
    BY DEF RateLimitInterceptor, Answered, FailsOpen, SentAgain, Step
<1>1. PICK m \in Minutes : m = WindowKey(call[c].at)
    BY <1>0, NotExpired
<1>2. /\ Counted(m) = counter[m].count + 1
      /\ now + Ttl >= m * Minute + Ttl
    BY <1>0, <1>1, NotExpired
<1>3. /\ UNCHANGED now
      /\ \A d \in Calls \ {c} : call'[d] = call[d]
      /\ call[c].state = "counting" /\ call[c].redis = "not asked"
      /\ call'[c].at = call[c].at
      /\ c \notin Passed(m) /\ c \notin Asked(m)
      /\ Passed(m)' = IF Answered(c) /\ Counted(m) <= Limit
                      THEN Passed(m) \cup {c} ELSE Passed(m)
      /\ Asked(m)' = IF SentAgain(c) THEN Asked(m) ELSE Asked(m) \cup {c}
      /\ call'[c].state = "limited" <=> Answered(c) /\ Counted(m) > Limit
      /\ SentAgain(c) => call' = call
      /\ ~SentAgain(c) => call'[c].state \in {"limited", "handling"}
    BY <1>1, AccountsOfStep
<1>4. ASSUME NEW x \in Minutes, x # m
      PROVE  Passed(x)' = Passed(x) /\ Asked(x)' = Asked(x)
    <2>1. c \notin Passed(x) /\ c \notin Asked(x)
        BY <1>1, <1>4 DEF Passed, Asked
    <2>2. WindowKey(call'[c].at) = m
        BY <1>1, <1>3
    <2>3. c \notin Passed(x)' /\ c \notin Asked(x)'
        BY <1>4, <2>2 DEF Passed, Asked
    <2>4. ASSUME NEW d \in Calls, d # c
          PROVE  /\ d \in Passed(x)' <=> d \in Passed(x)
                 /\ d \in Asked(x)' <=> d \in Asked(x)
        <3>1. call'[d] = call[d]
            BY <1>3, <2>4
        <3>2. QED
            BY <3>1 DEF Passed, Asked
    <2>5. /\ Passed(x) \subseteq Calls /\ Passed(x)' \subseteq Calls
          /\ Asked(x) \subseteq Calls /\ Asked(x)' \subseteq Calls
        BY DEF Passed, Asked
    <2>6. QED
        BY <2>1, <2>3, <2>4, <2>5
<1>5. /\ \A x \in Minutes \ {m} : counter'[x] = counter[x]
      /\ \/ counter'[m] = counter[m] /\ FailsOpen(c)
         \/ counter'[m].count = Counted(m) /\ counter'[m].until = now + Ttl
      /\ again' = IF SentAgain(c) THEN again + 1 ELSE again
    BY <1>1, CountersOfStep
<1>6. PICK k \in Nat : k = counter[m].count
    BY CounterType
<1>7. again \in Nat /\ again' \in Nat /\ again' >= again
    <2>1. again \in 0..MaxRetries
        BY DEF TypeOK
    <2>2. again \in Nat
        BY <2>1, Bounds
    <2>3. QED
        BY <1>5, <2>2
<1>8. /\ IsFiniteSet(Passed(m)) /\ Cardinality(Passed(m)) \in Nat
      /\ IsFiniteSet(Asked(m)) /\ Cardinality(Asked(m)) \in Nat
    BY AccountsFinite
<1>9. /\ Cardinality(Passed(m) \cup {c}) = Cardinality(Passed(m)) + 1
      /\ Cardinality(Asked(m) \cup {c}) = Cardinality(Asked(m)) + 1
    BY <1>3, <1>8, FS_AddElement
<1>10. /\ Cardinality(Asked(m)') \in Nat
      /\ Cardinality(Asked(m)') = IF SentAgain(c) THEN Cardinality(Asked(m))
                                  ELSE Cardinality(Asked(m)) + 1
    <2>1. CASE SentAgain(c)
        <3>1. Asked(m)' = Asked(m)
            BY <1>3, <2>1
        <3>2. QED
            BY <1>8, <2>1, <3>1
    <2>2. CASE ~SentAgain(c)
        <3>1. Asked(m)' = Asked(m) \cup {c}
            BY <1>3, <2>2
        <3>2. QED
            BY <1>8, <1>9, <2>2, <3>1
    <2>3. QED
        BY <2>1, <2>2
<1>11. /\ k > 0 => counter[m].until >= m * Minute + Ttl
      /\ Cardinality(Passed(m)) <= k /\ Cardinality(Passed(m)) <= Limit
      /\ k <= again + Cardinality(Asked(m))
    BY <1>6 DEF Fit, CountersFit
<1>12. CallsFit'
    BY <1>3 DEF Fit, CallsFit
<1>13. k + 1 <= again' + Cardinality(Asked(m)')
    <2>1. CASE SentAgain(c)
        <3>1. again' = again + 1
            BY <1>5, <2>1
        <3>2. QED
            BY <1>7, <1>8, <1>11, <1>10, <2>1, <3>1
    <2>2. CASE ~SentAgain(c)
        <3>1. again' = again
            BY <1>5, <2>2
        <3>2. QED
            BY <1>7, <1>8, <1>11, <1>10, <2>2, <3>1
    <2>3. QED
        BY <2>1, <2>2
<1>14. /\ counter'[m].count \in {k, k + 1}
       /\ Answered(c) => counter'[m].count = k + 1
       /\ counter'[m].count > 0 => counter'[m].until >= m * Minute + Ttl
    <2>1. CASE counter'[m] = counter[m] /\ FailsOpen(c)
        <3>1. ~Answered(c)
            <4>1. call[c].redis = "not asked" /\ call \in [Calls -> [state : CallStates,
                      at : 0..MaxNow, redis : {"not asked", "answered", "failed"}]]
                BY <1>3 DEF TypeOK
            <4>2. call'[c].redis = "failed"
                BY <2>1, <4>1 DEF FailsOpen
            <4>3. Answered(c) => call'[c].redis = "answered"
                BY <4>1 DEF Answered
            <4>4. QED
                BY <4>2, <4>3
        <3>2. QED
            BY <1>6, <1>11, <2>1, <3>1
    <2>2. CASE counter'[m].count = Counted(m) /\ counter'[m].until = now + Ttl
        BY <1>2, <1>6, <2>2
    <2>3. QED
        BY <1>5, <2>1, <2>2
<1>15. /\ Cardinality(Passed(m)') <= counter'[m].count
       /\ Cardinality(Passed(m)') <= Limit
    <2>1. CASE Answered(c) /\ Counted(m) <= Limit
        <3>1. Cardinality(Passed(m)') = Cardinality(Passed(m)) + 1
            BY <1>3, <1>9, <2>1
        <3>2. k + 1 <= Limit
            BY <1>2, <1>6, <2>1
        <3>3. counter'[m].count = k + 1
            BY <1>14, <2>1
        <3>4. QED
            BY <1>8, <1>11, <3>1, <3>2, <3>3, Bounds
    <2>2. CASE ~(Answered(c) /\ Counted(m) <= Limit)
        <3>1. Passed(m)' = Passed(m)
            BY <1>3, <2>2
        <3>2. QED
            BY <1>8, <1>11, <1>14, <3>1
    <2>3. QED
        BY <2>1, <2>2
<1>16. CountersFit'
    <2> SUFFICES ASSUME NEW x \in Minutes
                 PROVE  /\ counter'[x].count > 0 => counter'[x].until >= x * Minute + Ttl
                        /\ Cardinality(Passed(x)') <= counter'[x].count
                        /\ Cardinality(Passed(x)') <= Limit
                        /\ counter'[x].count <= again' + Cardinality(Asked(x)')
        BY DEF CountersFit
    <2>1. CASE x = m
        <3>1. counter'[m].count <= again' + Cardinality(Asked(m)')
            BY <1>7, <1>13, <1>14, <1>10
        <3>2. QED
            BY <1>14, <1>15, <2>1, <3>1
    <2>2. CASE x # m
        <3>1. Passed(x)' = Passed(x) /\ Asked(x)' = Asked(x) /\ counter'[x] = counter[x]
            BY <1>5, <1>4, <2>2
        <3>2. /\ counter[x].count > 0 => counter[x].until >= x * Minute + Ttl
              /\ Cardinality(Passed(x)) <= counter[x].count
              /\ Cardinality(Passed(x)) <= Limit
              /\ counter[x].count <= again + Cardinality(Asked(x))
            BY DEF Fit, CountersFit
        <3>3. counter[x].count \in Nat /\ Cardinality(Asked(x)) \in Nat
            BY CounterType, AccountsFinite
        <3>4. counter[x].count <= again' + Cardinality(Asked(x))
            BY <1>7, <3>2, <3>3
        <3>5. QED
            BY <3>1, <3>2, <3>4
    <2>3. QED
        BY <2>1, <2>2
<1>17. RefusalsFit'
    <2> SUFFICES ASSUME NEW d \in Calls, NEW x \in Minutes,
                        call'[d].state = "limited", WindowKey(call'[d].at) = x
                 PROVE  again' + Cardinality(Asked(x)') > Limit
        BY DEF RefusalsFit, WindowKey
    <2>1. CASE d = c
        <3>1. x = m
            BY <1>1, <1>3, <2>1
        <3>2. k + 1 > Limit
            BY <1>2, <1>3, <1>6, <2>1
        <3>3. QED
            BY <1>7, <1>13, <1>10, <3>1, <3>2, Bounds
    <2>2. CASE d # c
        <3>1. call[d].state = "limited" /\ WindowKey(call[d].at) = x
            BY <1>3, <2>2
        <3>2. again + Cardinality(Asked(x)) > Limit
            BY <3>1 DEF Fit, RefusalsFit
        <3>3. Cardinality(Asked(x)) \in Nat
            BY AccountsFinite
        <3>4. /\ Cardinality(Asked(x)') \in Nat
              /\ Cardinality(Asked(x)') >= Cardinality(Asked(x))
            <4>1. CASE x = m
                BY <1>8, <1>10, <4>1
            <4>2. CASE x # m
                <5>1. Asked(x)' = Asked(x)
                    BY <1>4, <4>2
                <5>2. QED
                    BY <3>3, <5>1
            <4>3. QED
                BY <4>1, <4>2
        <3>5. QED
            BY <1>7, <3>2, <3>3, <3>4, Bounds
    <2>3. QED
        BY <2>1, <2>2
<1>18. QED
    BY <1>12, <1>16, <1>17 DEF Fit

LEMMA FitStep ==
    ASSUME TypeOK, Fit, [Next]_vars
    PROVE  Fit'
<1>1. ASSUME UNCHANGED <<now, limiter>>
      PROVE  Fit'
    <2>1. \A m \in Minutes : Passed(m)' = Passed(m) /\ Asked(m)' = Asked(m)
        BY <1>1 DEF Passed, Asked, limiter
    <2>2. CallsFit'
        BY <1>1 DEF Fit, CallsFit, limiter
    <2>3. QED
        BY <1>1, <2>1, <2>2, FitElsewhere DEF limiter
<1>2. CASE Tick
    <2>1. call' = call /\ UNCHANGED <<counter, again>>
        BY <1>2 DEF Tick, limiter
    <2>2. CallsFit'
        <3> SUFFICES ASSUME NEW c \in Calls, call[c].state = "counting"
                     PROVE  call[c].at <= now' /\ now' - call[c].at <= MaxDelay
            BY <2>1 DEF Fit, CallsFit
        <3>1. call[c].at \in Nat /\ now \in Nat
            BY CallType
        <3>2. call[c].at <= now /\ now - call[c].at < MaxDelay /\ now' = now + 1
            BY <1>2 DEF Fit, CallsFit, Tick
        <3>3. QED
            BY <3>1, <3>2, DelayBound
    <2>3. QED
        BY <2>1, <2>2, FitElsewhere
<1>3. CASE \E n \in Notices : Connect(n) \/ ReadBody(n) \/ Serve(n)
    <2>1. UNCHANGED <<now, limiter>>
        BY <1>3 DEF Connect, ReadBody, Serve, SettlePayment, CreditSettlement,
            PublishPaymentEvent, Advance
    <2>2. QED
        BY <1>1, <2>1
<1>4. CASE Signal \/ Fatal \/ Main
    <2>1. UNCHANGED <<now, limiter>>
        BY <1>4 DEF Signal, Fatal, Main, GracefulStop, Shutdown, CloseKafka,
            ClosePool, Exit, Proceed
    <2>2. QED
        BY <1>1, <2>1
<1>5. CASE UNCHANGED vars
    BY <1>1, <1>5 DEF vars
<1>6. QED
    BY <1>2, <1>3, <1>4, <1>5, FitCall, FitPipeline DEF Next, Rpc

LEMMA PassedBounded ==
    ASSUME TypeOK, Fit, NEW m \in Nat
    PROVE  Cardinality(Passed(m)) <= Limit
<1>1. CASE m \in Minutes
    BY <1>1 DEF Fit, CountersFit
<1>2. CASE m \notin Minutes
    <2>1. \A c \in Calls : WindowKey(call[c].at) \in Minutes
        BY CallType, WindowFacts
    <2>2. Passed(m) = {}
        BY <1>2, <2>1 DEF Passed
    <2>3. QED
        BY <2>2, FS_EmptySet, Bounds
<1>3. QED
    BY <1>1, <1>2

LEMMA AtMostTwice ==
    ASSUME TypeOK, Fit, NEW t \in 0..MaxNow
    PROVE  Cardinality({c \in Calls : /\ call[c].redis = "answered" /\ call[c].state # "limited"
                                      /\ call[c].at \in t..(t + Minute - 1)})
               <= 2 * Limit
<1>1. PICK S : S = {c \in Calls :
                      /\ call[c].redis = "answered" /\ call[c].state # "limited"
                      /\ call[c].at \in t..(t + Minute - 1)}
    OBVIOUS
<1>2. t \in Nat
    BY Bounds
<1>3. PICK p \in Nat : p = WindowKey(t)
    BY <1>2, WindowFacts
<1>4. S \subseteq Passed(p) \cup Passed(p + 1)
    <2> SUFFICES ASSUME NEW c \in S
                 PROVE  c \in Passed(p) \cup Passed(p + 1)
        OBVIOUS
    <2>1. /\ c \in Calls /\ call[c].redis = "answered" /\ call[c].state # "limited"
          /\ call[c].at \in t..(t + Minute - 1)
        BY <1>1
    <2>2. PICK u \in Nat : u = call[c].at
        BY <2>1, CallType
    <2>3. t <= u /\ u <= t + Minute - 1
        BY <1>2, <2>1, <2>2, Bounds
    <2>4. WindowKey(u) \in {p, p + 1}
        BY <1>2, <1>3, <2>3, TwoWindows
    <2>5. QED
        BY <2>1, <2>2, <2>4 DEF Passed
<1>5. /\ IsFiniteSet(Passed(p)) /\ Cardinality(Passed(p)) \in Nat
      /\ IsFiniteSet(Passed(p + 1)) /\ Cardinality(Passed(p + 1)) \in Nat
    BY AccountsFinite
<1>6. Cardinality(Passed(p)) <= Limit /\ Cardinality(Passed(p + 1)) <= Limit
    BY PassedBounded
<1>7. /\ IsFiniteSet(Passed(p) \cup Passed(p + 1))
      /\ Cardinality(Passed(p) \cup Passed(p + 1)) <= 2 * Limit
    <2>1. /\ IsFiniteSet(Passed(p) \cup Passed(p + 1))
          /\ Cardinality(Passed(p) \cup Passed(p + 1)) =
                Cardinality(Passed(p)) + Cardinality(Passed(p + 1))
                    - Cardinality(Passed(p) \cap Passed(p + 1))
        BY <1>5, FS_Union
    <2>2. Cardinality(Passed(p) \cap Passed(p + 1)) \in Nat
        BY <1>5, FS_Intersection, FS_CardinalityType
    <2>3. QED
        BY <1>5, <1>6, <2>1, <2>2, Bounds
<1>8. Cardinality(S) <= 2 * Limit
    <2>1. /\ IsFiniteSet(S) /\ Cardinality(S) \in Nat
          /\ Cardinality(S) <= Cardinality(Passed(p) \cup Passed(p + 1))
          /\ Cardinality(Passed(p) \cup Passed(p + 1)) \in Nat
        BY <1>4, <1>7, FS_Subset, FS_CardinalityType
    <2>2. QED
        BY <1>7, <2>1, Bounds
<1>9. QED
    BY <1>1, <1>8

LEMMA RefusedForReason ==
    ASSUME TypeOK, Fit, NEW c \in Calls, call[c].state = "limited"
    PROVE  again + Cardinality({d \in Limited : call[d].at \div Minute
                                                   = call[c].at \div Minute})
               > Limit
<1>1. PICK m \in Minutes : m = WindowKey(call[c].at)
    BY CallType, WindowFacts
<1>2. {d \in Limited : call[d].at \div Minute = call[c].at \div Minute} = Asked(m)
    BY <1>1 DEF Limited, Asked, WindowKey
<1>3. again + Cardinality(Asked(m)) > Limit
    BY <1>1 DEF Fit, RefusalsFit
<1>4. QED
    BY <1>2, <1>3

(* With answers from Redis at most twice the limit passes out of any       *)
(* minute, and a call is refused only when more than the limit came in its *)
(* calendar minute (RateLimitInterceptor, slidingWindowAllow).             *)
THEOREM RateLimited == Spec => []WithinLimits
<1>1. Init => Fit
    <2> SUFFICES ASSUME Init
                 PROVE  Fit
        OBVIOUS
    <2>1. ASSUME NEW m \in Minutes
          PROVE  Passed(m) = {} /\ Asked(m) = {}
        BY DEF Init, Passed, Asked
    <2>2. \A m \in Minutes : counter[m].count = 0 /\ counter[m].until = 0
        BY DEF Init
    <2>3. CallsFit /\ RefusalsFit
        BY DEF Init, CallsFit, RefusalsFit
    <2>4. CountersFit
        <3> SUFFICES ASSUME NEW m \in Minutes
                     PROVE  /\ counter[m].count > 0 => counter[m].until >= m * Minute + Ttl
                            /\ Cardinality(Passed(m)) <= counter[m].count
                            /\ Cardinality(Passed(m)) <= Limit
                            /\ counter[m].count <= again + Cardinality(Asked(m))
            BY DEF CountersFit
        <3>1. Cardinality(Passed(m)) = 0 /\ Cardinality(Asked(m)) = 0
            BY <2>1, FS_EmptySet
        <3>2. again = 0 /\ counter[m].count = 0
            BY <2>2 DEF Init
        <3>3. QED
            BY <3>1, <3>2, Bounds
    <2>5. QED
        BY <2>3, <2>4 DEF Fit
<1>2. TypeOK /\ Fit /\ [Next]_vars => Fit'
    BY FitStep
<1>3. TypeOK /\ Fit => WithinLimits
    BY AtMostTwice, RefusedForReason DEF WithinLimits
<1>4. QED
    BY <1>1, <1>2, <1>3, TypeInvariant, PTL DEF Spec
=============================================================================
