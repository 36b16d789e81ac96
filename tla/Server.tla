------------------------------- MODULE Server -------------------------------
(* The server process around the components: the interceptors that an RPC  *)
(* passes, the counters in Redis that the rate limit is kept in, and what  *)
(* becomes of the RPCs and of OpenPay's notifications when the process is  *)
(* told to stop.                                                           *)
EXTENDS Integers, FiniteSets

CONSTANTS Calls,       \* RPCs of one tenant and of others, by port or gateway
          Notices,     \* requests to /webhooks/openpay
          Limit,       \* requests per minute, 600 in the code
          Minute,      \* ticks of a minute
          Ttl,         \* ticks before a counter expires, a minute and a half
          MaxDelay,    \* bound: ticks that a call may wait for Redis
          MaxNow,      \* bound on the clock
          MaxRetries   \* bound: pipelines that the Redis client sends again

ASSUME ServerAssumption ==
    /\ IsFiniteSet(Calls)
    /\ Limit \in Nat \ {0} /\ Minute \in Nat \ {0}
    /\ Ttl \in Nat /\ MaxNow \in Nat /\ MaxRetries \in Nat
    (* A counter outlives its minute by more than a call waits for Redis.  *)
    /\ MaxDelay \in 0..(Ttl - Minute)

(* What an RPC asks for and the key that it brings; "watch" stands for the *)
(* streams, of health and of reflection.                                   *)
Methods == {"health", "public", "admin", "tenant", "watch"}
Keys == {"none", "adminKey", "tenantKey"}

VARIABLES
    now,      \* the clock
    call,     \* of each RPC: where it is, the clock as it read it, and
              \* whether Redis has counted it
    counter,  \* in Redis: [count, until] for every minute's key
    notice,   \* where ServeHTTP is with a notification
    server,   \* what main is doing
    (* Observations. *)
    again,    \* pipelines sent again after they were executed
    lost,     \* statements and events that failed and were only logged
    gaveUp    \* Shutdown returned because its time was over

limiter == <<call, counter, again>>
ingress == <<notice, lost>>
vars == <<now, limiter, ingress, server, gaveUp>>

Minutes == 0..(MaxNow \div Minute)

CallStates ==
    {"none", "refused", "known", "counting", "limited", "handling", "answered",
     "open", "closed"}

Init ==
    /\ now = 0
    /\ call = [c \in Calls |-> [state |-> "none", at |-> 0, redis |-> "not asked"]]
    /\ counter = [m \in Minutes |-> [count |-> 0, until |-> 0]]
    /\ notice = [n \in Notices |-> "none"]
    /\ server = "serving"
    /\ again = 0 /\ lost = 0 /\ gaveUp = FALSE

(* No step of the process is taken after its end.                          *)
Running == server \notin {"exited", "killed"}

(* The call takes the step from one state to another.                      *)
Step(c, from, to) ==
    /\ Running
    /\ call[c].state = from
    /\ call' = [call EXCEPT ![c].state = to]

-----------------------------------------------------------------------------
(* The interceptors.                                                       *)

AdminAuthInterceptor(method, key) == method = "admin" => key = "adminKey"

AuthInterceptor(method, key) == method = "tenant" => key = "tenantKey"

StreamAuthInterceptor(method, key) == method = "watch" => key = "tenantKey"

(* An RPC, from a client or from the gateway.  GracefulStop accepts none.  *)
Arrive(c, method, key) ==
    /\ server = "serving"
    /\ Step(c, "none",
            IF ~ /\ AdminAuthInterceptor(method, key)
                 /\ AuthInterceptor(method, key)
                 /\ StreamAuthInterceptor(method, key) THEN "refused"
            ELSE IF method = "tenant" THEN "known"
            ELSE IF method = "watch" THEN "open"
            ELSE "handling")
    /\ UNCHANGED <<now, counter, again, ingress, server, gaveUp>>

(* slidingWindowAllow reads the clock.                                     *)
ReadClock(c) ==
    /\ Running
    /\ call[c].state = "known"
    /\ call' = [call EXCEPT ![c].state = "counting", ![c].at = now]
    /\ UNCHANGED <<now, counter, again, ingress, server, gaveUp>>

(* Deviation: one key for all the time, left to expire.                    *)
WindowKeyWithoutMinute(t) == 0

(* The clock names the counter.                                            *)
WindowKey(t) == t \div Minute

(* INCR, of a counter that may have expired, and EXPIRE.                   *)
Counted(m) == IF now < counter[m].until THEN counter[m].count + 1 ELSE 1

Count(m) ==
    counter' = [counter EXCEPT ![m] = [count |-> Counted(m), until |-> now + Ttl]]

(* With an answer from Redis a call over the limit is refused; it has been *)
(* counted all the same.                                                   *)
Answered(c) ==
    LET m == WindowKey(call[c].at) IN
    /\ Count(m)
    /\ call[c].state = "counting"
    /\ call' = [call EXCEPT
                   ![c].state = IF Counted(m) > Limit THEN "limited" ELSE "handling",
                   ![c].redis = "answered"]
    /\ UNCHANGED again

(* Without one it is let through, counted or not.                          *)
FailsOpen(c) ==
    /\ call[c].state = "counting"
    /\ call' = [call EXCEPT ![c].state = "handling", ![c].redis = "failed"]
    /\ Count(WindowKey(call[c].at)) \/ UNCHANGED counter
    /\ UNCHANGED again

(* The answer was lost and the Redis client sends the pipeline again.      *)
SentAgain(c) ==
    /\ again < MaxRetries
    /\ Step(c, "counting", "counting")
    /\ Count(WindowKey(call[c].at))
    /\ again' = again + 1

RateLimitInterceptor(c) ==
    /\ Running
    /\ Answered(c) \/ FailsOpen(c) \/ SentAgain(c)
    /\ UNCHANGED <<now, ingress, server, gaveUp>>

(* The handler answers.                                                    *)
Handle(c) ==
    /\ Step(c, "handling", "answered")
    /\ UNCHANGED <<now, counter, again, ingress, server, gaveUp>>

(* The client ends a stream.                                               *)
CloseStream(c) ==
    /\ Step(c, "open", "closed")
    /\ UNCHANGED <<now, counter, again, ingress, server, gaveUp>>

Tick ==
    /\ Running
    /\ now < MaxNow
    /\ \A c \in Calls : call[c].state = "counting" => now - call[c].at < MaxDelay
    /\ now' = now + 1
    /\ UNCHANGED <<limiter, ingress, server, gaveUp>>

-----------------------------------------------------------------------------
(* Notifications of OpenPay, by the HTTP server.                           *)

PoolOpen == server # "poolClosed"
KafkaOpen == server \notin {"kafkaClosed", "poolClosed"}

Advance(n, from, to) ==
    /\ Running
    /\ notice[n] = from
    /\ notice' = [notice EXCEPT ![n] = to]
    /\ UNCHANGED <<now, limiter, server, gaveUp>>

(* A step whose failure is only logged.                                    *)
Logged(works) == lost' = IF works THEN lost ELSE lost + 1

(* The HTTP server accepts until Shutdown, while the RPCs end as well.     *)
Connect(n) ==
    /\ server \in {"serving", "stopping"}
    /\ Advance(n, "none", "reading")
    /\ UNCHANGED lost

(* OpenPay has sent the body.                                              *)
ReadBody(n) == Advance(n, "reading", "settling") /\ UNCHANGED lost

(* Without the payment settled the answer is 500, and OpenPay repeats.     *)
SettlePayment(n) ==
    /\ Advance(n, "settling", IF PoolOpen THEN "crediting" ELSE "failed")
    /\ UNCHANGED lost

CreditSettlement(n) == Advance(n, "crediting", "publishing") /\ Logged(PoolOpen)

(* ... and the answer 200.                                                 *)
PublishPaymentEvent(n) == Advance(n, "publishing", "acked") /\ Logged(KafkaOpen)

-----------------------------------------------------------------------------
(* The end of main.                                                        *)

Proceed(from, to) ==
    /\ server = from
    /\ server' = to
    /\ UNCHANGED <<now, limiter, lost>>

(* SIGINT or SIGTERM.                                                      *)
Signal == Proceed("serving", "stopping") /\ UNCHANGED <<notice, gaveUp>>

CallsEnded ==
    \A c \in Calls : call[c].state \notin
        {"known", "counting", "handling", "open"}

NoticesEnded ==
    \A n \in Notices : notice[n] \in {"none", "acked", "failed"}

(* Returns when no RPC and no stream is left, however long that takes.     *)
GracefulStop ==
    /\ CallsEnded
    /\ Proceed("stopping", "draining")
    /\ UNCHANGED <<notice, gaveUp>>

(* Deviation: http.Server.Close, which waits for nothing.                  *)
ShutdownAtOnce == Proceed("draining", "drained") /\ UNCHANGED <<notice, gaveUp>>

(* Deviation: a context without the timeout.                               *)
ShutdownPatiently == NoticesEnded /\ ShutdownAtOnce

(* Returns when no request is left or the 15 seconds are over.             *)
Shutdown ==
    /\ Proceed("draining", "drained")
    /\ gaveUp' = ~NoticesEnded
    /\ UNCHANGED notice

(* The deferred calls, the last one first.                                 *)
CloseKafka == Proceed("drained", "kafkaClosed") /\ UNCHANGED <<notice, gaveUp>>
ClosePool == Proceed("kafkaClosed", "poolClosed") /\ UNCHANGED <<notice, gaveUp>>

Cut == [n \in Notices |->
            IF notice[n] \in {"none", "acked", "failed"} THEN notice[n] ELSE "cut"]

Exit == Proceed("poolClosed", "exited") /\ notice' = Cut /\ UNCHANGED gaveUp

(* A listener fails: log.Fatal, which runs nothing that was deferred.      *)
Fatal ==
    /\ \E from \in {"serving", "stopping"} : Proceed(from, "killed")
    /\ notice' = Cut
    /\ UNCHANGED gaveUp

Main == GracefulStop \/ Shutdown \/ CloseKafka \/ ClosePool \/ Exit

Serve(n) == SettlePayment(n) \/ CreditSettlement(n) \/ PublishPaymentEvent(n)

Rpc(c) == ReadClock(c) \/ RateLimitInterceptor(c) \/ Handle(c)

Next ==
    \/ \E c \in Calls, method \in Methods, key \in Keys : Arrive(c, method, key)
    \/ \E c \in Calls : Rpc(c) \/ CloseStream(c)
    \/ \E n \in Notices : Connect(n) \/ ReadBody(n) \/ Serve(n)
    \/ Tick
    \/ Signal \/ Fatal \/ Main

Spec == Init /\ [][Next]_vars

(* The Go runtime schedules main and every handler, whose calls of the     *)
(* database, of Redis and of OpenPay return.  Nobody makes a client end    *)
(* its stream or send the body.                                            *)
FairSpec ==
    /\ Spec
    /\ WF_vars(Main)
    /\ \A n \in Notices : WF_vars(Serve(n))
    /\ \A c \in Calls : WF_vars(Rpc(c))

-----------------------------------------------------------------------------
TypeOK ==
    /\ now \in 0..MaxNow
    /\ call \in [Calls -> [state : CallStates, at : 0..MaxNow,
                         redis : {"not asked", "answered", "failed"}]]
    /\ counter \in [Minutes -> [count : Nat, until : Nat]]
    /\ notice \in [Notices -> {"none", "reading", "settling", "crediting",
                               "publishing", "acked", "failed", "cut"}]
    /\ server \in {"serving", "stopping", "draining", "drained", "kafkaClosed",
                   "poolClosed", "exited", "killed"}
    /\ again \in 0..MaxRetries /\ lost \in Nat /\ gaveUp \in BOOLEAN

(* The calls that Redis was asked about.                                   *)
Limited == {c \in Calls : call[c].redis # "not asked"}

(* Of the calls that Redis answered for, at most twice the limit are let   *)
(* through out of any minute, and one is refused only when more than the   *)
(* limit, counting pipelines sent again, came in its calendar minute:      *)
(* whatever is refused, delayed or expired, the limit neither opens nor    *)
(* shuts for longer than that minute.                                      *)
WithinLimits ==
    /\ \A t \in 0..MaxNow :
           Cardinality({c \in Calls : /\ call[c].redis = "answered" /\ call[c].state # "limited"
                                      /\ call[c].at \in t..(t + Minute - 1)})
               <= 2 * Limit
    /\ \A c \in Calls : call[c].state = "limited" =>
           again + Cardinality({d \in Limited : call[d].at \div Minute
                                                   = call[c].at \div Minute})
               > Limit

(* A process that ends on a signal cuts off no RPC, and unless Shutdown    *)
(* gave up it cuts off no notification either and answers none that it     *)
(* did not credit and publish.                                             *)
ShutdownLosesNothing ==
    /\ server = "exited" => CallsEnded
    /\ ~gaveUp /\ server # "killed" =>
           lost = 0 /\ \A n \in Notices : notice[n] \notin {"cut", "failed"}

(* Once no stream is open a process told to stop does so, even if OpenPay  *)
(* never sends the body of a notification.                                 *)
ShutdownEnds ==
    (server = "stopping" /\ \A c \in Calls : call[c].state # "open")
        ~> ~Running
=============================================================================
