--------------------------- MODULE RateLimitProofs ---------------------------
(***************************************************************************)
(* What module RateLimit promises for any number of requests and providers *)
(* and for every rate and burst that validate accepts.                     *)
(***************************************************************************)
EXTENDS RateLimit, FiniteSetTheorems, TLAPS

Buckets == [credit : Int, last : Nat, event : Nat]

\* The size of a bucket, which the proofs need to know nothing else about.
LEMMA SizeFacts == Burst * Period \in Nat /\ Burst * Period >= Period /\ Period \in Nat \ {0}
BY RateLimitAssumption

(* The operations of rate.Limiter map buckets to buckets.                   *)
LEMMA BucketTypes ==
    ASSUME NEW b \in Buckets, NEW t \in Nat
    PROVE  /\ Credit(b, t) \in Int
           /\ TimeToAct(b, t) \in Nat
           /\ Charged(b, t) \in Buckets
           /\ Reserved(b, t) \in Buckets
           /\ \A at \in Nat : Cancelled(b, at, t) \in Buckets
<1>1. Credit(b, t) \in Int
  BY SizeFacts DEF Buckets, Credit, Least
<1>2. TimeToAct(b, t) \in Nat
  BY <1>1, SizeFacts DEF TimeToAct
<1>3. Charged(b, t) \in Buckets
  BY <1>1, SizeFacts DEF Buckets, Charged
<1>4. Reserved(b, t) \in Buckets
  BY <1>2, <1>3, Zenon DEF Buckets, Reserved
<1>5. ASSUME NEW at \in Nat
      PROVE  Cancelled(b, at, t) \in Buckets
  BY <1>1, SizeFacts DEF Buckets, Cancelled, Least
<1> QED  BY <1>1, <1>2, <1>3, <1>4, <1>5, Zenon

(* Retry-After is a natural number of seconds, at least one, and covers the *)
(* delay.                                                                   *)
LEMMA RetryFacts ==
    ASSUME NEW d \in Int
    PROVE  retryAfter(d) \in Nat \ {0} /\ retryAfter(d) * Second >= d
<1>1. Second \in Nat \ {0}
  BY RateLimitAssumption, Zenon
<1>2. CASE d <= 0
  BY <1>1, <1>2 DEF retryAfter
<1>3. CASE d > 0
  <2> DEFINE q == d \div Second
             m == d % Second
  <2>1. q \in Int /\ m \in 0..(Second - 1) /\ d = Second * q + m
    BY <1>1
  <2>2. q \in Nat
    BY <1>1, <1>3
  <2>3. retryAfter(d) = IF q + (IF m > 0 THEN 1 ELSE 0) < 1 THEN 1
                        ELSE q + (IF m > 0 THEN 1 ELSE 0)
    BY <1>3, <2>1 DEF retryAfter
  <2>4. /\ Second * q \in Nat /\ q * Second = Second * q
        /\ (q + 1) * Second = Second * q + Second
    BY <2>2, <1>1
  <2> HIDE DEF q, m
  <2>5. CASE m > 0
    BY <2>1, <2>2, <2>3, <2>4, <2>5, <1>1
  <2>6. CASE m = 0
    <3>1. q >= 1
      <4>1. q = 0 => Second * q = 0
        BY <1>1
      <4> QED  BY <4>1, <2>1, <2>2, <2>6, <1>3
    <3>2. retryAfter(d) = q
      BY <2>2, <2>3, <2>6, <3>1
    <3> QED  BY <3>1, <3>2, <2>1, <2>2, <2>4, <2>6
  <2> QED  BY <2>1, <2>5, <2>6
<1> QED  BY <1>2, <1>3

(***************************************************************************)
(* Types and the map of limiters.                                          *)
(***************************************************************************)
\* What TypeOK says of the requests' own state and of the buckets.
LEMMA TypeStep ==
    ASSUME TypeOK, LimiterInv, [Next]_vars
    PROVE  TypeOK'
<1> USE DEF TypeOK, Goto, Buckets
<1>1. ASSUME NEW r \in Requests, Bypass(r) \/ Load(r) \/ LoadOrStore(r) \/ Deny(r)
      PROVE  TypeOK'
  <2>1. CASE Bypass(r)
    BY <2>1, RateLimitAssumption, Zenon DEF Bypass
  <2>2. CASE Load(r)
    BY <2>2, RateLimitAssumption, Zenon DEF Load
  <2>3. CASE LoadOrStore(r)
    <3>1. segment[r] \in Segments
      BY <2>3, Zenon DEF LoadOrStore, LimiterInv
    <3> DEFINE actual == IF limiters[segment[r]] = None THEN r ELSE limiters[segment[r]]
    <3>2. actual \in Requests
      BY <3>1, RateLimitAssumption, Zenon
    <3>3. /\ limiters' = [limiters EXCEPT ![segment[r]] = actual]
          /\ lim' = [lim EXCEPT ![r] = actual]
          /\ pc' = [pc EXCEPT ![r] = "allow"]
          /\ UNCHANGED <<now, segment, bucket, act, retry, limited, ideal, disturbed>>
      BY <2>3, Zenon DEF LoadOrStore
    <3> HIDE DEF actual
    <3> QED  BY <3>2, <3>3, Zenon
  <2>4. CASE Deny(r)
    BY <2>4, RateLimitAssumption DEF Deny
  <2> QED  BY <1>1, <2>1, <2>2, <2>3, <2>4, Zenon
<1>2. ASSUME NEW r \in Requests, pc[r] \in {"allow", "denied", "reserved"}
      PROVE  /\ lim[r] \in Requests /\ segment[r] \in Segments
             /\ bucket[lim[r]] \in Buckets /\ ideal[segment[r]] \in Buckets
             /\ now \in Nat
  BY <1>2, RateLimitAssumption DEF LimiterInv
<1>3. ASSUME NEW r \in Requests, Admit(r)
      PROVE  TypeOK'
  <2>1. Reserved(bucket[lim[r]], now) \in Buckets /\ Charged(ideal[segment[r]], now) \in Buckets
    BY <1>2, <1>3, BucketTypes, Zenon DEF Admit
  <2> QED  BY <1>2, <1>3, <2>1, Zenon DEF Admit
<1>4. ASSUME NEW r \in Requests, Reserve(r)
      PROVE  TypeOK'
  <2>1. Reserved(bucket[lim[r]], now) \in Buckets /\ TimeToAct(bucket[lim[r]], now) \in Nat
    BY <1>2, <1>4, BucketTypes, Zenon DEF Reserve
  <2>2. disturbed' \in BOOLEAN
    BY <1>4, Zenon DEF Reserve
  <2> QED  BY <1>2, <1>4, <2>1, <2>2, Zenon DEF Reserve
<1>5. ASSUME NEW r \in Requests, Respond(r)
      PROVE  TypeOK'
  <2>1. Cancelled(bucket[lim[r]], act[r], now) \in Buckets
    BY <1>2, <1>5, BucketTypes, Zenon DEF Respond
  <2>2. retryAfter(act[r] - now) \in Nat
    BY <1>2, <1>5, RetryFacts DEF Respond
  <2>3. disturbed' \in BOOLEAN
    BY <1>5, Zenon DEF Respond
  <2> QED  BY <1>2, <1>5, <2>1, <2>2, <2>3, Zenon DEF Respond
<1>6. CASE Tick
  BY <1>6, RateLimitAssumption DEF Tick
<1>7. CASE UNCHANGED vars
  BY <1>7, Zenon DEF vars
<1> QED  BY <1>1, <1>3, <1>4, <1>5, <1>6, <1>7, Zenon DEF Next

(* LoadOrStore stores a limiter where there is none and returns the stored  *)
(* one otherwise; nothing else touches the map or a request's limiter.      *)
LEMMA LimiterStep ==
    ASSUME TypeOK, LimiterInv, [Next]_vars
    PROVE  LimiterInv'
<1> USE RateLimitAssumption DEF TypeOK, LimiterInv, Goto
<1>1. ASSUME NEW r \in Requests, Load(r)
      PROVE  LimiterInv'
  BY <1>1, ZenonT(40) DEF Load
<1>2. ASSUME NEW r \in Requests, LoadOrStore(r)
      PROVE  LimiterInv'
  BY <1>2, ZenonT(40) DEF LoadOrStore
<1>3. ASSUME NEW r \in Requests,
             Bypass(r) \/ Admit(r) \/ Deny(r) \/ Reserve(r) \/ Respond(r)
      PROVE  LimiterInv'
  <2>1. /\ UNCHANGED <<segment, limiters, lim>>
        /\ \/ /\ pc[r] \in {"allow", "denied", "reserved"}
              /\ pc' = [pc EXCEPT ![r] = pc'[r]]
              /\ pc'[r] # "create"
           \/ pc' = [pc EXCEPT ![r] = "next"]
    BY <1>3, ZenonT(40) DEF Bypass, Admit, Deny, Reserve, Respond
  <2> QED  BY <2>1
<1>4. CASE Tick \/ UNCHANGED vars
  BY <1>4, Zenon DEF Tick, vars
<1> QED  BY <1>1, <1>2, <1>3, <1>4, Zenon DEF Next

(* The state of the limiters and of the requests stays in its type.         *)
THEOREM LimiterCorrect == Spec => [](TypeOK /\ LimiterInv)
<1>1. Init => TypeOK /\ LimiterInv
  <2>1. Full \in Buckets
    BY SizeFacts DEF Full, Buckets
  <2>2. Init => disturbed \in BOOLEAN
    BY Zenon DEF Init
  <2> QED  BY <2>1, <2>2, RateLimitAssumption DEF Init, TypeOK, LimiterInv, Buckets
<1>2. TypeOK /\ LimiterInv /\ [Next]_vars => (TypeOK /\ LimiterInv)'
  BY TypeStep, LimiterStep, Zenon
<1> QED  BY <1>1, <1>2, PTL DEF Spec

(* getLimiter hands one limiter to all requests of a provider, and no two   *)
(* providers share one, in every race for the first use.                    *)
THEOREM OneLimiterCorrect == Spec => []OneLimiterPerProvider
<1>1. TypeOK /\ LimiterInv => OneLimiterPerProvider
  BY RateLimitAssumption DEF TypeOK, LimiterInv, OneLimiterPerProvider
<1> QED  BY <1>1, LimiterCorrect, PTL

(***************************************************************************)
(* Denials.                                                                *)
(***************************************************************************)
(* How the credit of a bucket changes when it is charged, when a            *)
(* reservation on it is cancelled and when time passes.                     *)
LEMMA CreditFacts ==
    ASSUME NEW b \in Buckets, NEW t \in Nat, b.last <= t
    PROVE  /\ Credit(b, t) <= Burst * Period
           /\ Credit(Full, t) = Burst * Period
           /\ Credit(b, t) = Least(Burst * Period, b.credit + (t - b.last))
           /\ Charged(b, t).credit = Credit(b, t) - Period
           /\ Charged(b, t).last = t
           /\ Credit(Charged(b, t), t) = Credit(b, t) - Period
           /\ Reserved(b, t).credit = Credit(b, t) - Period
           /\ Reserved(b, t).last = t
           /\ Reserved(b, t).event = TimeToAct(b, t)
           /\ Credit(Reserved(b, t), t) = Credit(b, t) - Period
<1>1. Credit(b, t) \in Int /\ Credit(b, t) <= Burst * Period
  BY SizeFacts DEF Buckets, Credit, Least
<1>2. Credit(Full, t) = Burst * Period
  BY SizeFacts DEF Full, Credit, Least
<1>3. Charged(b, t).credit = Credit(b, t) - Period /\ Charged(b, t).last = t
  BY Zenon DEF Charged
<1>4. /\ Reserved(b, t).credit = Credit(b, t) - Period
      /\ Reserved(b, t).last = t
      /\ Reserved(b, t).event = TimeToAct(b, t)
  BY <1>3, Zenon DEF Reserved, Charged
<1>5. ASSUME NEW x \in Int, x <= Burst * Period
      PROVE  Least(Burst * Period, (x - Period) + (t - t)) = x - Period
  BY <1>5, SizeFacts DEF Least
<1>6. /\ Credit(Charged(b, t), t) = Credit(b, t) - Period
      /\ Credit(Reserved(b, t), t) = Credit(b, t) - Period
  <2>1. Credit(Charged(b, t), t) = Least(Burst * Period, (Credit(b, t) - Period) + (t - t))
    BY <1>3, Zenon DEF Credit
  <2>2. Credit(Reserved(b, t), t) = Least(Burst * Period, (Credit(b, t) - Period) + (t - t))
    BY <1>4, Zenon DEF Credit
  <2> QED  BY <2>1, <2>2, <1>1, <1>5, Zenon
<1> QED  BY <1>1, <1>2, <1>3, <1>4, <1>6, Zenon DEF Credit

(* Two buckets of equal credit stay equal while time passes, the fuller one *)
(* of two stays so, and one that is short of a token gains one unit with    *)
(* each unit of time.                                                       *)
LEMMA CreditTick ==
    ASSUME NEW b \in Buckets, NEW c \in Buckets, NEW t \in Nat,
           b.last <= t, c.last <= t
    PROVE  /\ Credit(b, t) = Credit(c, t) => Credit(b, t + 1) = Credit(c, t + 1)
           /\ Credit(b, t) <= Credit(c, t) => Credit(b, t + 1) <= Credit(c, t + 1)
           /\ Credit(b, t) < Period => Credit(b, t + 1) = Credit(b, t) + 1
<1> DEFINE z == Burst * Period
           x == b.credit + (t - b.last)
           y == c.credit + (t - c.last)
<1>1. x \in Int /\ y \in Int /\ z \in Nat /\ z >= Period
  BY SizeFacts DEF Buckets
<1>2. Credit(b, t) = Least(z, x) /\ Credit(c, t) = Least(z, y)
  BY Zenon DEF Credit
<1>3. b.credit + ((t + 1) - b.last) = x + 1 /\ c.credit + ((t + 1) - c.last) = y + 1
  BY DEF Buckets
<1>4. Credit(b, t + 1) = Least(z, x + 1) /\ Credit(c, t + 1) = Least(z, y + 1)
  BY <1>3, Zenon DEF Credit
<1> HIDE DEF x, y, z
<1> QED  BY <1>1, <1>2, <1>4, SizeFacts DEF Least

(* No bucket is charged ahead of the clock, and one that no provider uses   *)
(* stays full.                                                              *)
LEMMA UsageStep ==
    ASSUME TypeOK, LimiterInv, UsageInv, [Next]_vars
    PROVE  UsageInv'
<1> USE DEF TypeOK, LimiterInv, UsageInv
<1>1. now \in Nat /\ Buckets = [credit : Int, last : Nat, event : Nat]
  BY RateLimitAssumption DEF Buckets
<1>2. ASSUME NEW r \in Requests, pc[r] \in {"allow", "denied", "reserved"}
      PROVE  /\ lim[r] \in Requests /\ segment[r] \in Segments
             /\ limiters[segment[r]] = lim[r]
             /\ bucket[lim[r]] \in Buckets /\ ideal[segment[r]] \in Buckets
  BY <1>1, <1>2, RateLimitAssumption
<1>3. ASSUME NEW r \in Requests, LoadOrStore(r)
      PROVE  UsageInv'
  BY <1>1, <1>3, RateLimitAssumption DEF LoadOrStore
<1>4. ASSUME NEW r \in Requests, Admit(r)
      PROVE  UsageInv'
  <2>1. /\ Reserved(bucket[lim[r]], now).last = now
        /\ Charged(ideal[segment[r]], now).last = now
    BY <1>1, <1>2, <1>4, CreditFacts, SMTT(20) DEF Admit
  <2> QED  BY <1>1, <1>2, <1>4, <2>1, RateLimitAssumption, SMTT(20) DEF Admit
<1>5. ASSUME NEW r \in Requests, Reserve(r)
      PROVE  UsageInv'
  <2>1. Reserved(bucket[lim[r]], now).last = now
    BY <1>1, <1>2, <1>5, CreditFacts DEF Reserve
  <2> QED  BY <1>1, <1>2, <1>5, <2>1, RateLimitAssumption, SMTT(20) DEF Reserve
<1>6. ASSUME NEW r \in Requests, Respond(r)
      PROVE  UsageInv'
  <2>1. Cancelled(bucket[lim[r]], act[r], now).last <= now
    BY <1>1, <1>2, <1>6 DEF Respond, Cancelled
  <2> QED  BY <1>1, <1>2, <1>6, <2>1, RateLimitAssumption, SMTT(20) DEF Respond
<1>7. ASSUME NEW r \in Requests, Bypass(r) \/ Load(r) \/ Deny(r)
      PROVE  UsageInv'
  BY <1>7, Zenon DEF Bypass, Load, Deny
<1>8. CASE Tick
  BY <1>1, <1>8 DEF Tick
<1>9. CASE UNCHANGED vars
  BY <1>9, Zenon DEF vars
<1> QED  BY <1>3, <1>4, <1>5, <1>6, <1>7, <1>8, <1>9, Zenon DEF Next

(* A cancelled reservation that was undisturbed gives its token back, which *)
(* makes the bucket what admissions alone have left of it.                  *)
LEMMA CancelFacts ==
    ASSUME TypeOK, LimiterInv, UsageInv, ReservationInv,
           NEW r \in Requests, Respond(r), ~disturbed'
    PROVE  /\ ~disturbed
           /\ Credit(bucket'[lim[r]], now) = Credit(ideal[segment[r]], now)
<1> DEFINE b == bucket[lim[r]]
           i == ideal[segment[r]]
           c == Cancelled(b, act[r], now)
           z == Burst * Period
<1>1. /\ lim[r] \in Requests /\ segment[r] \in Segments /\ now \in Nat
      /\ b \in Buckets /\ i \in Buckets /\ act[r] \in Nat
      /\ b.last <= now /\ i.last <= now
  BY RateLimitAssumption DEF Respond, TypeOK, LimiterInv, UsageInv, Buckets
<1>2. ~disturbed /\ ~(act[r] < now)
  BY Zenon DEF Respond
<1>3. Pending(r, b)
  BY <1>1, <1>2 DEF ReservationInv, Respond
<1>4. bucket'[lim[r]] = c
  BY <1>1, Zenon DEF Respond, TypeOK
<1>5. /\ b.event = act[r]
      /\ b.credit + (now - b.last) = Credit(i, now) - Period
      /\ b.credit + (act[r] - b.last) >= 0
      /\ Credit(i, now) \in Int /\ Credit(i, now) <= z
      /\ z \in Nat /\ Period \in Nat \ {0} /\ z >= Period
  BY <1>1, <1>3, SizeFacts, BucketTypes, CreditFacts, Zenon DEF Pending
<1>6. Credit(b, now) = Credit(i, now) - Period
  <2>1. Credit(b, now) = Least(z, b.credit + (now - b.last))
    BY Zenon DEF Credit
  <2> HIDE DEF b, i, z
  <2> QED  BY <2>1, <1>5 DEF Least
<1>7. c.credit = Credit(i, now) /\ c.last = now
  <2>1. c = [credit |-> Least(z, Credit(b, now) + Period), last |-> now,
             event |-> IF act[r] = b.event /\ act[r] - Period >= now
                       THEN act[r] - Period ELSE b.event]
    BY <1>1, <1>2, <1>5 DEF Cancelled
  <2>2. Least(z, Credit(b, now) + Period) = Credit(i, now)
    <3> HIDE DEF b, i, z
    <3> QED  BY <1>5, <1>6 DEF Least
  <2> HIDE DEF c
  <2> QED  BY <2>1, <2>2, Zenon
<1>8. ASSUME NEW t \in Nat
      PROVE  Credit(c, t) = Least(z, Credit(i, now) + (t - now))
  BY <1>7, Zenon DEF Credit
<1>9. Credit(c, now) = Credit(i, now)
  <2> HIDE DEF c, i, z
  <2> QED  BY <1>1, <1>5, <1>8 DEF Least
<1> QED  BY <1>2, <1>4, <1>9, Zenon

(* Among denials that neither overlap nor outlive their delay, a bucket     *)
(* that no reservation is pending on is what admissions have left of it.    *)
LEMMA ReservationStep ==
    ASSUME TypeOK, LimiterInv, UsageInv, ReservationInv, [Next]_vars
    PROVE  ReservationInv'
<1> SUFFICES ASSUME ~disturbed' PROVE ReservationInv'
  BY Zenon DEF ReservationInv
<1>t. /\ now \in Nat
      /\ \A q \in Requests : bucket[q] \in Buckets /\ bucket[q].last <= now /\ act[q] \in Nat
      /\ \A s \in Segments : ideal[s] \in Buckets /\ ideal[s].last <= now
  BY RateLimitAssumption DEF TypeOK, UsageInv, Buckets
<1>l. /\ \A q \in Requests : pc[q] \in {"allow", "denied", "reserved"} =>
           lim[q] \in Requests /\ segment[q] \in Segments /\ limiters[segment[q]] = lim[q]
      /\ \A s \in Segments : limiters[s] # None => limiters[s] \in Requests
      /\ \A s, u \in Segments : limiters[s] = limiters[u] /\ limiters[s] # None => s = u
  BY RateLimitAssumption DEF TypeOK, LimiterInv
<1>1. ASSUME NEW r \in Requests, Bypass(r) \/ Load(r) \/ Deny(r)
      PROVE  ReservationInv'
  <2>1. ~disturbed /\ UNCHANGED <<now, segment, limiters, bucket, act, ideal>>
    BY <1>1 DEF Bypass, Load, Deny
  <2>2. \A q \in Requests : /\ pc'[q] = "reserved" <=> pc[q] = "reserved"
                            /\ pc[q] = "reserved" => lim'[q] = lim[q]
    BY <1>1, Zenon DEF Bypass, Load, Deny, Goto, TypeOK
  <2> QED  BY <2>1, <2>2, SMTT(20) DEF ReservationInv, Pending
<1>2. ASSUME NEW r \in Requests, LoadOrStore(r)
      PROVE  ReservationInv'
  <2>1. ~disturbed /\ UNCHANGED <<now, segment, bucket, act, ideal>>
    BY <1>2, Zenon DEF LoadOrStore
  <2>2. \A q \in Requests : /\ pc'[q] = "reserved" <=> pc[q] = "reserved"
                            /\ pc[q] = "reserved" => lim'[q] = lim[q]
    BY <1>2, Zenon DEF LoadOrStore, Goto, TypeOK
  <2>3. ASSUME NEW s \in Segments, limiters'[s] # None,
               \A q \in Requests : pc[q] = "reserved" => lim[q] # limiters'[s]
        PROVE  Credit(bucket[limiters'[s]], now) = Credit(ideal[s], now)
    <3>1. CASE limiters'[s] = limiters[s]
      BY <2>1, <2>3, <3>1, Zenon DEF ReservationInv
    <3>2. CASE limiters'[s] # limiters[s]
      <4>1. s = segment[r] /\ limiters[s] = None /\ limiters'[s] = r
        BY <1>2, <3>2, Zenon DEF LoadOrStore, TypeOK
      <4>2. \A u \in Segments : limiters[u] # r
        BY <4>1, RateLimitAssumption, Zenon DEF LimiterInv
      <4>3. bucket[r] = Full /\ ideal[s] = Full
        BY <4>1, <4>2, Zenon DEF UsageInv
      <4> QED  BY <4>1, <4>3, Zenon
    <3> QED  BY <3>1, <3>2, Zenon
  <2> QED  BY <2>1, <2>2, <2>3 DEF ReservationInv, Pending
<1>3. ASSUME NEW r \in Requests, Admit(r)
      PROVE  ReservationInv'
  <2> DEFINE b == bucket[lim[r]]
             i == ideal[segment[r]]
  <2>1. ~disturbed /\ UNCHANGED <<now, segment, limiters, lim, act>>
    BY <1>3, Zenon DEF Admit
  <2>2. \A q \in Requests : pc'[q] = "reserved" <=> pc[q] = "reserved"
    BY <1>3, Zenon DEF Admit, Goto, TypeOK
  <2>3. /\ lim[r] \in Requests /\ segment[r] \in Segments /\ limiters[segment[r]] = lim[r]
        /\ b \in Buckets /\ i \in Buckets /\ b.last <= now /\ i.last <= now
        /\ Credit(b, now) >= Period
    BY <1>3, <1>t, <1>l, Zenon DEF Admit
  <2>4. /\ bucket'[lim[r]] = Reserved(b, now)
        /\ \A q \in Requests : q # lim[r] => bucket'[q] = bucket[q]
        /\ ideal'[segment[r]] = Charged(i, now)
        /\ \A s \in Segments : s # segment[r] => ideal'[s] = ideal[s]
    BY <1>3, <2>3, Zenon DEF Admit, TypeOK
  <2>5. /\ Credit(Reserved(b, now), now) = Credit(b, now) - Period
        /\ Credit(Charged(i, now), now) = Credit(i, now) - Period
        /\ Reserved(b, now).event = now
        /\ Reserved(b, now).credit = Credit(b, now) - Period
        /\ Reserved(b, now).last = now
    BY <1>t, <2>3, CreditFacts, Zenon DEF TimeToAct
  <2>6. ASSUME NEW s \in Segments, limiters[s] # None,
               \A q \in Requests : pc[q] = "reserved" => lim[q] # limiters[s]
        PROVE  Credit(bucket'[limiters[s]], now) = Credit(ideal'[s], now)
    <3>1. Credit(bucket[limiters[s]], now) = Credit(ideal[s], now)
      BY <2>1, <2>6, Zenon DEF ReservationInv
    <3>2. CASE s = segment[r]
      BY <2>3, <2>4, <2>5, <3>1, <3>2, ZenonT(40)
    <3>3. CASE s # segment[r]
      BY <1>l, <2>3, <2>4, <2>6, <3>1, <3>3
    <3> QED  BY <3>2, <3>3, Zenon
  <2>7. ASSUME NEW q \in Requests, pc[q] = "reserved", now <= act[q]
        PROVE  Pending(q, bucket[lim[q]])'
    <3>1. Pending(q, bucket[lim[q]])
      BY <2>1, <2>7, Zenon DEF ReservationInv
    <3>2. CASE lim[q] # lim[r]
      <4>1. segment[q] # segment[r] /\ lim[q] \in Requests /\ segment[q] \in Segments
        BY <1>l, <2>3, <2>7, <3>2, Zenon
      <4>2. bucket'[lim[q]] = bucket[lim[q]] /\ ideal'[segment[q]] = ideal[segment[q]]
        BY <2>4, <3>2, <4>1, Zenon
      <4> QED  BY <2>1, <3>1, <4>2, Zenon DEF Pending
    <3>3. CASE lim[q] = lim[r]
      <4>1. segment[q] = segment[r]
        BY <1>l, <2>3, <2>7, <3>3, RateLimitAssumption, Zenon
      <4>2. /\ b.credit + (now - b.last) = Credit(i, now) - Period
            /\ now < act[q] => b.credit + (act[q] - b.last) = 0
        BY <3>1, <3>3, <4>1, Zenon DEF Pending
      <4>3. Credit(b, now) = Least(Burst * Period, b.credit + (now - b.last))
        BY Zenon DEF Credit
      <4>4. Credit(i, now) \in Int /\ Credit(i, now) <= Burst * Period /\ act[q] \in Nat
        BY <1>t, <2>3, BucketTypes, CreditFacts, Zenon
      <4> DEFINE z == Burst * Period
      <4>5. Credit(b, now) = Credit(i, now) - Period
        <5> SUFFICES ASSUME z \in Nat, Period \in Nat, Credit(i, now) <= z,
                            Credit(b, now) = Least(z, b.credit + (now - b.last))
                     PROVE  Credit(b, now) = Credit(i, now) - Period
          BY <4>3, <4>4, SizeFacts, Zenon
        <5> HIDE DEF z, b, i
        <5> QED  BY <4>2, <4>4 DEF Least
      <4>6. act[q] = now
        <5>1. b.credit \in Int /\ b.last \in Int
          BY <2>3 DEF Buckets
        <5> HIDE DEF b, i
        <5> QED  BY <1>t, <2>3, <2>7, <4>2, <4>4, <4>5, <5>1, SizeFacts, SMTT(20)
      <4>7. bucket'[lim[q]] = Reserved(b, now) /\ ideal'[segment[q]] = Charged(i, now)
        BY <2>4, <3>3, <4>1, Zenon
      <4> HIDE DEF b, i
      <4> QED  BY <1>t, <2>1, <2>3, <2>5, <4>4, <4>5, <4>6, <4>7, SizeFacts DEF Pending
    <3> QED  BY <3>2, <3>3, Zenon
  <2> HIDE DEF b, i
  <2> QED  BY <2>1, <2>2, <2>6, <2>7, Zenon DEF ReservationInv
<1>4. ASSUME NEW r \in Requests, Reserve(r)
      PROVE  ReservationInv'
  <2> DEFINE b == bucket[lim[r]]
             i == ideal[segment[r]]
  <2>1. /\ ~disturbed /\ UNCHANGED <<now, segment, limiters, lim, ideal>>
        /\ \A q \in Requests : pc[q] # "reserved"
    BY <1>4, Zenon DEF Reserve
  <2>2. \A q \in Requests : pc'[q] = "reserved" <=> q = r
    BY <1>4, <2>1, Zenon DEF Reserve, Goto, TypeOK
  <2>3. /\ lim[r] \in Requests /\ segment[r] \in Segments /\ limiters[segment[r]] = lim[r]
        /\ b \in Buckets /\ i \in Buckets /\ b.last <= now /\ i.last <= now
    BY <1>4, <1>t, <1>l, Zenon DEF Reserve
  <2>4. /\ bucket'[lim[r]] = Reserved(b, now)
        /\ \A q \in Requests : q # lim[r] => bucket'[q] = bucket[q]
        /\ act'[r] = TimeToAct(b, now)
    BY <1>4, <2>3, Zenon DEF Reserve, TypeOK
  <2>5. \A s \in Segments : limiters[s] # None =>
          Credit(bucket[limiters[s]], now) = Credit(ideal[s], now)
    BY <2>1, Zenon DEF ReservationInv
  <2>6. ASSUME NEW s \in Segments, limiters[s] # None, lim[r] # limiters[s]
        PROVE  Credit(bucket'[limiters[s]], now) = Credit(ideal[s], now)
    BY <1>l, <2>4, <2>5, <2>6, Zenon
  <2>7. Pending(r, bucket[lim[r]])'
    <3>1. Credit(b, now) = Credit(i, now)
      BY <2>3, <2>5, RateLimitAssumption, Zenon
    <3>2. /\ Reserved(b, now).credit = Credit(b, now) - Period
          /\ Reserved(b, now).last = now
          /\ Reserved(b, now).event = TimeToAct(b, now)
          /\ Credit(b, now) \in Int
      BY <1>t, <2>3, CreditFacts, BucketTypes, Zenon
    <3> HIDE DEF b, i
    <3>3. i = ideal[segment[r]]
      BY Zenon DEF i
    <3> QED  BY <1>t, <2>1, <2>4, <3>1, <3>2, <3>3, SizeFacts DEF Pending, TimeToAct
  <2> HIDE DEF b, i
  <2> QED  BY <2>1, <2>2, <2>3, <2>6, <2>7, Zenon DEF ReservationInv
<1>5. ASSUME NEW r \in Requests, Respond(r)
      PROVE  ReservationInv'
  <2>1. /\ ~disturbed /\ UNCHANGED <<now, segment, limiters, lim, act, ideal>>
        /\ Credit(bucket'[lim[r]], now) = Credit(ideal[segment[r]], now)
    BY <1>5, CancelFacts, Zenon DEF Respond
  <2>2. \A q \in Requests : q # r => pc[q] # "reserved"
    BY <1>5, <2>1, Zenon DEF Respond, ReservationInv
  <2>3. \A q \in Requests : pc'[q] # "reserved"
    BY <1>5, <2>2, Zenon DEF Respond, Goto, TypeOK
  <2>4. \A q \in Requests : q # lim[r] => bucket'[q] = bucket[q]
    BY <1>5, Zenon DEF Respond, TypeOK
  <2>5. lim[r] \in Requests /\ segment[r] \in Segments /\ limiters[segment[r]] = lim[r]
    BY <1>5, <1>l, Zenon DEF Respond
  <2>6. ASSUME NEW s \in Segments, limiters[s] # None
        PROVE  Credit(bucket'[limiters[s]], now) = Credit(ideal[s], now)
    <3>1. CASE s = segment[r]
      BY <2>1, <2>5, <3>1, Zenon
    <3>2. CASE s # segment[r]
      <4>1. limiters[s] # lim[r] /\ limiters[s] \in Requests
        BY <1>l, <2>5, <2>6, <3>2, Zenon
      <4>2. Credit(bucket[limiters[s]], now) = Credit(ideal[s], now)
        BY <2>1, <2>2, <2>6, <4>1, Zenon DEF ReservationInv
      <4> QED  BY <2>4, <4>1, <4>2, Zenon
    <3> QED  BY <3>1, <3>2, Zenon
  <2> QED  BY <2>1, <2>3, <2>6, Zenon DEF ReservationInv
<1>6. CASE Tick
  <2>1. ~disturbed /\ now' = now + 1
        /\ UNCHANGED <<segment, limiters, bucket, lim, pc, act, ideal>>
    BY <1>6, Zenon DEF Tick
  <2>2. ASSUME NEW s \in Segments, limiters[s] # None,
               \A q \in Requests : pc[q] = "reserved" => lim[q] # limiters[s]
        PROVE  Credit(bucket[limiters[s]], now + 1) = Credit(ideal[s], now + 1)
    BY <1>t, <1>l, <2>1, <2>2, CreditTick, SMTT(20) DEF ReservationInv
  <2>3. ASSUME NEW q \in Requests, pc[q] = "reserved", now + 1 <= act[q]
        PROVE  Pending(q, bucket[lim[q]])'
    <3> DEFINE b == bucket[lim[q]]
               i == ideal[segment[q]]
    <3>1. /\ b \in Buckets /\ i \in Buckets /\ i.last <= now /\ act[q] \in Nat
          /\ b.credit \in Int /\ b.last \in Int
      BY <1>t, <1>l, <2>3 DEF Buckets
    <3>2. Pending(q, b)
      BY <1>t, <2>1, <2>3, SMTT(20) DEF ReservationInv
    <3>3. /\ b.event = act[q]
          /\ b.credit + (now - b.last) = Credit(i, now) - Period
          /\ b.credit + (act[q] - b.last) = 0
      BY <1>t, <2>3, <3>1, <3>2 DEF Pending
    <3>4. Credit(i, now) \in Int
      BY <1>t, <3>1, BucketTypes, Zenon
    <3>5. Credit(i, now + 1) = Credit(i, now) + 1
      <4>1. Credit(i, now) < Period
        <5> HIDE DEF b, i
        <5> QED  BY <1>t, <2>3, <3>1, <3>3, <3>4, SizeFacts
      <4> QED  BY <1>t, <3>1, <4>1, CreditTick, Zenon
    <3>6. b = bucket'[lim'[q]] /\ i = ideal'[segment'[q]] /\ act'[q] = act[q]
      BY <2>1, Zenon
    <3> HIDE DEF b, i
    <3>7. /\ b.credit + ((now + 1) - b.last) = Credit(i, now + 1) - Period
          /\ b.credit + (act[q] - b.last) >= 0
      BY <1>t, <3>1, <3>3, <3>4, <3>5, SizeFacts
    <3> QED  BY <2>1, <3>3, <3>6, <3>7, Zenon DEF Pending
  <2> QED  BY <2>1, <2>2, <2>3, Zenon DEF ReservationInv
<1>7. CASE UNCHANGED vars
  BY <1>7, Zenon DEF vars, ReservationInv, Pending
<1> QED  BY <1>1, <1>2, <1>3, <1>4, <1>5, <1>6, <1>7, Zenon DEF Next

(* The invariant of the denials holds for every rate, burst and interleaving*)
(* of any number of requests.                                               *)
THEOREM ReservationCorrect == Spec => [](UsageInv /\ ReservationInv)
<1>1. Init => UsageInv /\ ReservationInv
  <2>1. Init => ReservationInv
    BY Zenon DEF Init, ReservationInv
  <2>2. Init => UsageInv
    BY DEF Init, UsageInv, Full
  <2> QED  BY <2>1, <2>2, Zenon
<1>2. TypeOK /\ LimiterInv /\ UsageInv /\ ReservationInv /\ [Next]_vars
      => (UsageInv /\ ReservationInv)'
  BY UsageStep, ReservationStep, Zenon
<1> QED  BY <1>1, <1>2, LimiterCorrect, PTL DEF Spec

(* A 429 costs its provider no token: Reserve and the deferred Cancel of    *)
(* retryAfter undo one another, as long as no two denials overlap and none  *)
(* is slower than its delay.                                                *)
THEOREM DenialsFree == Spec => []UndisturbedDenialIsFree
<1>1. ReservationInv => UndisturbedDenialIsFree
  BY Zenon DEF ReservationInv, UndisturbedDenialIsFree, NoneReserved
<1> QED  BY <1>1, ReservationCorrect, PTL

(***************************************************************************)
(* The rate.  Every bucket is solvent: each step lemma on Solvent is       *)
(* arithmetic on Pays, and the step lemmas on Backed apply them to the     *)
(* limiter that the step uses.                                             *)
(***************************************************************************)
(* Tokens add up: Period times a count grows with the count.                *)
LEMMA TokenFacts ==
    /\ \A n \in Nat : Period * n \in Nat /\ Period * (n + 1) = Period * n + Period
    /\ \A m, n \in Nat : m <= n => Period * m <= Period * n
<1>1. ASSUME NEW n \in Nat
      PROVE  Period * n \in Nat /\ Period * (n + 1) = Period * n + Period
  BY SizeFacts
<1>2. ASSUME NEW m \in Nat, NEW n \in Nat, m <= n
      PROVE  Period * m <= Period * n
  BY <1>2, SizeFacts
<1> QED  BY <1>1, <1>2, Zenon

(* When a bucket is drained, and what a charge and time do to that: a full  *)
(* bucket forgets what it was owed.                                         *)
LEMMA DrainFacts ==
    ASSUME NEW b \in Buckets, NEW t \in Nat, b.last <= t
    PROVE  /\ Drained(b) \in Int /\ Credit(b, t) \in Int
           /\ Drained(Charged(b, t)) = (t - Credit(b, t)) + Period
           /\ Drained(Reserved(b, t)) = (t - Credit(b, t)) + Period
           /\ Drained(b) <= t - Credit(b, t)
           /\ t - Burst * Period <= t - Credit(b, t)
           /\ \/ t - Credit(b, t) = Drained(b)
              \/ t - Credit(b, t) = t - Burst * Period
<1> DEFINE z == Burst * Period
<1>1. z \in Nat /\ Period \in Nat
  BY SizeFacts, Zenon
<1>2. b.credit \in Int /\ b.last \in Nat
  BY Zenon DEF Buckets
<1>3. Credit(b, t) = Least(z, b.credit + (t - b.last))
  BY Zenon DEF Credit
<1>4. /\ Charged(b, t).credit = Credit(b, t) - Period /\ Charged(b, t).last = t
      /\ Reserved(b, t).credit = Credit(b, t) - Period /\ Reserved(b, t).last = t
  BY CreditFacts, Zenon
<1> HIDE DEF z
<1>5. Credit(b, t) \in Int
  BY <1>1, <1>2, <1>3 DEF Least
<1>6. /\ Drained(Charged(b, t)) = (t - Credit(b, t)) + Period
      /\ Drained(Reserved(b, t)) = (t - Credit(b, t)) + Period
  BY <1>1, <1>4, <1>5 DEF Drained
<1>7. /\ Drained(b) \in Int
      /\ Drained(b) <= t - Credit(b, t)
      /\ t - z <= t - Credit(b, t)
      /\ t - Credit(b, t) = Drained(b) \/ t - Credit(b, t) = t - z
  BY <1>1, <1>2, <1>3 DEF Least, Drained
<1> QED  BY <1>5, <1>6, <1>7, Zenon DEF z

(* The bucket that is drained earlier has the more credit.                  *)
LEMMA DrainOrder ==
    ASSUME NEW b \in Buckets, NEW i \in Buckets, NEW t \in Nat,
           b.last <= t, i.last <= t, Drained(i) <= Drained(b)
    PROVE  Credit(b, t) <= Credit(i, t)
<1> DEFINE z == Burst * Period
<1>1. z \in Nat /\ b.credit \in Int /\ b.last \in Nat /\ i.credit \in Int /\ i.last \in Nat
  BY SizeFacts, Zenon DEF Buckets
<1>2. /\ Credit(b, t) = Least(z, b.credit + (t - b.last))
      /\ Credit(i, t) = Least(z, i.credit + (t - i.last))
  BY Zenon DEF Credit
<1> HIDE DEF z
<1> QED  BY <1>1, <1>2 DEF Least, Drained

(* Cancel gives back nothing, or a token less what was reserved since, as   *)
(* far as there is room; the last event may become a token earlier.         *)
LEMMA CancelDrain ==
    ASSUME NEW b \in Buckets, NEW t \in Nat, NEW at \in Nat, b.last <= t
    PROVE  LET c == Cancelled(b, at, t)
               d2 == Drained(b) - (Period - (b.event - at))
           IN  \/ c = b
               \/ /\ t <= at /\ b.event - at < Period
                  /\ Drained(c) \in Int /\ d2 <= Drained(c)
                  /\ Drained(c) = d2 \/ Drained(c) = t - Burst * Period
                  /\ c.event \in Int
                  /\ \/ c.event = b.event
                     \/ at = b.event /\ c.event = b.event - Period /\ t <= c.event
<1> DEFINE c == Cancelled(b, at, t)
           z == Burst * Period
           x == Period - (b.event - at)
<1>1. /\ z \in Nat /\ Period \in Nat /\ b.event \in Nat
      /\ Drained(b) \in Int /\ Credit(b, t) \in Int /\ Drained(b) <= t - Credit(b, t)
      /\ t - Credit(b, t) = Drained(b) \/ t - Credit(b, t) = t - z
  BY SizeFacts, DrainFacts, Zenon DEF Buckets
<1>2. CASE at < t \/ x <= 0
  BY <1>2, Zenon DEF Cancelled
<1>3. CASE ~(at < t \/ x <= 0)
  <2>1. /\ c.credit = Least(z, Credit(b, t) + x) /\ c.last = t
        /\ c.event = IF at = b.event /\ at - Period >= t THEN at - Period ELSE b.event
    BY <1>3, Zenon DEF Cancelled
  <2>2. t <= at /\ b.event - at < Period /\ x > 0 /\ x \in Int
    BY <1>1, <1>3
  <2>3. Drained(c) = t - Least(z, Credit(b, t) + x)
    BY <2>1, Zenon DEF Drained
  <2> HIDE DEF c
  <2>4. /\ c.event \in Int
        /\ \/ c.event = b.event
           \/ at = b.event /\ c.event = b.event - Period /\ t <= c.event
    BY <1>1, <2>1
  <2> HIDE DEF z, x
  <2>5. /\ Drained(c) \in Int /\ Drained(b) - x <= Drained(c)
        /\ Drained(c) = Drained(b) - x \/ Drained(c) = t - z
    BY <1>1, <2>2, <2>3 DEF Least
  <2> QED  BY <2>2, <2>4, <2>5, Zenon DEF x, c, z
<1> QED  BY <1>2, <1>3, Zenon

(* How many reservations there are: finitely many, one more with another,   *)
(* and no more in a part.                                                   *)
LEMMA CountFacts ==
    /\ \A S \in SUBSET Requests : IsFiniteSet(S) /\ Cardinality(S) \in Nat
    /\ \A S \in SUBSET Requests : \A T \in SUBSET S : Cardinality(T) <= Cardinality(S)
    /\ \A S \in SUBSET Requests : \A r \in Requests \ S :
         Cardinality(S \cup {r}) = Cardinality(S) + 1
<1>1. ASSUME NEW S \in SUBSET Requests
      PROVE  IsFiniteSet(S) /\ Cardinality(S) \in Nat
  BY RateLimitAssumption, FS_Subset, FS_CardinalityType, Zenon
<1>2. ASSUME NEW S \in SUBSET Requests, NEW T \in SUBSET S
      PROVE  Cardinality(T) <= Cardinality(S)
  BY <1>1, FS_Subset, Zenon
<1>3. ASSUME NEW S \in SUBSET Requests, NEW r \in Requests \ S
      PROVE  Cardinality(S \cup {r}) = Cardinality(S) + 1
  BY <1>1, FS_AddElement, Zenon
<1> QED  BY <1>1, <1>2, <1>3, Zenon

(* The same in tokens.                                                      *)
LEMMA CostFacts ==
    /\ \A S \in SUBSET Requests : Period * Cardinality(S) \in Nat
    /\ \A S \in SUBSET Requests : \A T \in SUBSET S :
         Period * Cardinality(T) <= Period * Cardinality(S)
    /\ \A S \in SUBSET Requests : \A r \in Requests \ S :
         Period * Cardinality(S \cup {r}) = Period * Cardinality(S) + Period
<1>1. ASSUME NEW S \in SUBSET Requests
      PROVE  Period * Cardinality(S) \in Nat
  BY CountFacts, TokenFacts, Zenon
<1>2. ASSUME NEW S \in SUBSET Requests, NEW T \in SUBSET S
      PROVE  Period * Cardinality(T) <= Period * Cardinality(S)
  <2>1. T \in SUBSET Requests
    BY Zenon
  <2>2. /\ Cardinality(T) \in Nat /\ Cardinality(S) \in Nat
        /\ Cardinality(T) <= Cardinality(S)
    BY <2>1, CountFacts, Zenon
  <2> QED  BY <2>2, TokenFacts, Zenon
<1>3. ASSUME NEW S \in SUBSET Requests, NEW r \in Requests \ S
      PROVE  Period * Cardinality(S \cup {r}) = Period * Cardinality(S) + Period
  <2>1. Cardinality(S) \in Nat /\ Cardinality(S \cup {r}) = Cardinality(S) + 1
    BY CountFacts, Zenon
  <2> QED  BY <2>1, TokenFacts, Zenon
<1> QED  BY <1>1, <1>2, <1>3, Zenon

(* Every non-empty set of natural numbers has a least element, on which a   *)
(* proof by induction can rest.                                             *)
LEMMA LeastElement ==
    ASSUME NEW T \in SUBSET Nat, T # {}
    PROVE  \E x \in T : \A y \in T : x <= y
<1>1. IsWellFoundedOn(OpToRel(<, Nat), Nat)
  BY NatLessThanWellFounded, Zenon
<1>2. PICK x \in T : \A y \in T : ~(<<y, x>> \in OpToRel(<, Nat))
  BY <1>1, WFMin, Zenon
<1>3. \A y \in T : ~(y < x)
  BY <1>2, Zenon DEF OpToRel
<1> QED  BY <1>3

\* g is a chain up to n.
ChainTo(n, g) ==
    \A x \in Int : x <= n => g[x] = IF x <= 0 THEN 0 ELSE x + 2 * g[x - Period]

(* There is a chain up to every n: the next value is made from earlier ones.*)
LEMMA ChainToExists == \A n \in Nat : \E g \in [Int -> Nat] : ChainTo(n, g)
<1> DEFINE T == {n \in Nat : ~\E g \in [Int -> Nat] : ChainTo(n, g)}
<1> SUFFICES ASSUME T # {} PROVE FALSE
  BY Zenon
<1>1. PICK n \in T : \A m \in T : n <= m
  BY LeastElement, Zenon
<1>2. CASE n = 0
  <2> DEFINE g == [x \in Int |-> 0]
  <2>1. g \in [Int -> Nat]
    BY Zenon
  <2>2. \A x \in Int : g[x] = 0
    BY Zenon
  <2>3. ChainTo(0, g)
    <3> HIDE DEF g
    <3> QED  BY <2>2, Zenon DEF ChainTo
  <2> QED  BY <1>1, <1>2, <2>1, <2>3, Zenon
<1>3. CASE n # 0
  <2>1. n \in Nat /\ n - 1 \in Nat /\ n - 1 \notin T
    <3>1. n \in Nat
      BY <1>1, Zenon
    <3>2. n - 1 \in Nat /\ ~(n <= n - 1)
      BY <1>3, <3>1
    <3> HIDE DEF T
    <3> QED  BY <1>1, <3>1, <3>2, Zenon
  <2>2. PICK g \in [Int -> Nat] : ChainTo(n - 1, g)
    BY <2>1, Zenon
  <2> DEFINE h == [g EXCEPT ![n] = n + 2 * g[n - Period]]
  <2>3. h \in [Int -> Nat]
    BY <2>1, SizeFacts
  <2>4. ASSUME NEW x \in Int, x <= n
        PROVE  h[x] = IF x <= 0 THEN 0 ELSE x + 2 * h[x - Period]
    <3>1. x - Period \in Int /\ x - Period # n /\ n - Period # n /\ n - Period \in Int
      BY <2>1, <2>4, SizeFacts
    <3>2. h[x - Period] = g[x - Period]
      BY <3>1, Zenon
    <3>3. CASE x = n
      BY <1>3, <2>1, <3>2, <3>3
    <3>4. CASE x # n
      <4>1. x <= n - 1 /\ h[x] = g[x]
        BY <2>1, <2>4, <3>4
      <4> QED  BY <2>2, <3>2, <4>1, Zenon DEF ChainTo
    <3> QED  BY <3>3, <3>4, Zenon
  <2>5. ChainTo(n, h)
    BY <2>4, Zenon DEF ChainTo
  <2> QED  BY <1>1, <2>3, <2>5, Zenon
<1> QED  BY <1>2, <1>3, Zenon

(* And only one.                                                            *)
LEMMA ChainToUnique ==
    ASSUME NEW n \in Nat, NEW m \in Nat, NEW g, NEW h, ChainTo(n, g), ChainTo(m, h)
    PROVE  \A x \in Int : x <= n /\ x <= m => g[x] = h[x]
<1> DEFINE T == {x \in Nat : x <= n /\ x <= m /\ g[x] # h[x]}
<1>1. \A x \in Int : x <= n /\ x <= m /\ x <= 0 => g[x] = h[x]
  BY Zenon DEF ChainTo
<1>2. T = {}
  <2> SUFFICES ASSUME T # {} PROVE FALSE
    BY Zenon
  <2>1. PICK x \in T : \A y \in T : x <= y
    BY LeastElement, Zenon
  <2>2. x \in Nat /\ x <= n /\ x <= m /\ g[x] # h[x] /\ ~(x <= 0)
    BY <1>1, <2>1
  <2>3. /\ x - Period \in Int /\ x - Period < x
        /\ x - Period <= n /\ x - Period <= m
    BY <2>2, SizeFacts
  <2>4. g[x - Period] = h[x - Period]
    <3>1. CASE x - Period <= 0
      BY <1>1, <2>3, <3>1, Zenon
    <3>2. CASE ~(x - Period <= 0)
      <4>1. x - Period \in Nat /\ x - Period \notin T
        BY <2>1, <2>2, <2>3, <3>2
      <4> QED  BY <2>3, <4>1, Zenon
    <3> QED  BY <3>1, <3>2, Zenon
  <2>5. g[x] = x + 2 * g[x - Period] /\ h[x] = x + 2 * h[x - Period]
    BY <2>2 DEF ChainTo
  <2> QED  BY <2>2, <2>4, <2>5, Zenon
<1>3. \A x \in Int : ~(x <= 0) => x \in Nat
  OBVIOUS
<1> QED  BY <1>1, <1>2, <1>3, Zenon

(* Hence Chain is what its definition says.                                 *)
LEMMA ChainFacts ==
    /\ Chain \in [Int -> Nat]
    /\ \A x \in Int : Chain[x] = IF x <= 0 THEN 0 ELSE x + 2 * Chain[x - Period]
<1> DEFINE Top(x) == IF x <= 0 THEN 0 ELSE x
           g(n) == CHOOSE h \in [Int -> Nat] : ChainTo(n, h)
           c == [x \in Int |-> g(Top(x))[x]]
<1>1. \A n \in Nat : g(n) \in [Int -> Nat] /\ ChainTo(n, g(n))
  BY ChainToExists, Zenon
<1>2. \A x \in Int : Top(x) \in Nat /\ x <= Top(x)
  OBVIOUS
<1>3. \A x \in Int : c[x] = g(Top(x))[x] /\ c[x] \in Nat
  BY <1>1, <1>2, Zenon
<1> HIDE DEF g
<1>4. ASSUME NEW x \in Int
      PROVE  c[x] = IF x <= 0 THEN 0 ELSE x + 2 * c[x - Period]
  <2>1. CASE x <= 0
    <3>1. g(Top(x))[x] = 0
      BY <1>1, <1>2, <2>1, Zenon DEF ChainTo
    <3> QED  BY <1>3, <2>1, <3>1, Zenon
  <2>2. CASE ~(x <= 0)
    <3>1. /\ x - Period \in Int /\ x - Period <= Top(x)
          /\ x - Period <= Top(x - Period)
      BY <1>2, <2>2, SizeFacts
    <3>2. g(Top(x))[x] = x + 2 * g(Top(x))[x - Period]
      BY <1>1, <1>2, <2>2, Zenon DEF ChainTo
    <3>3. g(Top(x))[x - Period] = g(Top(x - Period))[x - Period]
      <4>1. /\ Top(x) \in Nat /\ Top(x - Period) \in Nat
            /\ ChainTo(Top(x), g(Top(x))) /\ ChainTo(Top(x - Period), g(Top(x - Period)))
        BY <1>1, <1>2, <3>1, Zenon
      <4> HIDE DEF Top
      <4>2. \A y \in Int : y <= Top(x) /\ y <= Top(x - Period) =>
              g(Top(x))[y] = g(Top(x - Period))[y]
        BY <4>1, ChainToUnique
      <4> QED  BY <3>1, <4>2, Zenon
    <3>4. c[x] = x + 2 * c[x - Period]
      <4>1. c[x] = g(Top(x))[x] /\ c[x - Period] = g(Top(x - Period))[x - Period]
        BY <1>3, <3>1, Zenon
      <4> HIDE DEF c, Top
      <4> QED  BY <3>2, <3>3, <4>1, Zenon
    <3> QED  BY <2>2, <3>4, Zenon
  <2> QED  BY <2>1, <2>2, Zenon
<1>5. c = [x \in Int |-> IF x <= 0 THEN 0 ELSE x + 2 * c[x - Period]]
  BY <1>4, Zenon
<1> HIDE DEF c
<1>6. \E d : d = [x \in Int |-> IF x <= 0 THEN 0 ELSE x + 2 * d[x - Period]]
  BY <1>5, Zenon
<1>7. Chain = [x \in Int |-> IF x <= 0 THEN 0 ELSE x + 2 * Chain[x - Period]]
  BY <1>6, Zenon DEF Chain
<1>8. \A n \in Nat : ChainTo(n, c) /\ ChainTo(n, Chain)
  <2>1. \A x \in Int : Chain[x] = IF x <= 0 THEN 0 ELSE x + 2 * Chain[x - Period]
    BY <1>7, Zenon
  <2> QED  BY <1>4, <2>1, Zenon DEF ChainTo
<1>9. ASSUME NEW x \in Int
      PROVE  Chain[x] = c[x]
  <2>1. Top(x) \in Nat /\ x <= Top(x) /\ ChainTo(Top(x), c) /\ ChainTo(Top(x), Chain)
    BY <1>2, <1>8, Zenon
  <2> HIDE DEF Top
  <2>2. \A y \in Int : y <= Top(x) /\ y <= Top(x) => Chain[y] = c[y]
    BY <2>1, ChainToUnique
  <2> QED  BY <2>1, <2>2, Zenon
<1>10. \A x \in Int : Chain[x] \in Nat
  BY <1>3, <1>9, Zenon
<1>11. \A x \in Int : Chain[x] = IF x <= 0 THEN 0 ELSE x + 2 * Chain[x - Period]
  BY <1>7, Zenon
<1>12. Chain = [x \in Int |-> Chain[x]]
  BY <1>7, <1>11, Zenon
<1> QED  BY <1>10, <1>11, <1>12, Zenon

\* One level of a chain.
Pos(x) == IF x <= 0 THEN 0 ELSE x

(* The same for any x, as nothing is below 0.                               *)
LEMMA ChainStep ==
    \A x \in Int : /\ Chain[x] \in Nat /\ Chain[x - Period] \in Nat
                   /\ Chain[x] = Pos(x) + 2 * Chain[x - Period]
                   /\ x <= 0 => Chain[x] = 0
<1> SUFFICES ASSUME NEW x \in Int
             PROVE  /\ Chain[x] \in Nat /\ Chain[x - Period] \in Nat
                    /\ Chain[x] = Pos(x) + 2 * Chain[x - Period]
                    /\ x <= 0 => Chain[x] = 0
  BY Zenon
<1>1. x - Period \in Int /\ (x <= 0 => x - Period <= 0)
  BY SizeFacts
<1>2. Chain[x] \in Nat /\ Chain[x - Period] \in Nat
  BY <1>1, ChainFacts, Zenon
<1>3. /\ Chain[x] = IF x <= 0 THEN 0 ELSE x + 2 * Chain[x - Period]
      /\ x - Period <= 0 => Chain[x - Period] = 0
  BY <1>1, ChainFacts, Zenon
<1> QED  BY <1>1, <1>2, <1>3 DEF Pos

(* A chain grows the faster the longer it is.                               *)
LEMMA ChainConvex ==
    ASSUME NEW w \in Nat
    PROVE  \A y, x \in Int : y <= x => Chain[y] + Chain[x - w] <= Chain[x] + Chain[y - w]
<1> DEFINE Fails(y, x) == ~(Chain[y] + Chain[x - w] <= Chain[x] + Chain[y - w])
           T == {x \in Nat : \E y \in Int : y <= x /\ Fails(y, x)}
<1>1. ASSUME NEW x \in Int, NEW y \in Int, y <= x, x <= 0
      PROVE  ~Fails(y, x)
  <2>1. x - w \in Int /\ y - w \in Int /\ x - w <= 0 /\ y - w <= 0 /\ y <= 0
    BY <1>1
  <2>2. Chain[x] = 0 /\ Chain[y] = 0 /\ Chain[x - w] = 0 /\ Chain[y - w] = 0
    BY <1>1, <2>1, ChainStep, Zenon
  <2> QED  BY <2>2
<1>2. T = {}
  <2> SUFFICES ASSUME T # {} PROVE FALSE
    BY Zenon
  <2>1. PICK x \in T : \A m \in T : x <= m
    <3> HIDE DEF Fails
    <3> QED  BY LeastElement, Zenon
  <2>2. x \in Nat /\ \E y \in Int : y <= x /\ Fails(y, x)
    BY <2>1, Zenon
  <2>3. PICK y \in Int : y <= x /\ Fails(y, x)
    BY <2>2, Zenon
  <2>4. /\ x - Period \in Int /\ y - Period \in Int /\ y - Period <= x - Period
        /\ x - w \in Int /\ y - w \in Int /\ ~(x <= x - Period)
        /\ (x - Period) - w = (x - w) - Period /\ (y - Period) - w = (y - w) - Period
    BY <2>2, <2>3, SizeFacts
  <2>5. ~Fails(y - Period, x - Period)
    <3>1. CASE x - Period <= 0
      BY <1>1, <2>4, <3>1, Zenon
    <3>2. CASE ~(x - Period <= 0)
      <4>1. x - Period \in Nat
        BY <2>4, <3>2
      <4>2. x - Period \notin T
        <5> HIDE DEF T
        <5> QED  BY <2>1, <2>4, Zenon
      <4> HIDE DEF Fails
      <4> QED  BY <2>4, <4>1, <4>2, Zenon
    <3> QED  BY <3>1, <3>2, Zenon
  <2>6. Chain[y - Period] + Chain[(x - w) - Period]
          <= Chain[x - Period] + Chain[(y - w) - Period]
    BY <2>4, <2>5, Zenon
  <2>7. /\ Chain[x] = Pos(x) + 2 * Chain[x - Period] /\ Chain[x - Period] \in Nat
        /\ Chain[y] = Pos(y) + 2 * Chain[y - Period] /\ Chain[y - Period] \in Nat
        /\ Chain[x - w] = Pos(x - w) + 2 * Chain[(x - w) - Period]
        /\ Chain[y - w] = Pos(y - w) + 2 * Chain[(y - w) - Period]
        /\ Chain[(x - w) - Period] \in Nat /\ Chain[(y - w) - Period] \in Nat
    BY <2>2, <2>4, ChainStep
  <2>8. /\ Pos(y) + Pos(x - w) <= Pos(x) + Pos(y - w)
        /\ Pos(y) \in Nat /\ Pos(x - w) \in Nat /\ Pos(x) \in Nat /\ Pos(y - w) \in Nat
    BY <2>2, <2>3 DEF Pos
  <2>9. ~Fails(y, x)
    BY <2>6, <2>7, <2>8
  <2> QED  BY <2>3, <2>9, Zenon
<1>3. \A x \in Int : ~(x <= 0) => x \in Nat
  OBVIOUS
<1>4. \A y, x \in Int : y <= x => ~Fails(y, x)
  <2> HIDE DEF Fails
  <2> QED  BY <1>1, <1>2, <1>3, Zenon
<1> QED  BY <1>4, Zenon

(* A longer chain is worth more.                                            *)
LEMMA ChainMonotone == \A y, x \in Int : y <= x => Chain[y] <= Chain[x]
<1> SUFFICES ASSUME NEW y \in Int, NEW x \in Int, y <= x
             PROVE  Chain[y] <= Chain[x]
  BY Zenon
<1>1. CASE x <= 0
  <2>1. y <= 0
    BY <1>1
  <2>2. Chain[y] = 0 /\ Chain[x] = 0
    BY <1>1, <2>1, ChainStep, Zenon
  <2> QED  BY <2>2
<1>2. CASE ~(x <= 0)
  <2>1. x \in Nat /\ x - x \in Int /\ x - x <= 0 /\ y - x \in Int /\ y - x <= 0
    BY <1>2
  <2>2. Chain[x - x] = 0 /\ Chain[y - x] = 0 /\ Chain[x] \in Nat /\ Chain[y] \in Nat
    BY <2>1, ChainStep, Zenon
  <2>3. Chain[y] + Chain[x - x] <= Chain[x] + Chain[y - x]
    BY <2>1, ChainConvex, Zenon
  <2> QED  BY <2>2, <2>3
<1> QED  BY <1>1, <1>2, Zenon

(* A reservation is worth at least its distance, and nothing when due; and  *)
(* a farther one is worth more by at least as much as it is farther.        *)
LEMMA SurplusFacts ==
    /\ \A x \in Int : Surplus(x) \in Nat /\ Surplus(x) = Pos(x) + Chain[x - Period]
    /\ \A x \in Int : x <= 0 => Surplus(x) = 0
    /\ \A x \in Int : x <= Surplus(x)
    /\ \A y, x \in Int : y <= x => Surplus(y) <= Surplus(x)
    /\ \A y, x \in Int : \A h \in Nat : h <= x /\ y + h <= x => Surplus(y) + h <= Surplus(x)
<1>1. ASSUME NEW x \in Int
      PROVE  /\ Surplus(x) \in Nat /\ Surplus(x) = Pos(x) + Chain[x - Period]
             /\ x <= 0 => Surplus(x) = 0
             /\ x <= Surplus(x)
  <2>1. /\ Chain[x] \in Nat /\ Chain[x - Period] \in Nat
        /\ Chain[x] = Pos(x) + 2 * Chain[x - Period]
        /\ x <= 0 => Chain[x] = 0
    BY ChainStep, Zenon
  <2> QED  BY <2>1 DEF Surplus, Pos
<1>2. ASSUME NEW y \in Int, NEW x \in Int, NEW h \in Nat, h <= x, y + h <= x
      PROVE  Surplus(y) + h <= Surplus(x)
  <2>1. /\ y - Period \in Int /\ x - Period \in Int /\ y - Period <= x - Period
    BY <1>2, SizeFacts
  <2>2. /\ Chain[y - Period] <= Chain[x - Period]
        /\ Chain[y - Period] \in Nat /\ Chain[x - Period] \in Nat
    BY <2>1, ChainMonotone, ChainStep, Zenon
  <2>3. /\ Surplus(y) = Pos(y) + Chain[y - Period]
        /\ Surplus(x) = Pos(x) + Chain[x - Period]
    BY <1>1, Zenon
  <2>4. Pos(y) + h <= Pos(x) /\ Pos(y) \in Nat /\ Pos(x) \in Nat
    BY <1>2 DEF Pos
  <2> QED  BY <2>2, <2>3, <2>4
<1>3. ASSUME NEW y \in Int, NEW x \in Int, y <= x
      PROVE  Surplus(y) <= Surplus(x)
  <2>1. CASE x <= 0
    <3>1. y <= 0
      BY <1>3, <2>1
    <3>2. Surplus(y) = 0 /\ Surplus(x) = 0
      BY <1>1, <2>1, <3>1, Zenon
    <3> QED  BY <3>2
  <2>2. CASE ~(x <= 0)
    <3>1. Surplus(y) + 0 <= Surplus(x)
      <4>1. 0 <= x /\ y + 0 <= x
        BY <1>3, <2>2
      <4> QED  BY <1>2, <4>1, Zenon
    <3> QED  BY <1>1, <3>1
  <2> QED  BY <2>1, <2>2, Zenon
<1> QED  BY <1>1, <1>2, <1>3, Zenon

(* When a reservation to act at a is cancelled after the last event e, what *)
(* it could be worth and what Cancel withholds make up for the part of the  *)
(* chain that goes with it.                                                 *)
LEMMA ChainCancel ==
    ASSUME NEW d \in Int, NEW e \in Int, NEW a \in Int, NEW v \in Int,
           d <= e, v <= e, e - a < Period
    PROVE  Chain[d - v] <= Chain[(d - (Period - (e - a))) - v] + Surplus(a - v) + (e - a)
<1> DEFINE w == Period - (e - a)
           x == e - v
           y == d - v
           p == x - Period
           h == e - a
<1>1. /\ w \in Nat /\ x \in Nat /\ y \in Int /\ p \in Int /\ h \in Int /\ y <= x
      /\ x - w = p + h /\ (d - w) - v = y - w /\ (a - v) - Period = p - h
      /\ a - v = x - h /\ y - w \in Int /\ p + h \in Int /\ p - h \in Int /\ a - v \in Int
  BY SizeFacts
<1>2. Chain[y] + Chain[p + h] <= Chain[x] + Chain[y - w]
  <2>1. \A z \in Int : z <= x => Chain[z] + Chain[x - w] <= Chain[x] + Chain[z - w]
    BY <1>1, ChainConvex
  <2> HIDE DEF w, x, y, p, h
  <2> QED  BY <1>1, <2>1, Zenon
<1>3. 2 * Chain[p] <= Chain[p + h] + Chain[p - h]
  <2> HIDE DEF w, x, y, p, h
  <2>1. CASE h >= 0
    <3>1. h \in Nat /\ p <= p + h /\ (p + h) - h = p
      BY <1>1, <2>1
    <3>2. Chain[p] + Chain[(p + h) - h] <= Chain[p + h] + Chain[p - h]
      BY <1>1, <3>1, ChainConvex, Zenon
    <3> QED  BY <1>1, <3>1, <3>2, ChainStep
  <2>2. CASE h < 0
    <3>1. -h \in Nat /\ p <= p - h /\ (p - h) - (-h) = p /\ p - (-h) = p + h
      BY <1>1, <2>2
    <3>2. Chain[p] + Chain[(p - h) - (-h)] <= Chain[p - h] + Chain[p - (-h)]
      BY <1>1, <3>1, ChainConvex, Zenon
    <3> QED  BY <1>1, <3>1, <3>2, ChainStep
  <2> QED  BY <1>1, <2>1, <2>2
<1>4. /\ Chain[x] = Pos(x) + 2 * Chain[p] /\ Chain[p] \in Nat
      /\ Chain[y] \in Nat /\ Chain[p + h] \in Nat /\ Chain[p - h] \in Nat
      /\ Chain[y - w] \in Nat
  BY <1>1, ChainStep
<1>5. Surplus(a - v) = Pos(x - h) + Chain[p - h]
  BY <1>1, SurplusFacts, Zenon
<1> HIDE DEF w, x, y, p, h
<1>6. x <= Pos(x - h) + h /\ Pos(x) = x /\ Pos(x - h) \in Nat
  BY <1>1 DEF Pos
<1>7. Chain[y] <= Chain[y - w] + (Pos(x - h) + Chain[p - h]) + h
  BY <1>1, <1>2, <1>3, <1>4, <1>6
<1>8. (d - w) - v = y - w
  BY <1>1, Zenon
<1> QED  BY <1>5, <1>7, <1>8, Zenon DEF w, y, h

(* Before the first step of a chain it is worth its length.                 *)
LEMMA ChainShort == \A x \in Int : x <= Period => Chain[x] = Pos(x)
<1> SUFFICES ASSUME NEW x \in Int, x <= Period PROVE Chain[x] = Pos(x)
  BY Zenon
<1>1. x - Period \in Int /\ x - Period <= 0
  BY SizeFacts
<1>2. Chain[x - Period] = 0 /\ Chain[x] = Pos(x) + 2 * Chain[x - Period]
  BY <1>1, ChainStep, Zenon
<1> QED  BY <1>2 DEF Pos

(* A row of n has n elements.                                               *)
LEMMA RowFacts ==
    ASSUME NEW r, NEW n \in Nat
    PROVE  IsFiniteSet({r} \X (1..n)) /\ Cardinality({r} \X (1..n)) = n
<1>1. IsFiniteSet(1..n) /\ Cardinality(1..n) = n
  <2>1. 1 \in Int /\ n \in Int
    OBVIOUS
  <2>2. IsFiniteSet(1..n) /\ Cardinality(1..n) = IF 1 > n THEN 0 ELSE n - 1 + 1
    BY <2>1, FS_Interval, Zenon
  <2> QED  BY <2>2
<1>2. IsFiniteSet({r}) /\ Cardinality({r}) = 1
  BY FS_Singleton, Zenon
<1>3. /\ IsFiniteSet({r} \X (1..n))
      /\ Cardinality({r} \X (1..n)) = Cardinality({r}) * Cardinality(1..n)
  BY <1>1, <1>2, FS_Product, Zenon
<1> QED  BY <1>1, <1>2, <1>3

(* Worth adds up over reservations: finitely many tokens, the more the more *)
(* reservations and the earlier they are looked at.                         *)
LEMMA WorthType ==
    ASSUME NEW S \in SUBSET Requests, NEW at \in [Requests -> Nat], NEW v \in Int
    PROVE  /\ Worth(S, at, v) \in Nat
           /\ IsFiniteSet(UNION {{r} \X (1..Surplus(at[r] - v)) : r \in S})
<1> DEFINE U(r) == {r} \X (1..Surplus(at[r] - v))
           T == {U(r) : r \in S}
           f == [r \in S |-> U(r)]
<1>1. IsFiniteSet(S)
  BY CountFacts, Zenon
<1>2. f \in Surjection(S, T)
  <2> HIDE DEF U
  <2> QED  BY Zenon DEF Surjection
<1>3. IsFiniteSet(T)
  <2> HIDE DEF f, T
  <2> QED  BY <1>1, <1>2, FS_Surjection, Zenon
<1>4. ASSUME NEW r \in S
      PROVE  IsFiniteSet(U(r))
  <2>1. at[r] - v \in Int
    OBVIOUS
  <2>2. Surplus(at[r] - v) \in Nat
    BY <2>1, SurplusFacts, Zenon
  <2> QED  BY <2>2, RowFacts, Zenon
<1>5. IsFiniteSet(UNION T)
  <2>1. \A x \in T : IsFiniteSet(x)
    <3> HIDE DEF U
    <3> QED  BY <1>4, Zenon
  <2> HIDE DEF T
  <2> QED  BY <1>3, <2>1, FS_UNION, Zenon
<1> QED  BY <1>5, FS_CardinalityType, Zenon DEF Worth

(* One more reservation adds its share.                                     *)
LEMMA WorthAdd ==
    ASSUME NEW S \in SUBSET Requests, NEW r \in Requests \ S,
           NEW at \in [Requests -> Nat], NEW v \in Int
    PROVE  /\ Worth(S \cup {r}, at, v) = Worth(S, at, v) + Surplus(at[r] - v)
           /\ Worth(S, at, v) \in Nat /\ Surplus(at[r] - v) \in Nat
<1> DEFINE U(q) == {q} \X (1..Surplus(at[q] - v))
           A == UNION {U(q) : q \in S}
           B == U(r)
<1>1. Surplus(at[r] - v) \in Nat
  <2>1. at[r] - v \in Int
    OBVIOUS
  <2> QED  BY <2>1, SurplusFacts, Zenon
<1>2. IsFiniteSet(A) /\ Cardinality(A) = Worth(S, at, v) /\ Worth(S, at, v) \in Nat
  BY WorthType, Zenon DEF Worth
<1>3. IsFiniteSet(B) /\ Cardinality(B) = Surplus(at[r] - v)
  BY <1>1, RowFacts, Zenon
<1>4. Worth(S \cup {r}, at, v) = Cardinality(A \cup B)
  <2>1. UNION {U(q) : q \in S \cup {r}} = A \cup B
    <3> HIDE DEF U
    <3> QED  BY Zenon
  <2> QED  BY <2>1, Zenon DEF Worth
<1>5. A \cap B = {}
  <2> SUFFICES ASSUME NEW x, x \in A, x \in B PROVE FALSE
    BY Zenon
  <2>1. PICK q \in S : x \in U(q)
    BY Zenon
  <2>2. x[1] = q /\ x[1] = r
    BY <2>1, Zenon
  <2> QED  BY <2>2, Zenon
<1> HIDE DEF A, B
<1>6. Cardinality(A \cup B) = Cardinality(A) + Cardinality(B) - Cardinality(A \cap B)
  BY <1>2, <1>3, FS_Union, Zenon
<1>7. Cardinality(A \cap B) = 0
  BY <1>5, FS_EmptySet, Zenon
<1> QED  BY <1>1, <1>2, <1>3, <1>4, <1>6, <1>7

(* Some of them, and later, are worth no more.                              *)
LEMMA WorthPart ==
    ASSUME NEW S \in SUBSET Requests, NEW T \in SUBSET S,
           NEW at \in [Requests -> Nat], NEW v \in Int, NEW w \in Int, v <= w
    PROVE  Worth(T, at, w) <= Worth(S, at, v)
<1> DEFINE A == UNION {{q} \X (1..Surplus(at[q] - v)) : q \in S}
           B == UNION {{q} \X (1..Surplus(at[q] - w)) : q \in T}
<1>1. IsFiniteSet(A) /\ Cardinality(A) = Worth(S, at, v)
  BY WorthType, Zenon DEF Worth
<1>2. Cardinality(B) = Worth(T, at, w)
  BY Zenon DEF Worth
<1>3. ASSUME NEW q \in T
      PROVE  {q} \X (1..Surplus(at[q] - w)) \subseteq {q} \X (1..Surplus(at[q] - v))
  <2>1. at[q] - w \in Int /\ at[q] - v \in Int /\ at[q] - w <= at[q] - v
    OBVIOUS
  <2>2. /\ Surplus(at[q] - w) <= Surplus(at[q] - v)
        /\ Surplus(at[q] - w) \in Nat /\ Surplus(at[q] - v) \in Nat
    BY <2>1, SurplusFacts, Zenon
  <2>3. 1..Surplus(at[q] - w) \subseteq 1..Surplus(at[q] - v)
    BY <2>2
  <2> QED  BY <2>3, Zenon
<1>4. B \subseteq A
  <2> SUFFICES ASSUME NEW x \in B PROVE x \in A
    BY Zenon
  <2>1. PICK q \in T : x \in {q} \X (1..Surplus(at[q] - w))
    BY Zenon
  <2>2. q \in S /\ x \in {q} \X (1..Surplus(at[q] - v))
    BY <1>3, <2>1, Zenon
  <2> QED  BY <2>2, Zenon
<1> HIDE DEF A, B
<1>5. Cardinality(B) <= Cardinality(A)
  BY <1>1, <1>4, FS_Subset, Zenon
<1> QED  BY <1>1, <1>2, <1>5, Zenon

(* Only their own times to act matter.                                      *)
LEMMA WorthSame ==
    ASSUME NEW S, NEW at, NEW at2, NEW v, \A q \in S : at2[q] = at[q]
    PROVE  Worth(S, at2, v) = Worth(S, at, v)
<1>1. {{r} \X (1..Surplus(at2[r] - v)) : r \in S} = {{r} \X (1..Surplus(at[r] - v)) : r \in S}
  <2> DEFINE U(r, a) == {r} \X (1..Surplus(a - v))
  <2>1. \A r \in S : U(r, at2[r]) = U(r, at[r])
    BY Zenon
  <2> HIDE DEF U
  <2>2. {U(r, at2[r]) : r \in S} = {U(r, at[r]) : r \in S}
    BY <2>1, Zenon
  <2> QED  BY <2>2, Zenon DEF U
<1> QED  BY <1>1, Zenon DEF Worth

(* With one reservation less, one token less and its share of the worth.    *)
LEMMA WorthLess ==
    \A S \in SUBSET Requests : \A r \in S : \A at \in [Requests -> Nat] : \A v \in Int :
      /\ Worth(S, at, v) = Worth(S \ {r}, at, v) + Surplus(at[r] - v)
      /\ Period * Cardinality(S) = Period * Cardinality(S \ {r}) + Period
<1> SUFFICES
      ASSUME NEW S \in SUBSET Requests, NEW r \in S,
             NEW at \in [Requests -> Nat], NEW v \in Int
      PROVE  /\ Worth(S, at, v) = Worth(S \ {r}, at, v) + Surplus(at[r] - v)
             /\ Period * Cardinality(S) = Period * Cardinality(S \ {r}) + Period
  BY Zenon
<1> DEFINE T == S \ {r}
<1>1. T \in SUBSET Requests /\ r \in Requests \ T /\ T \cup {r} = S
  BY Zenon
<1> HIDE DEF T
<1>2. Worth(T \cup {r}, at, v) = Worth(T, at, v) + Surplus(at[r] - v)
  BY <1>1, WorthAdd, Zenon
<1>3. Period * Cardinality(T \cup {r}) = Period * Cardinality(T) + Period
  BY <1>1, CostFacts, Zenon
<1> QED  BY <1>1, <1>2, <1>3, Zenon DEF T

(* Reservations that act at u or later are worth more before u.             *)
LEMMA WorthGap ==
    ASSUME NEW S \in SUBSET Requests, S # {}, NEW at \in [Requests -> Nat],
           NEW e \in Int, NEW u \in Int, NEW v \in Int, e <= u, u <= v,
           \A q \in S : at[q] >= u
    PROVE  Worth(S, at, v) + (u - e) <= Worth(S, at, e)
<1>1. PICK q \in S : TRUE
  BY Zenon
<1> DEFINE T == S \ {q}
<1>2. /\ Worth(S, at, v) = Worth(T, at, v) + Surplus(at[q] - v)
      /\ Worth(S, at, e) = Worth(T, at, e) + Surplus(at[q] - e)
  BY <1>1, WorthLess, Zenon
<1>3. T \in SUBSET Requests
  BY Zenon
<1> HIDE DEF T
<1>4. /\ Worth(T, at, v) <= Worth(T, at, e)
      /\ Worth(T, at, v) \in Nat /\ Worth(T, at, e) \in Nat
  <2>1. T \in SUBSET T /\ e <= v
    OBVIOUS
  <2> QED  BY <1>3, <2>1, WorthPart, WorthType, Zenon
<1>5. /\ at[q] - v \in Int /\ at[q] - e \in Int /\ u - e \in Nat
      /\ u - e <= at[q] - e /\ (at[q] - v) + (u - e) <= at[q] - e
  <2>1. at[q] \in Nat /\ at[q] >= u
    BY Zenon
  <2> QED  BY <2>1
<1>6. /\ Surplus(at[q] - v) + (u - e) <= Surplus(at[q] - e)
      /\ Surplus(at[q] - v) \in Nat /\ Surplus(at[q] - e) \in Nat
  BY <1>5, SurplusFacts, Zenon
<1> QED  BY <1>2, <1>4, <1>6

(* The terms of Pays are numbers.                                           *)
LEMMA PaysTypes ==
    ASSUME NEW S \in SUBSET Requests, NEW at \in [Requests -> Nat],
           NEW d \in Int, NEW v \in Int
    PROVE  /\ Period * Cardinality(S) \in Nat /\ Worth(S, at, v) \in Nat
           /\ d - v \in Int /\ Chain[d - v] \in Nat
           /\ d <= v => Chain[d - v] = 0
<1>1. d - v \in Int /\ (d <= v => d - v <= 0)
  OBVIOUS
<1>2. Chain[d - v] \in Nat /\ (d - v <= 0 => Chain[d - v] = 0)
  BY <1>1, ChainStep, Zenon
<1> QED  BY <1>1, <1>2, CostFacts, WorthType, Zenon

(* A bucket that has paid also has if it is drained later, and for less.    *)
LEMMA PaysPart ==
    ASSUME NEW S \in SUBSET Requests, NEW T \in SUBSET S,
           NEW at \in [Requests -> Nat], NEW v \in Int,
           NEW d \in Int, NEW d2 \in Int, NEW i \in Int, d <= d2,
           Pays(d, i, S, at, v)
    PROVE  Pays(d2, i, T, at, v)
<1>1. T \in SUBSET Requests /\ v <= v /\ d - v <= d2 - v
  OBVIOUS
<1>2. /\ Period * Cardinality(S) \in Nat /\ Worth(S, at, v) \in Nat
      /\ d - v \in Int /\ Chain[d - v] \in Nat
  BY PaysTypes, Zenon
<1>3. /\ Period * Cardinality(T) \in Nat /\ Worth(T, at, v) \in Nat
      /\ d2 - v \in Int /\ Chain[d2 - v] \in Nat
  BY <1>1, PaysTypes, Zenon
<1>4. Period * Cardinality(T) <= Period * Cardinality(S)
  BY CostFacts, Zenon
<1>5. Worth(T, at, v) <= Worth(S, at, v)
  BY <1>1, WorthPart, Zenon
<1>6. Chain[d - v] <= Chain[d2 - v]
  BY <1>1, <1>2, <1>3, ChainMonotone, Zenon
<1>7. i + Period * Cardinality(S) + Worth(S, at, v) <= d + Chain[d - v]
  BY Zenon DEF Pays
<1>8. i + Period * Cardinality(T) + Worth(T, at, v) <= d2 + Chain[d2 - v]
  BY <1>2, <1>3, <1>4, <1>5, <1>6, <1>7
<1> QED  BY <1>8, Zenon DEF Pays

(* What Solvent says at the times it speaks of.                             *)
LEMMA SolventFacts ==
    ASSUME NEW d \in Int, NEW e \in Int, NEW t \in Int, NEW i \in Int,
           NEW S \in SUBSET Requests, NEW at \in [Requests -> Nat],
           Solvent(d, e, t, i, S, at)
    PROVE  /\ d <= e
           /\ \A v \in Int : t <= v \/ e <= v => Pays(d, i, S, at, v)
           /\ \A u, v \in Int : (t <= u \/ e <= u) /\ u <= v /\ From(S, at, u) # {} =>
                Pays(d, u - Burst * Period, From(S, at, u), at, v)
           /\ \A u \in Int : From(S, at, u) \in SUBSET S
<1>1. \A v \in Int : t <= v \/ e <= v <=> Least(t, e) <= v
  BY DEF Least
<1>2. \A u \in Int : From(S, at, u) \in SUBSET S
  BY Zenon DEF From
<1> QED  BY <1>1, <1>2, Zenon DEF Solvent

(* And that this is all it says.                                            *)
LEMMA SolventIntro ==
    ASSUME NEW d \in Int, NEW e \in Int, NEW t \in Int, NEW i \in Int,
           NEW S \in SUBSET Requests, NEW at \in [Requests -> Nat],
           d <= e,
           \A v \in Int : t <= v \/ e <= v => Pays(d, i, S, at, v),
           \A u, v \in Int : (t <= u \/ e <= u) /\ u <= v /\ From(S, at, u) # {} =>
             Pays(d, u - Burst * Period, From(S, at, u), at, v)
    PROVE  Solvent(d, e, t, i, S, at)
<1>1. \A v \in Int : t <= v \/ e <= v <=> Least(t, e) <= v
  BY DEF Least
<1> QED  BY <1>1, Zenon DEF Solvent

(* Time, a reservation that ends and a later drain leave a bucket solvent.  *)
LEMMA SolventPart ==
    ASSUME NEW d \in Int, NEW e \in Int, NEW t \in Int, NEW i \in Int,
           NEW S \in SUBSET Requests, NEW at \in [Requests -> Nat],
           Solvent(d, e, t, i, S, at),
           NEW d2 \in Int, d <= d2, d2 <= e,
           NEW t2 \in Int, t <= t2, NEW T \in SUBSET S
    PROVE  Solvent(d2, e, t2, i, T, at)
<1>1. T \in SUBSET Requests
  BY Zenon
<1>2. \A v \in Int : t2 <= v \/ e <= v => t <= v \/ e <= v
  OBVIOUS
<1>3. ASSUME NEW v \in Int, t2 <= v \/ e <= v
      PROVE  Pays(d2, i, T, at, v)
  <2>1. Pays(d, i, S, at, v)
    BY <1>2, <1>3, SolventFacts, Zenon
  <2> QED  BY <2>1, PaysPart, Zenon
<1>4. ASSUME NEW u \in Int, NEW v \in Int, t2 <= u \/ e <= u, u <= v, From(T, at, u) # {}
      PROVE  Pays(d2, u - Burst * Period, From(T, at, u), at, v)
  <2>1. From(T, at, u) \in SUBSET From(S, at, u) /\ From(S, at, u) # {}
    BY <1>4, Zenon DEF From
  <2>2. /\ Pays(d, u - Burst * Period, From(S, at, u), at, v)
        /\ From(S, at, u) \in SUBSET Requests
    <3>1. t <= u \/ e <= u
      BY <1>2, <1>4, Zenon
    <3>2. /\ \A w, x \in Int : (t <= w \/ e <= w) /\ w <= x /\ From(S, at, w) # {} =>
                Pays(d, w - Burst * Period, From(S, at, w), at, x)
          /\ \A w \in Int : From(S, at, w) \in SUBSET S
      BY SolventFacts, Zenon
    <3> QED  BY <1>4, <2>1, <3>1, <3>2, Zenon
  <2>3. u - Burst * Period \in Int
    BY SizeFacts
  <2> QED  BY <2>1, <2>2, <2>3, PaysPart
<1> QED  BY <1>1, <1>3, <1>4, SolventIntro, Zenon

(* Cancelling r with the last event at e: what it gives back beyond its     *)
(* token comes out of its share of the worth.                               *)
LEMMA PaysCancel ==
    ASSUME NEW S \in SUBSET Requests, NEW r \in S, NEW at \in [Requests -> Nat],
           NEW d \in Int, NEW e \in Int, NEW i \in Int, NEW v \in Int,
           d <= e, e - at[r] < Period,
           v <= e => Pays(d, i, S, at, v),
           e <= v => Pays(d, i, S, at, e)
    PROVE  Pays(d - (Period - (e - at[r])), i, S \ {r}, at, v)
<1> DEFINE T == S \ {r}
           d2 == d - (Period - (e - at[r]))
<1>1. T \in SUBSET Requests /\ Period \in Nat /\ at[r] \in Int
  BY SizeFacts
<1>2. d2 \in Int /\ d2 = d - Period + e - at[r]
  BY <1>1
<1> HIDE DEF T, d2
<1>3. /\ Period * Cardinality(T) \in Nat /\ Worth(T, at, v) \in Nat
      /\ d2 - v \in Int /\ Chain[d2 - v] \in Nat
  BY <1>1, <1>2, PaysTypes, Zenon
<1>4. Period * Cardinality(S) = Period * Cardinality(T) + Period
  BY WorthLess, Zenon DEF T
<1> DEFINE n == Period * Cardinality(T)
           w == Worth(T, at, v)
           f == Chain[d2 - v]
<1>5. CASE v <= e
  <2> DEFINE c == Chain[d - v]
             g == Surplus(at[r] - v)
  <2>1. i + Period * Cardinality(S) + Worth(S, at, v) <= d + c
    BY <1>5, Zenon DEF Pays
  <2>2. Worth(S, at, v) = w + g
    BY WorthLess, Zenon DEF T
  <2>3. c <= f + g + (e - at[r])
    BY <1>1, <1>5, ChainCancel, Zenon DEF d2
  <2>4. c \in Nat /\ g \in Nat
    <3>1. at[r] - v \in Int
      BY <1>1
    <3> QED  BY <3>1, PaysTypes, SurplusFacts, Zenon
  <2> HIDE DEF c, g, n, w, f
  <2>5. i + n + w <= d2 + f
    BY <1>1, <1>2, <1>3, <1>4, <2>1, <2>2, <2>3, <2>4, SMTT(20) DEF n, w, f
  <2> QED  BY <2>5, Zenon DEF Pays, n, w, f, T, d2
<1>6. CASE e <= v
  <2> DEFINE g == Surplus(at[r] - e)
             w2 == Worth(T, at, e)
  <2>1. i + Period * Cardinality(S) + Worth(S, at, e) <= d + Chain[d - e]
    BY <1>6, Zenon DEF Pays
  <2>2. Worth(S, at, e) = w2 + g
    BY WorthLess, Zenon DEF T
  <2>3. Chain[d - e] = 0
    BY PaysTypes, Zenon
  <2>4. g \in Nat /\ at[r] - e <= g
    <3>1. at[r] - e \in Int
      BY <1>1
    <3> QED  BY <3>1, SurplusFacts, Zenon
  <2>5. w2 \in Nat /\ w <= w2
    <3>1. T \in SUBSET T
      BY Zenon
    <3> QED  BY <1>1, <1>6, <3>1, WorthPart, WorthType, Zenon
  <2> HIDE DEF g, w2, n, w, f
  <2>6. i + n + w <= d2 + f
    BY <1>1, <1>2, <1>3, <1>4, <2>1, <2>2, <2>3, <2>4, <2>5, SMTT(20) DEF n, w, f
  <2> QED  BY <2>6, Zenon DEF Pays, n, w, f, T, d2
<1> QED  BY <1>5, <1>6

(* The same for what is left of a full bucket at u, when r acts before u:   *)
(* what was paid for at the time of r included r.                           *)
LEMMA PaysCancelEarly ==
    ASSUME NEW S \in SUBSET Requests, NEW r \in S, NEW at \in [Requests -> Nat],
           NEW d \in Int, NEW e \in Int, NEW i \in Int, NEW u \in Int, NEW v \in Int,
           d <= e, e - at[r] < Period, at[r] < u, u <= e, u <= v,
           NEW d2 \in Int, d2 = d - (Period - (e - at[r])),
           NEW j \in Int, j = i + (u - at[r]),
           NEW T \in SUBSET (S \ {r}),
           Pays(d, i, S, at, v)
    PROVE  Pays(d2, j, T, at, v)
<1> DEFINE R == S \ {r}
           c == Chain[d - v]
           n == Period * Cardinality(R)
           w == Worth(R, at, v)
           g == Surplus(at[r] - v)
           f == Chain[d2 - v]
<1>1. R \in SUBSET Requests /\ Period \in Nat /\ at[r] \in Int /\ at[r] - v \in Int
  BY SizeFacts
<1>2. d2 = d - Period + e - at[r]
  BY <1>1
<1> HIDE DEF R
<1>3. n \in Nat /\ w \in Nat /\ f \in Nat
  BY <1>1, <1>2, PaysTypes, Zenon
<1>4. c \in Nat /\ g \in Nat
  BY <1>1, PaysTypes, SurplusFacts, Zenon
<1>5. /\ Period * Cardinality(S) = n + Period
      /\ Worth(S, at, v) = w + g
  <2>1. \A q \in S : \A x \in Int :
          /\ Worth(S, at, x) = Worth(S \ {q}, at, x) + Surplus(at[q] - x)
          /\ Period * Cardinality(S) = Period * Cardinality(S \ {q}) + Period
    BY WorthLess, Zenon
  <2> QED  BY <2>1, Zenon DEF R
<1>6. i + Period * Cardinality(S) + Worth(S, at, v) <= d + c
  BY Zenon DEF Pays
<1>7. c <= e - u
  <2>1. d - v \in Int /\ e - u \in Int /\ d - v <= e - u /\ e - u <= Period /\ 0 <= e - u
    BY <1>1
  <2>2. c <= Chain[e - u] /\ Chain[e - u] = Pos(e - u)
    BY <2>1, ChainMonotone, ChainShort, Zenon
  <2>3. Pos(e - u) = e - u
    BY <2>1 DEF Pos
  <2> QED  BY <2>2, <2>3, Zenon
<1> HIDE DEF c, n, w, g, f
<1>8. j + n + w <= d2 + f
  BY <1>1, <1>2, <1>3, <1>4, <1>5, <1>6, <1>7, SMTT(20)
<1>9. Pays(d2, j, R, at, v)
  BY <1>8, Zenon DEF Pays, n, w, f
<1>10. T \in SUBSET R /\ d2 <= d2
  BY DEF R
<1> QED  BY <1>1, <1>9, <1>10, PaysPart, SMTT(20)

(* And when u is after the last event.                                      *)
LEMMA PaysCancelLate ==
    ASSUME NEW S \in SUBSET Requests, NEW r \in S, NEW at \in [Requests -> Nat],
           NEW d \in Int, NEW e \in Int, NEW i \in Int, NEW u \in Int, NEW v \in Int,
           d <= e, e < u, u <= v,
           NEW d2 \in Int, d2 = d - (Period - (e - at[r])),
           NEW j \in Int, j = i + (u - Least(at[r], e)),
           NEW T \in SUBSET (S \ {r}), T # {}, \A q \in T : at[q] >= u,
           Pays(d, i, S, at, e)
    PROVE  Pays(d2, j, T, at, v)
<1> DEFINE R == S \ {r}
           m == Least(at[r], e)
           k == Period * Cardinality(R)
           n == Period * Cardinality(T)
           y == Worth(R, at, e)
           x == Worth(T, at, e)
           w == Worth(T, at, v)
           g == Surplus(at[r] - e)
           f == Chain[d2 - v]
<1>1. /\ R \in SUBSET Requests /\ T \in SUBSET R /\ T \in SUBSET Requests
      /\ Period \in Nat /\ at[r] \in Int /\ at[r] - e \in Int /\ e <= e
  BY SizeFacts
<1>2. d2 = d - Period + e - at[r]
  BY <1>1
<1> HIDE DEF R
<1>3. n \in Nat /\ w \in Nat /\ f \in Nat /\ k \in Nat /\ y \in Nat /\ x \in Nat
  BY <1>1, <1>2, PaysTypes, Zenon
<1>4. g \in Nat /\ at[r] - e <= g
  BY <1>1, SurplusFacts, Zenon
<1>5. /\ Period * Cardinality(S) = k + Period
      /\ Worth(S, at, e) = y + g
  BY WorthLess, ZenonT(40) DEF R
<1>6. i + Period * Cardinality(S) + Worth(S, at, e) <= d + Chain[d - e]
  BY Zenon DEF Pays
<1>7. Chain[d - e] = 0
  BY PaysTypes, Zenon
<1>8. n <= k
  BY <1>1, CostFacts, Zenon
<1>9. x <= y
  BY <1>1, WorthPart, Zenon
<1>10. w + (u - e) <= x
  BY <1>1, WorthGap
<1>11. m \in Int /\ at[r] <= m + g /\ j = i + (u - m)
  BY <1>1, <1>4 DEF Least
<1> HIDE DEF m, k, n, y, x, w, g, f
<1>12. j + n + w <= d2 + f
  BY <1>1, <1>2, <1>3, <1>4, <1>5, <1>6, <1>7, <1>8, <1>9, <1>10, <1>11
<1> QED  BY <1>12, Zenon DEF Pays, n, w, f

(* Cancel leaves a bucket solvent, with the last event where it was or, for *)
(* the last reservation, a token earlier.                                   *)
LEMMA SolventCancel ==
    ASSUME NEW d \in Int, NEW e \in Int, NEW t \in Int, NEW i \in Int,
           NEW S \in SUBSET Requests, NEW at \in [Requests -> Nat],
           Solvent(d, e, t, i, S, at),
           NEW r \in S, t <= at[r], e - at[r] < Period, NEW e2 \in Int,
           e2 = e \/ (at[r] = e /\ e2 = e - Period /\ t <= e2),
           NEW d2 \in Int, d2 = d - (Period - (e - at[r]))
    PROVE  Solvent(d2, e2, t, i, S \ {r}, at)
<1> DEFINE T == S \ {r}
           z == Burst * Period
<1>1. /\ T \in SUBSET Requests /\ Period \in Nat /\ at[r] \in Int /\ z \in Nat
      /\ S \ {r} = T
  BY SizeFacts
<1>2. /\ d <= e
      /\ \A v \in Int : t <= v \/ e <= v => Pays(d, i, S, at, v)
      /\ \A u, v \in Int : (t <= u \/ e <= u) /\ u <= v /\ From(S, at, u) # {} =>
           Pays(d, u - z, From(S, at, u), at, v)
      /\ \A u \in Int : From(S, at, u) \in SUBSET S
  BY SolventFacts, Zenon
<1>3. d2 <= e2
  BY <1>1, <1>2
<1>4. \A v \in Int : t <= v \/ e2 <= v => t <= v \/ e <= v
  BY <1>1
<1> HIDE DEF T, z
<1>5. ASSUME NEW v \in Int, t <= v \/ e2 <= v
      PROVE  Pays(d2, i, T, at, v)
  <2>1. t <= e \/ e <= e
    OBVIOUS
  <2>2. Pays(d, i, S, at, v) /\ Pays(d, i, S, at, e)
    BY <1>2, <1>4, <1>5, <2>1, Zenon
  <2> QED  BY <1>2, <2>2, PaysCancel, Zenon DEF T
<1>6. ASSUME NEW u \in Int, NEW v \in Int, t <= u \/ e2 <= u, u <= v, From(T, at, u) # {}
      PROVE  Pays(d2, u - z, From(T, at, u), at, v)
  <2> DEFINE Q == From(T, at, u)
  <2>1. t <= u \/ e <= u
    BY <1>4, <1>6, Zenon
  <2>2. u - z \in Int /\ e <= e
    BY <1>1
  <2>3. CASE u <= e /\ u <= at[r]
    <3> DEFINE A == From(S, at, u)
    <3>1. A \in SUBSET Requests /\ r \in A /\ Q = A \ {r} /\ A # {}
      BY <2>3, Zenon DEF From, T
    <3>2. Pays(d, u - z, A, at, v) /\ Pays(d, u - z, A, at, e)
      BY <1>2, <1>6, <2>1, <2>3, <3>1, Zenon
    <3> HIDE DEF A, Q
    <3>3. Pays(d2, u - z, A \ {r}, at, v)
      BY <1>2, <2>2, <3>1, <3>2, PaysCancel, Zenon
    <3> QED  BY <3>1, <3>3, Zenon DEF Q
  <2>4. CASE u <= e /\ at[r] < u
    <3> DEFINE A == From(S, at, at[r])
    <3>1. A \in SUBSET Requests /\ r \in A /\ Q \in SUBSET (A \ {r}) /\ A # {}
      <4>1. at[r] >= at[r] /\ \A q \in S : at[q] >= u => at[q] >= at[r]
        BY <1>1, <2>4
      <4> QED  BY <4>1, Zenon DEF From, T
    <3>2. at[r] <= v
      BY <1>1, <1>6, <2>4
    <3>3. Pays(d, at[r] - z, A, at, v)
      BY <1>1, <1>2, <3>1, <3>2, Zenon
    <3> HIDE DEF A, Q
    <3>4. Pays(d2, u - z, Q, at, v)
      <4>1. d <= e /\ at[r] < u /\ u <= e /\ u <= v /\ z \in Int
        BY <1>1, <1>2, <1>6, <2>4, SMTT(20)
      <4>2. /\ at[r] - z \in Int /\ u - z = (at[r] - z) + (u - at[r])
            /\ d2 = d - (Period - (e - at[r]))
        BY <1>1
      <4> QED  BY <1>1, <1>3, <2>2, <3>1, <3>3, <4>1, <4>2, PaysCancelEarly, SMTT(20)
    <3> QED  BY <3>4, Zenon DEF Q
  <2>5. CASE e < u
    <3> DEFINE m == Least(at[r], e)
               A == From(S, at, m)
    <3>1. m \in Int /\ m <= at[r] /\ m <= e /\ (t <= m \/ e <= m)
      BY <1>1 DEF Least
    <3> HIDE DEF m
    <3>2. A \in SUBSET Requests /\ r \in A /\ Q \in SUBSET (A \ {r}) /\ A # {}
      <4>1. at[r] >= m /\ \A q \in S : at[q] >= u => at[q] >= m
        BY <1>1, <2>5, <3>1
      <4> QED  BY <4>1, Zenon DEF From, T
    <3>3. Pays(d, m - z, A, at, e)
      BY <1>2, <3>1, <3>2, Zenon
    <3>4. \A q \in Q : at[q] >= u
      BY Zenon DEF From
    <3>5. Q # {}
      BY <1>6, Zenon
    <3> HIDE DEF A, Q
    <3>6. Pays(d2, u - z, Q, at, v)
      <4>1. d <= e /\ e < u /\ u <= v /\ z \in Int
        BY <1>1, <1>2, <1>6, <2>5, SMTT(20)
      <4>2. /\ m - z \in Int /\ u - z = (m - z) + (u - Least(at[r], e))
            /\ d2 = d - (Period - (e - at[r]))
        BY <1>1, <3>1 DEF m
      <4> QED  BY <1>3, <2>2, <3>2, <3>3, <3>4, <3>5, <4>1, <4>2, PaysCancelLate, SMTT(20)
    <3> QED  BY <3>6, Zenon DEF Q
  <2>6. (u <= e /\ u <= at[r]) \/ (u <= e /\ at[r] < u) \/ e < u
    BY <1>1
  <2> QED  BY <2>3, <2>4, <2>5, <2>6, Zenon
<1>7. Solvent(d2, e2, t, i, T, at)
  BY <1>1, <1>3, <1>5, <1>6, SolventIntro, Zenon DEF z
<1> QED  BY <1>7, Zenon DEF T

(* A reservation pays for itself: it ends the chain, and its share is what  *)
(* the chain has grown by.                                                  *)
LEMMA PaysAdd ==
    ASSUME NEW S \in SUBSET Requests, NEW r \in Requests \ S,
           NEW at \in [Requests -> Nat], NEW x \in Nat, NEW at2 \in [Requests -> Nat],
           at2[r] = x, \A q \in S : at2[q] = at[q],
           NEW d \in Int, NEW i \in Int, NEW t \in Int, NEW v \in Int, t <= v,
           x = d + Period \/ (x = t /\ d + Period <= t),
           Pays(d, i, S, at, v)
    PROVE  Pays(d + Period, i, S \cup {r}, at2, v)
<1> DEFINE d2 == d + Period
           n == Period * Cardinality(S)
           w == Worth(S, at, v)
           g == Surplus(x - v)
           c == Chain[d - v]
           f == Chain[d2 - v]
<1>1. /\ Period \in Nat /\ d2 \in Int /\ d2 = d + Period /\ x - v \in Int
      /\ (d2 - v) - Period = d - v /\ d - v <= d2 - v
  BY SizeFacts
<1> HIDE DEF d2
<1>2. n \in Nat /\ w \in Nat /\ c \in Nat /\ f \in Nat /\ d - v \in Int /\ d2 - v \in Int
  BY <1>1, PaysTypes, Zenon
<1>3. i + n + w <= d + c
  BY Zenon DEF Pays
<1>4. Period * Cardinality(S \cup {r}) = n + Period
  BY CostFacts, Zenon
<1>5. Worth(S \cup {r}, at2, v) = w + g
  <2>1. Worth(S, at2, v) = w
    BY WorthSame, Zenon
  <2>2. Worth(S \cup {r}, at2, v) = Worth(S, at2, v) + Surplus(at2[r] - v)
    BY WorthAdd, Zenon
  <2> QED  BY <2>1, <2>2, Zenon
<1>6. g \in Nat /\ (x - v <= 0 => g = 0)
  BY <1>1, SurplusFacts, Zenon
<1>7. c <= f
  BY <1>1, <1>2, ChainMonotone, Zenon
<1>8. x = d2 => g = f - c
  BY <1>1, Zenon DEF Surplus
<1>9. c + g <= f
  <2>1. x = d2 \/ x - v <= 0
    BY <1>1
  <2> HIDE DEF g, c, f
  <2> QED  BY <1>2, <1>6, <1>7, <1>8, <2>1, SMTT(20)
<1> HIDE DEF n, w, g, c, f
<1>10. i + (n + Period) + (w + g) <= d2 + f
  BY <1>1, <1>2, <1>3, <1>6, <1>9
<1> QED  BY <1>4, <1>5, <1>10, Zenon DEF Pays, f, d2

(* No reservations are worth nothing.                                       *)
LEMMA PaysNone ==
    ASSUME NEW at \in [Requests -> Nat], NEW d \in Int, NEW i \in Int, NEW v \in Int, i <= d
    PROVE  Pays(d, i, {}, at, v)
<1>1. Worth({}, at, v) = 0
  <2>1. UNION {{r} \X (1..Surplus(at[r] - v)) : r \in {}} = {}
    BY Zenon
  <2>2. Worth({}, at, v) = Cardinality({})
    BY <2>1, Zenon DEF Worth
  <2> QED  BY <2>2, FS_EmptySet, Zenon
<1>2. Period * Cardinality({}) = 0
  BY SizeFacts, FS_EmptySet
<1>3. Chain[d - v] \in Nat
  <2>1. d - v \in Int
    OBVIOUS
  <2> QED  BY <2>1, ChainStep, Zenon
<1>4. i + 0 + 0 <= d + Chain[d - v]
  BY <1>3
<1> QED  BY <1>1, <1>2, <1>4, Zenon DEF Pays

(* Reserve leaves a bucket solvent that is drained at d when it is charged. *)
LEMMA SolventReserve ==
    ASSUME NEW d0 \in Int, NEW e \in Int, NEW t \in Int, NEW i \in Int,
           NEW S \in SUBSET Requests, NEW at \in [Requests -> Nat],
           Solvent(d0, e, t, i, S, at),
           NEW d \in Int, d0 <= d, t - Burst * Period <= d,
           NEW r \in Requests \ S, NEW x \in Nat, NEW at2 \in [Requests -> Nat],
           at2[r] = x, \A q \in S : at2[q] = at[q],
           t <= x, x = d + Period \/ (x = t /\ d + Period <= t)
    PROVE  Solvent(d + Period, x, t, i, S \cup {r}, at2)
<1> DEFINE T == S \cup {r}
           d2 == d + Period
           z == Burst * Period
<1>1. /\ T \in SUBSET Requests /\ Period \in Nat /\ z \in Nat /\ Period <= z
      /\ t - z <= d /\ x \in Int
  BY SizeFacts
<1>2. d2 \in Int /\ d2 <= x /\ d <= d2
  BY <1>1
<1>3. /\ \A v \in Int : t <= v \/ e <= v => Pays(d0, i, S, at, v)
      /\ \A u, v \in Int : (t <= u \/ e <= u) /\ u <= v /\ From(S, at, u) # {} =>
           Pays(d0, u - z, From(S, at, u), at, v)
      /\ \A u \in Int : From(S, at, u) \in SUBSET S
  BY SolventFacts, ZenonT(40)
<1>4. \A v \in Int : t <= v \/ x <= v => t <= v
  BY <1>1
<1> HIDE DEF T, d2, z
<1>5. ASSUME NEW A \in SUBSET S, NEW y \in Int, NEW v \in Int, t <= v, Pays(d, y, A, at, v)
      PROVE  Pays(d2, y, A \cup {r}, at2, v)
  <2>1. A \in SUBSET Requests /\ r \in Requests \ A /\ \A q \in A : at2[q] = at[q]
    BY Zenon
  <2> QED  BY <1>5, <2>1, PaysAdd, SMTT(20) DEF d2
<1>6. ASSUME NEW v \in Int, t <= v \/ x <= v
      PROVE  Pays(d2, i, T, at2, v)
  <2>1. t <= v
    BY <1>4, <1>6, Zenon
  <2>2. Pays(d0, i, S, at, v)
    BY <1>3, <2>1, Zenon
  <2>3. Pays(d, i, S, at, v)
    <3>1. S \in SUBSET S
      BY Zenon
    <3> QED  BY <2>2, <3>1, PaysPart, Zenon
  <2> QED  BY <1>5, <2>1, <2>3, Zenon DEF T
<1>7. ASSUME NEW u \in Int, NEW v \in Int, t <= u \/ x <= u, u <= v, From(T, at2, u) # {}
      PROVE  Pays(d2, u - z, From(T, at2, u), at2, v)
  <2> DEFINE A == From(S, at, u)
             Q == From(T, at2, u)
  <2>1. t <= u /\ t <= v /\ u - z \in Int
    <3>1. t <= u
      BY <1>4, <1>7, Zenon
    <3> QED  BY <1>1, <1>7, <3>1
  <2>2. A \in SUBSET S /\ A \in SUBSET Requests
    BY <1>3, Zenon
  <2>3. A # {} => Pays(d0, u - z, A, at, v)
    BY <1>3, <1>7, <2>1, Zenon
  <2>4. u <= x => Q = A \cup {r}
    BY Zenon DEF From, T
  <2>5. ~(u <= x) => Q = A
    BY Zenon DEF From, T
  <2>6. Q # {}
    BY <1>7, Zenon
  <2> HIDE DEF A, Q
  <2>7. A \in SUBSET A /\ d <= d /\ r \in Requests \ A /\ \A q \in A : at2[q] = at[q]
    BY <2>2
  <2>8. A # {} => Pays(d, u - z, A, at, v)
    BY <2>1, <2>2, <2>3, <2>7, PaysPart, Zenon
  <2>9. CASE u <= x
    <3>1. u - z <= d
      BY <1>1, <2>9
    <3>2. A = {} => Pays(d, u - z, A, at, v)
      BY <2>1, <3>1, PaysNone, Zenon
    <3>3. Pays(d, u - z, A, at, v)
      BY <2>8, <3>2, Zenon
    <3>4. Pays(d2, u - z, A \cup {r}, at2, v)
      BY <1>5, <2>1, <2>2, <3>3, Zenon
    <3> QED  BY <2>4, <2>9, <3>4, Zenon DEF Q
  <2>10. CASE ~(u <= x)
    <3>1. A # {} /\ Q = A
      BY <2>5, <2>6, <2>10, Zenon
    <3>2. Pays(d2, u - z, A, at, v)
      BY <1>2, <2>1, <2>2, <2>7, <2>8, <3>1, PaysPart, Zenon
    <3>3. Worth(A, at2, v) = Worth(A, at, v)
      BY <2>7, WorthSame, ZenonT(40)
    <3>4. Pays(d2, u - z, A, at2, v)
      BY <3>2, <3>3, Zenon DEF Pays
    <3> QED  BY <3>1, <3>4, Zenon DEF Q
  <2> QED  BY <2>9, <2>10, Zenon
<1>8. Solvent(d2, x, t, i, T, at2)
  BY <1>1, <1>2, <1>6, <1>7, SolventIntro, Zenon DEF z
<1> QED  BY <1>8, Zenon DEF d2, T

(* Admit leaves a bucket solvent that is drained at d when it is charged,   *)
(* and the ideal one at j: both have a token then, and only a full ideal    *)
(* bucket forgets what it was owed.                                         *)
LEMMA SolventAdmit ==
    ASSUME NEW d0 \in Int, NEW e \in Int, NEW t \in Int, NEW i \in Int,
           NEW S \in SUBSET Requests, NEW at \in [Requests -> Nat],
           Solvent(d0, e, t, i, S, at), \A q \in S : at[q] >= t,
           NEW d \in Int, d0 <= d, t - Burst * Period <= d, d + Period <= t,
           NEW j \in Int, j = i \/ j = t - Burst * Period
    PROVE  Solvent(d + Period, t, t, j + Period, S, at)
<1> DEFINE d2 == d + Period
           j2 == j + Period
           z == Burst * Period
<1>1. Period \in Nat /\ z \in Nat /\ t - z <= d /\ t - z \in Int
  BY SizeFacts
<1>2. d2 \in Int /\ d2 <= t /\ d <= d2 /\ d0 <= d2 /\ j2 \in Int
  BY <1>1
<1>3. /\ \A v \in Int : t <= v \/ e <= v => Pays(d0, i, S, at, v)
      /\ \A u, v \in Int : (t <= u \/ e <= u) /\ u <= v /\ From(S, at, u) # {} =>
           Pays(d0, u - z, From(S, at, u), at, v)
      /\ \A u \in Int : From(S, at, u) \in SUBSET S
  BY SolventFacts, Zenon
<1>4. S \in SUBSET S /\ From(S, at, t) = S /\ t <= t
  BY DEF From
<1> HIDE DEF d2, j2, z
<1>5. ASSUME NEW v \in Int, t <= v
      PROVE  Pays(d2, j2, S, at, v)
  <2>1. Pays(d, j, S, at, v)
    <3>1. CASE j = i
      <4>1. Pays(d0, j, S, at, v)
        BY <1>3, <1>5, <3>1, Zenon
      <4> QED  BY <1>4, <4>1, PaysPart, Zenon
    <3>2. CASE j # i /\ S = {}
      <4>1. j <= d
        BY <1>1, <3>2, Zenon DEF z
      <4> QED  BY <3>2, <4>1, PaysNone, Zenon
    <3>3. CASE j # i /\ S # {}
      <4>1. j = t - z
        BY <3>3, Zenon DEF z
      <4>2. Pays(d0, j, S, at, v)
        BY <1>3, <1>4, <1>5, <3>3, <4>1, Zenon
      <4> QED  BY <1>4, <4>2, PaysPart, Zenon
    <3> QED  BY <3>1, <3>2, <3>3, Zenon
  <2>2. j + Period * Cardinality(S) + Worth(S, at, v) <= d + Chain[d - v]
    BY <2>1, Zenon DEF Pays
  <2>3. /\ Period * Cardinality(S) \in Nat /\ Worth(S, at, v) \in Nat
        /\ d - v \in Int /\ Chain[d - v] \in Nat
    BY PaysTypes, Zenon
  <2>4. d2 - v \in Int /\ Chain[d2 - v] \in Nat
    BY <1>2, PaysTypes, Zenon
  <2>5. d - v <= d2 - v
    BY <1>2
  <2>6. Chain[d - v] <= Chain[d2 - v]
    BY <2>3, <2>4, <2>5, ChainMonotone, Zenon
  <2> DEFINE n == Period * Cardinality(S)
  <2> HIDE DEF n
  <2>7. j2 + n + Worth(S, at, v) <= d2 + Chain[d2 - v]
    BY <1>1, <2>2, <2>3, <2>4, <2>6 DEF d2, j2, n
  <2> QED  BY <2>7, Zenon DEF Pays, n
<1>6. ASSUME NEW u \in Int, NEW v \in Int, t <= u, u <= v, From(S, at, u) # {}
      PROVE  Pays(d2, u - z, From(S, at, u), at, v)
  <2> DEFINE A == From(S, at, u)
  <2>1. A \in SUBSET Requests /\ A \in SUBSET A /\ Pays(d0, u - z, A, at, v)
    BY <1>3, <1>6, Zenon
  <2>2. u - z \in Int
    BY <1>1
  <2> HIDE DEF A
  <2>3. Pays(d2, u - z, A, at, v)
    BY <1>2, <2>1, <2>2, PaysPart, Zenon
  <2> QED  BY <2>3, Zenon DEF A
<1>7. Solvent(d2, t, t, j2, S, at)
  BY <1>2, <1>5, <1>6, SolventIntro, Zenon DEF z
<1> QED  BY <1>7, Zenon DEF d2, j2

(* A solvent bucket is never ahead of the ideal one.                        *)
LEMMA SolventOrder ==
    ASSUME NEW d \in Int, NEW e \in Int, NEW t \in Int, NEW i \in Int,
           NEW S \in SUBSET Requests, NEW at \in [Requests -> Nat],
           Solvent(d, e, t, i, S, at)
    PROVE  i <= d
<1>1. d <= e /\ Pays(d, i, S, at, e)
  <2>1. d <= e /\ \A v \in Int : t <= v \/ e <= v => Pays(d, i, S, at, v)
    BY SolventFacts, Zenon
  <2>2. e <= e
    OBVIOUS
  <2> QED  BY <2>1, <2>2, Zenon
<1>2. i + Period * Cardinality(S) + Worth(S, at, e) <= d + Chain[d - e]
  BY <1>1, Zenon DEF Pays
<1>3. Period * Cardinality(S) \in Nat /\ Worth(S, at, e) \in Nat /\ Chain[d - e] = 0
  BY <1>1, PaysTypes, Zenon
<1> QED  BY <1>2, <1>3

(* A bucket with a reservation that stands is not full.                     *)
LEMMA SolventUncapped ==
    ASSUME NEW d \in Int, NEW e \in Int, NEW t \in Int, NEW i \in Int,
           NEW S \in SUBSET Requests, NEW at \in [Requests -> Nat],
           Solvent(d, e, t, i, S, at), NEW r \in S, t <= at[r]
    PROVE  t - Burst * Period <= d
<1> DEFINE z == Burst * Period
           A == From(S, at, t)
<1>1. z \in Nat /\ t <= t /\ at[r] >= t
  BY SizeFacts
<1>2. A # {}
  BY <1>1, Zenon DEF From
<1>3. Pays(d, t - z, A, at, t) /\ A \in SUBSET Requests
  <2>1. /\ \A u, v \in Int : (t <= u \/ e <= u) /\ u <= v /\ From(S, at, u) # {} =>
             Pays(d, u - z, From(S, at, u), at, v)
        /\ \A u \in Int : From(S, at, u) \in SUBSET S
    BY SolventFacts, Zenon
  <2> QED  BY <1>1, <1>2, <2>1, Zenon
<1> HIDE DEF A, z
<1>4. /\ Period * Cardinality(A) \in Nat /\ Worth(A, at, t) \in Nat
      /\ d <= t => Chain[d - t] = 0
  BY <1>3, PaysTypes, Zenon
<1>5. (t - z) + Period * Cardinality(A) + Worth(A, at, t) <= d + Chain[d - t]
  BY <1>3, Zenon DEF Pays
<1>6. t - z <= d
  BY <1>1, <1>4, <1>5
<1> QED  BY <1>6, Zenon DEF z

(* Nothing else matters of the times to act than those of the reservations. *)
LEMMA SolventSame ==
    ASSUME NEW d, NEW e, NEW t, NEW i, NEW S, NEW at, NEW at2,
           \A q \in S : at2[q] = at[q],
           Solvent(d, e, t, i, S, at)
    PROVE  Solvent(d, e, t, i, S, at2)
<1>1. \A v : Pays(d, i, S, at, v) => Pays(d, i, S, at2, v)
  BY WorthSame, Zenon DEF Pays
<1>2. ASSUME NEW u
      PROVE  From(S, at2, u) = From(S, at, u)
  BY Zenon DEF From
<1>3. ASSUME NEW u, NEW v, Pays(d, u - Burst * Period, From(S, at, u), at, v)
      PROVE  Pays(d, u - Burst * Period, From(S, at, u), at2, v)
  <2>1. \A q \in From(S, at, u) : at2[q] = at[q]
    BY Zenon DEF From
  <2>2. Worth(From(S, at, u), at2, v) = Worth(From(S, at, u), at, v)
    BY <2>1, WorthSame, Zenon
  <2> QED  BY <1>3, <2>2, Zenon DEF Pays
<1> QED  BY <1>1, <1>2, <1>3, Zenon DEF Solvent

\* What the steps below need to know of a state.
LEMMA StateFacts ==
    ASSUME TypeOK, LimiterInv, UsageInv
    PROVE  /\ now \in Nat /\ act \in [Requests -> Nat]
           /\ \A q \in Requests : bucket[q] \in Buckets /\ bucket[q].last <= now
           /\ \A s \in Segments : ideal[s] \in Buckets /\ ideal[s].last <= now
           /\ \A q \in Requests : Drained(bucket[q]) \in Int
           /\ \A s \in Segments : Drained(ideal[s]) \in Int
           /\ \A s \in Segments : Standing(s) \in SUBSET Requests
           /\ \A q \in Requests : pc[q] \in {"allow", "denied", "reserved"} =>
                /\ lim[q] \in Requests /\ segment[q] \in Segments
                /\ limiters[segment[q]] = lim[q] /\ lim[q] # None
           /\ \A s \in Segments : limiters[s] # None => limiters[s] \in Requests
           /\ \A s, u \in Segments : limiters[s] = limiters[u] /\ limiters[s] # None => s = u
<1>1. now \in Nat /\ act \in [Requests -> Nat]
  BY RateLimitAssumption DEF TypeOK
<1>2. /\ \A q \in Requests : bucket[q] \in Buckets /\ bucket[q].last <= now
      /\ \A s \in Segments : ideal[s] \in Buckets /\ ideal[s].last <= now
  BY Zenon DEF TypeOK, UsageInv, Buckets
<1>3. /\ \A q \in Requests : Drained(bucket[q]) \in Int
      /\ \A s \in Segments : Drained(ideal[s]) \in Int
  BY <1>1, <1>2, DrainFacts, Zenon
<1>4. \A s \in Segments : Standing(s) \in SUBSET Requests
  BY Zenon DEF Standing
<1>5. ASSUME NEW q \in Requests, pc[q] \in {"allow", "denied", "reserved"}
      PROVE  /\ lim[q] \in Requests /\ segment[q] \in Segments
             /\ limiters[segment[q]] = lim[q] /\ lim[q] # None
  BY <1>5, RateLimitAssumption, SMTT(20) DEF TypeOK, LimiterInv
<1>6. /\ \A s \in Segments : limiters[s] # None => limiters[s] \in Requests
      /\ \A s, u \in Segments : limiters[s] = limiters[u] /\ limiters[s] # None => s = u
  BY RateLimitAssumption DEF TypeOK, LimiterInv
<1> QED  BY <1>1, <1>2, <1>3, <1>4, <1>5, <1>6, Zenon

(* Only Reserve adds to what stands, for the provider of the request.       *)
LEMMA StandingReserve ==
    ASSUME TypeOK, LimiterInv, UsageInv, NEW r \in Requests, Reserve(r)
    PROVE  /\ \A s \in Segments : r \notin Standing(s)
           /\ \A s \in Segments : s = segment[r] => Standing(s)' = Standing(s) \cup {r}
           /\ \A s \in Segments : s # segment[r] => Standing(s)' = Standing(s)
<1> DEFINE b == bucket[lim[r]]
           x == TimeToAct(b, now)
           at2 == [act EXCEPT ![r] = x]
<1>1. /\ pc[r] = "denied" /\ pc' = [pc EXCEPT ![r] = "reserved"] /\ act' = at2
      /\ UNCHANGED <<now, segment>>
  BY Zenon DEF Reserve, Goto
<1>2. now <= x
  <2>1. now \in Nat /\ Credit(b, now) \in Int
    BY <1>1, StateFacts, BucketTypes, Zenon
  <2> HIDE DEF b
  <2> QED  BY <2>1, SizeFacts DEF TimeToAct
<1>3. /\ pc'[r] = "reserved" /\ at2[r] = x
      /\ \A q \in Requests : q # r => pc'[q] = pc[q] /\ at2[q] = act[q]
  BY <1>1, Zenon DEF TypeOK
<1>4. \A s \in Segments : r \notin Standing(s)
  BY <1>1, Zenon DEF Standing
<1>5. ASSUME NEW s \in Segments
      PROVE  Standing(s)' =
               {q \in Requests : pc'[q] = "reserved" /\ segment[q] = s /\ now <= at2[q]}
  BY <1>1, Zenon DEF Standing
<1> HIDE DEF x, at2
<1>6. ASSUME NEW s \in Segments, NEW q \in Requests, q # r
      PROVE  q \in Standing(s)' <=> q \in Standing(s)
  <2>1. q \in Standing(s) <=> pc[q] = "reserved" /\ segment[q] = s /\ now <= act[q]
    BY Zenon DEF Standing
  <2>2. q \in Standing(s)' <=> pc'[q] = "reserved" /\ segment[q] = s /\ now <= at2[q]
    BY <1>5, Zenon
  <2> QED  BY <1>3, <1>6, <2>1, <2>2, Zenon
<1>7. \A s \in Segments : r \in Standing(s)' <=> s = segment[r]
  BY <1>2, <1>3, <1>5, Zenon
<1>8. \A s \in Segments : Standing(s) \subseteq Requests /\ Standing(s)' \subseteq Requests
  BY <1>5, StateFacts, ZenonT(40)
<1>9. \A s \in Segments : s # segment[r] => Standing(s)' = Standing(s)
  BY <1>4, <1>6, <1>7, <1>8
<1>10. \A s \in Segments : s = segment[r] => Standing(s)' = Standing(s) \cup {r}
  BY <1>6, <1>7, <1>8, Zenon
<1> QED  BY <1>4, <1>9, <1>10, Zenon

(* After the response a reservation stands no more.                         *)
LEMMA StandingRespond ==
    ASSUME TypeOK, NEW r \in Requests, Respond(r)
    PROVE  \A s \in Segments : Standing(s)' = Standing(s) \ {r}
<1>1. pc' = [pc EXCEPT ![r] = "429"] /\ UNCHANGED <<now, segment, act>>
  BY Zenon DEF Respond, Goto
<1>2. pc'[r] # "reserved" /\ \A q \in Requests : q # r => pc'[q] = pc[q]
  BY <1>1, Zenon DEF TypeOK
<1>3. ASSUME NEW s \in Segments
      PROVE  Standing(s)' =
               {q \in Requests : pc'[q] = "reserved" /\ segment[q] = s /\ now <= act[q]}
  BY <1>1, Zenon DEF Standing
<1>4. ASSUME NEW s \in Segments
      PROVE  {q \in Requests : pc'[q] = "reserved" /\ segment[q] = s /\ now <= act[q]}
             = Standing(s) \ {r}
  BY <1>2, Zenon DEF Standing
<1> QED  BY <1>3, <1>4, Zenon

(* The limiter in the map is solvent, and of the right type.                *)
LEMMA BackedFacts ==
    ASSUME TypeOK, LimiterInv, UsageInv, Backed
    PROVE  \A s \in Segments : limiters[s] # None =>
             LET b == bucket[limiters[s]]
             IN  /\ Solvent(Drained(b), b.event, now, Drained(ideal[s]), Standing(s), act)
                 /\ b \in Buckets /\ b.last <= now /\ b.event \in Int /\ Drained(b) \in Int
                 /\ \A q \in Standing(s) : now <= act[q]
<1> SUFFICES ASSUME NEW s \in Segments, limiters[s] # None
             PROVE  LET b == bucket[limiters[s]]
                    IN  /\ Solvent(Drained(b), b.event, now, Drained(ideal[s]), Standing(s), act)
                        /\ b \in Buckets /\ b.last <= now /\ b.event \in Int
                        /\ Drained(b) \in Int
                        /\ \A q \in Standing(s) : now <= act[q]
  BY Zenon
<1> DEFINE b == bucket[limiters[s]]
<1>1. b \in Buckets /\ b.last <= now /\ Drained(b) \in Int
  BY StateFacts, Zenon
<1>2. b.event \in Int
  <2> HIDE DEF b
  <2> QED  BY <1>1 DEF Buckets
<1>3. Solvent(Drained(b), b.event, now, Drained(ideal[s]), Standing(s), act)
  BY Zenon DEF Backed
<1>4. \A q \in Standing(s) : now <= act[q]
  BY Zenon DEF Standing
<1> QED  BY <1>1, <1>2, <1>3, <1>4, Zenon

(* A step that leaves the limiters alone leaves them backed, also when time *)
(* passes and reservations expire.                                          *)
LEMMA BackedIdle ==
    ASSUME TypeOK, LimiterInv, UsageInv, Backed, RateRespected,
           UNCHANGED <<limiters, bucket, act, ideal>>, now' \in Int, now <= now',
           \A s \in Segments : Standing(s)' \in SUBSET Standing(s)
    PROVE  (Backed /\ RateRespected)'
<1>1. RateRespected'
  BY Zenon DEF RateRespected
<1>2. ASSUME NEW s \in Segments, limiters[s] # None
      PROVE  LET b == bucket[limiters[s]]
             IN  Solvent(Drained(b), b.event, now', Drained(ideal[s]), Standing(s)', act)
  <2> DEFINE b == bucket[limiters[s]]
             d == Drained(b)
             e == b.event
             i == Drained(ideal[s])
             S == Standing(s)
             T == Standing(s)'
  <2>1. Solvent(d, e, now, i, S, act) /\ e \in Int /\ d \in Int
    BY <1>2, BackedFacts, Zenon
  <2>2. i \in Int /\ S \in SUBSET Requests /\ act \in [Requests -> Nat] /\ now \in Int
    <3>1. now \in Nat
      BY StateFacts, Zenon
    <3> QED  BY <3>1, StateFacts
  <2>3. T \in SUBSET S
    BY Zenon
  <2> HIDE DEF b, d, e, i, S, T
  <2>4. d <= d /\ d <= e
    <3>1. d <= e
      BY <2>1, <2>2, SolventFacts, Zenon
    <3> QED  BY <2>1, <3>1
  <2>5. Solvent(d, e, now', i, T, act)
    BY <2>1, <2>2, <2>3, <2>4, SolventPart, Zenon
  <2> QED  BY <2>5, Zenon DEF b, d, e, i, T
<1> QED  BY <1>1, <1>2, Zenon DEF Backed

(* A new limiter is as full as its provider's admissions left one.          *)
LEMMA BackedNew ==
    ASSUME TypeOK, LimiterInv, UsageInv, Backed, RateRespected,
           NEW r \in Requests, LoadOrStore(r)
    PROVE  (Backed /\ RateRespected)'
<1>1. UNCHANGED <<now, segment, bucket, act, ideal>> /\ pc' = [pc EXCEPT ![r] = "allow"]
  BY Zenon DEF LoadOrStore, Goto
<1>2. \A s \in Segments : Standing(s)' = Standing(s)
  <2>1. \A q \in Requests : pc'[q] = "reserved" <=> pc[q] = "reserved"
    BY <1>1, Zenon DEF LoadOrStore, TypeOK
  <2> QED  BY <1>1, <2>1, Zenon DEF Standing
<1>3. RateRespected'
  BY <1>1, Zenon DEF RateRespected
<1>4. Solvent(Drained(Full), Full.event, now, Drained(Full), {}, act)
  <2> DEFINE d == Drained(Full)
  <2>1. d \in Int /\ d <= 0 /\ Full.event = 0 /\ d <= d /\ 0 \in Int /\ {} \in SUBSET Requests
    BY SizeFacts, SMTT(20) DEF Drained, Full
  <2>2. now \in Int /\ act \in [Requests -> Nat]
    BY StateFacts
  <2> HIDE DEF d
  <2>3. \A v \in Int : now <= v \/ 0 <= v => Pays(d, d, {}, act, v)
    BY <2>1, <2>2, PaysNone, Zenon
  <2>4. \A u \in Int : From({}, act, u) = {}
    BY Zenon DEF From
  <2>5. Solvent(d, 0, now, d, {}, act)
    BY <2>1, <2>2, <2>3, <2>4, SolventIntro, Zenon
  <2> QED  BY <2>1, <2>5, Zenon DEF d
<1>5. ASSUME NEW s \in Segments, limiters'[s] # None
      PROVE  LET b == bucket[limiters'[s]]
             IN  Solvent(Drained(b), b.event, now, Drained(ideal[s]), Standing(s), act)
  <2>1. CASE limiters'[s] = limiters[s]
    BY <1>5, <2>1, Zenon DEF Backed
  <2>2. CASE limiters'[s] # limiters[s]
    <3>1. s = segment[r] /\ limiters[s] = None /\ limiters'[s] = r
      BY <2>2, Zenon DEF LoadOrStore, TypeOK
    <3>2. \A u \in Segments : limiters[u] # r
      BY <3>1, RateLimitAssumption, Zenon DEF LimiterInv
    <3>3. bucket[r] = Full /\ ideal[s] = Full
      BY <3>1, <3>2, ZenonT(40) DEF UsageInv
    <3>4. Standing(s) = {}
      BY <3>1, StateFacts DEF Standing
    <3> QED  BY <1>4, <3>1, <3>3, <3>4, Zenon
  <2> QED  BY <2>1, <2>2, Zenon
<1> QED  BY <1>1, <1>2, <1>3, <1>5, Zenon DEF Backed

(* An admission pays for itself, and the ideal bucket has a token too.      *)
LEMMA BackedAdmit ==
    ASSUME TypeOK, LimiterInv, UsageInv, Backed, RateRespected,
           NEW r \in Requests, Admit(r)
    PROVE  (Backed /\ RateRespected)'
<1> DEFINE b == bucket[lim[r]]
           i == ideal[segment[r]]
           S == Standing(segment[r])
<1>1. /\ pc[r] = "allow" /\ Credit(b, now) >= Period
      /\ pc' = [pc EXCEPT ![r] = "next"]
      /\ UNCHANGED <<now, segment, limiters, act>>
  BY Zenon DEF Admit, Goto
<1>2. /\ lim[r] \in Requests /\ segment[r] \in Segments /\ limiters[segment[r]] = lim[r]
      /\ lim[r] # None /\ now \in Nat
      /\ b \in Buckets /\ i \in Buckets /\ b.last <= now /\ i.last <= now
      /\ Drained(b) \in Int /\ Drained(i) \in Int
      /\ S \in SUBSET Requests /\ act \in [Requests -> Nat]
  BY <1>1, StateFacts, Zenon
<1>3. /\ bucket'[lim[r]] = Reserved(b, now)
      /\ \A q \in Requests : q # lim[r] => bucket'[q] = bucket[q]
      /\ ideal'[segment[r]] = Charged(i, now)
      /\ \A s \in Segments : s # segment[r] => ideal'[s] = ideal[s]
  BY <1>2, Zenon DEF Admit, TypeOK
<1>4. \A s \in Segments : Standing(s)' = Standing(s)
  <2>1. \A q \in Requests : pc'[q] = "reserved" <=> pc[q] = "reserved"
    BY <1>1, Zenon DEF TypeOK
  <2> QED  BY <1>1, <2>1, Zenon DEF Standing
<1>5. /\ Solvent(Drained(b), b.event, now, Drained(i), S, act) /\ b.event \in Int
      /\ \A q \in S : now <= act[q]
  BY <1>2, BackedFacts, Zenon
<1>6. Reserved(b, now).event = now
  BY <1>1, ZenonT(40) DEF Reserved, Charged, TimeToAct
<1>7. now \in Int /\ \A q \in S : act[q] >= now
  BY <1>2, <1>5
<1>8. Credit(b, now) <= Credit(i, now) /\ Credit(b, now) \in Int /\ Credit(i, now) \in Int
  <2>1. Drained(i) <= Drained(b)
    <3> HIDE DEF b, i, S
    <3> QED  BY <1>2, <1>5, <1>7, SolventOrder, Zenon
  <2> QED  BY <1>2, <2>1, DrainOrder, BucketTypes, Zenon
<1>9. RateRespected'
  <2>1. Charged(i, now).credit = Credit(i, now) - Period
    BY <1>2, CreditFacts, Zenon
  <2> HIDE DEF b, i
  <2>2. Charged(i, now).credit >= 0
    BY <1>1, <1>8, <2>1, SizeFacts, SMTT(20)
  <2> QED  BY <1>3, <2>2, Zenon DEF RateRespected
<1>10. Solvent(Drained(Reserved(b, now)), now, now, Drained(Charged(i, now)), S, act)
  <2> DEFINE d == now - Credit(b, now)
             j == now - Credit(i, now)
             d0 == Drained(b)
             i0 == Drained(i)
             e == b.event
  <2>1. Drained(Reserved(b, now)) = d + Period /\ d0 <= d /\ now - Burst * Period <= d
    BY <1>2, DrainFacts, Zenon
  <2>2. Drained(Charged(i, now)) = j + Period /\ (j = i0 \/ j = now - Burst * Period)
    BY <1>2, DrainFacts, Zenon
  <2> HIDE DEF b, i, S
  <2>3. d \in Int /\ j \in Int /\ d + Period <= now
    BY <1>1, <1>2, <1>8, SizeFacts
  <2>4. d0 \in Int /\ i0 \in Int /\ e \in Int /\ Solvent(d0, e, now, i0, S, act)
    BY <1>2, <1>5, ZenonT(40)
  <2> HIDE DEF d, j, d0, i0, e
  <2>5. Solvent(d + Period, now, now, j + Period, S, act)
    BY <1>2, <1>7, <2>1, <2>2, <2>3, <2>4, SolventAdmit, SMTT(20)
  <2> QED  BY <2>1, <2>2, <2>5, Zenon
<1>11. ASSUME NEW s \in Segments, limiters[s] # None
       PROVE  LET c == bucket'[limiters[s]]
              IN  Solvent(Drained(c), c.event, now, Drained(ideal'[s]), Standing(s), act)
  <2>1. CASE s = segment[r]
    BY <1>2, <1>3, <1>6, <1>10, <2>1, ZenonT(40)
  <2>2. CASE s # segment[r]
    <3>1. limiters[s] \in Requests /\ limiters[s] # lim[r]
      BY <1>2, <1>11, <2>2, StateFacts, Zenon
    <3> QED  BY <1>3, <1>11, <2>2, <3>1, Zenon DEF Backed
  <2> QED  BY <2>1, <2>2, Zenon
<1> QED  BY <1>1, <1>4, <1>9, <1>11, Zenon DEF Backed

(* A reservation pays for itself.                                           *)
LEMMA BackedReserve ==
    ASSUME TypeOK, LimiterInv, UsageInv, Backed, RateRespected,
           NEW r \in Requests, Reserve(r)
    PROVE  (Backed /\ RateRespected)'
<1> DEFINE b == bucket[lim[r]]
           d == now - Credit(b, now)
           x == TimeToAct(b, now)
           S == Standing(segment[r])
           i == Drained(ideal[segment[r]])
           at2 == [act EXCEPT ![r] = x]
<1>1. /\ pc[r] = "denied" /\ pc' = [pc EXCEPT ![r] = "reserved"] /\ act' = at2
      /\ UNCHANGED <<now, segment, limiters, ideal>>
  BY Zenon DEF Reserve, Goto
<1>2. /\ lim[r] \in Requests /\ segment[r] \in Segments /\ limiters[segment[r]] = lim[r]
      /\ lim[r] # None /\ now \in Nat /\ b \in Buckets /\ b.last <= now
      /\ Drained(b) \in Int /\ i \in Int
      /\ S \in SUBSET Requests /\ act \in [Requests -> Nat]
  BY <1>1, StateFacts, Zenon
<1>3. /\ bucket'[lim[r]] = Reserved(b, now)
      /\ \A q \in Requests : q # lim[r] => bucket'[q] = bucket[q]
  BY <1>2, Zenon DEF Reserve, TypeOK
<1>4. /\ x \in Nat /\ now <= x /\ now \in Int
      /\ Drained(Reserved(b, now)) = d + Period
      /\ Drained(b) <= d /\ d \in Int /\ now - Burst * Period <= d
      /\ x = d + Period \/ (x = now /\ d + Period <= now)
  <2> DEFINE z == Burst * Period
  <2>1. /\ Drained(Reserved(b, now)) = d + Period /\ Drained(b) <= d
        /\ now - z <= d /\ Credit(b, now) \in Int /\ x \in Nat
    BY <1>2, DrainFacts, BucketTypes, Zenon
  <2>2. x = IF Credit(b, now) >= Period THEN now ELSE now + Period - Credit(b, now)
    BY Zenon DEF TimeToAct
  <2>3. Period \in Nat
    BY SizeFacts, Zenon
  <2> HIDE DEF x, b, z
  <2>4. /\ now <= x /\ d \in Int /\ now \in Int
        /\ x = d + Period \/ (x = now /\ d + Period <= now)
    BY <1>2, <2>1, <2>2, <2>3, SMTT(20)
  <2> QED  BY <2>1, <2>4, Zenon DEF z
<1>5. /\ r \notin S
      /\ \A s \in Segments : s = segment[r] => Standing(s)' = Standing(s) \cup {r}
      /\ \A s \in Segments : s # segment[r] => Standing(s)' = Standing(s)
  BY <1>1, <1>2, StandingReserve, Zenon
<1>6. Reserved(b, now).event = x
  BY Zenon DEF Reserved, Charged
<1>7. at2 \in [Requests -> Nat] /\ at2[r] = x /\ \A q \in Requests : q # r => at2[q] = act[q]
  BY <1>2, <1>4, ZenonT(40)
<1>8. Solvent(d + Period, x, now, i, S \cup {r}, at2)
  <2> DEFINE d0 == Drained(b)
             e == b.event
  <2>1. Solvent(d0, e, now, i, S, act) /\ e \in Int /\ d0 \in Int /\ d0 <= d
    BY <1>2, <1>4, BackedFacts, Zenon
  <2>2. r \in Requests \ S /\ \A q \in S : at2[q] = act[q]
    BY <1>2, <1>5, <1>7, Zenon
  <2> HIDE DEF b, x, S, d, i, at2, d0, e
  <2> QED  BY <1>2, <1>4, <1>7, <2>1, <2>2, SolventReserve, SMTT(20)
<1> HIDE DEF b, d, x, at2
<1>9. ASSUME NEW s \in Segments, limiters[s] # None
      PROVE  LET c == bucket'[limiters[s]]
             IN  Solvent(Drained(c), c.event, now, Drained(ideal[s]), Standing(s)', at2)
  <2>1. CASE s = segment[r]
    <3>1. Standing(s)' = S \cup {r}
      BY <1>5, <2>1, Zenon
    <3> HIDE DEF S
    <3> QED  BY <1>2, <1>3, <1>4, <1>6, <1>8, <2>1, <3>1, Zenon
  <2>2. CASE s # segment[r]
    <3>1. limiters[s] \in Requests /\ limiters[s] # lim[r]
      BY <1>2, <1>9, <2>2, StateFacts, Zenon
    <3>2. \A q \in Standing(s) : at2[q] = act[q]
      BY <1>1, <1>7, Zenon DEF Standing
    <3>3. bucket'[limiters[s]] = bucket[limiters[s]] /\ Standing(s)' = Standing(s)
      BY <1>3, <1>5, <2>2, <3>1, Zenon
    <3> DEFINE c == bucket[limiters[s]]
    <3>4. Solvent(Drained(c), c.event, now, Drained(ideal[s]), Standing(s), act)
      BY <1>9, Zenon DEF Backed
    <3>5. Solvent(Drained(c), c.event, now, Drained(ideal[s]), Standing(s), at2)
      BY <3>2, <3>4, SolventSame, Zenon
    <3> QED  BY <3>3, <3>5, Zenon
  <2> QED  BY <2>1, <2>2, Zenon
<1>10. RateRespected'
  BY <1>1, Zenon DEF RateRespected
<1> QED  BY <1>1, <1>9, <1>10, Zenon DEF Backed

(* A cancellation gives back no more than what its reservation paid and     *)
(* what the bucket set aside for it.                                        *)
LEMMA BackedRespond ==
    ASSUME TypeOK, LimiterInv, UsageInv, Backed, RateRespected,
           NEW r \in Requests, Respond(r)
    PROVE  (Backed /\ RateRespected)'
<1> DEFINE b == bucket[lim[r]]
           c == Cancelled(b, act[r], now)
           i == Drained(ideal[segment[r]])
           S == Standing(segment[r])
<1>1. pc[r] = "reserved" /\ UNCHANGED <<now, segment, limiters, act, ideal>>
  BY Zenon DEF Respond
<1>2. /\ lim[r] \in Requests /\ segment[r] \in Segments /\ limiters[segment[r]] = lim[r]
      /\ lim[r] # None /\ now \in Nat /\ b \in Buckets /\ b.last <= now
      /\ i \in Int /\ S \in SUBSET Requests /\ act \in [Requests -> Nat] /\ act[r] \in Nat
  BY <1>1, StateFacts, Zenon
<1>3. bucket'[lim[r]] = c /\ \A q \in Requests : q # lim[r] => bucket'[q] = bucket[q]
  BY <1>2, Zenon DEF Respond, TypeOK
<1>4. \A s \in Segments : Standing(s)' = Standing(s) \ {r}
  BY StandingRespond, Zenon
<1>5. Solvent(Drained(b), b.event, now, i, S, act) /\ b.event \in Int /\ Drained(b) \in Int
  BY <1>2, BackedFacts, Zenon
<1>6. Solvent(Drained(c), c.event, now, i, S \ {r}, act)
  <2> DEFINE d == Drained(b)
             e == b.event
             T == S \ {r}
  <2>1. /\ T \in SUBSET S /\ T \in SUBSET T /\ T \in SUBSET Requests
        /\ now \in Int /\ now <= now /\ d \in Int /\ e \in Int
    <3>1. now \in Nat
      BY <1>2, Zenon
    <3>2. now \in Int /\ now <= now
      BY <3>1
    <3> QED  BY <1>2, <1>5, <3>2, Zenon
  <2>2. CASE c = b
    <3> HIDE DEF b, c, i, S, d, e, T
    <3>1. Solvent(d, e, now, i, S, act)
      BY <1>5, Zenon DEF d, e
    <3>2. d <= e /\ d <= d
      <4>1. d <= e
        BY <1>2, <2>1, <3>1, SolventFacts, Zenon
      <4> QED  BY <2>1, <4>1
    <3>3. Solvent(d, e, now, i, T, act)
      BY <1>2, <2>1, <3>1, <3>2, SolventPart, Zenon
    <3> QED  BY <2>2, <3>3, Zenon DEF d, e, T
  <2>3. CASE c # b
    <3> DEFINE d2 == d - (Period - (e - act[r]))
               d3 == Drained(c)
               e2 == c.event
    <3>1. /\ now <= act[r] /\ e - act[r] < Period
          /\ d3 \in Int /\ d2 <= d3 /\ (d3 = d2 \/ d3 = now - Burst * Period)
          /\ e2 \in Int
          /\ e2 = e \/ (act[r] = e /\ e2 = e - Period /\ now <= e2)
      BY <1>2, <2>3, CancelDrain, Zenon
    <3>2. r \in S
      BY <1>1, <3>1, Zenon DEF Standing
    <3>3. Solvent(d, e, now, i, S, act)
      BY <1>5, Zenon
    <3> HIDE DEF b, c, i, S, d, e, T, d3, e2
    <3>4. d2 \in Int /\ d2 = d - (Period - (e - act[r]))
      BY <1>2, <2>1, SizeFacts, SMTT(20)
    <3> HIDE DEF d2
    <3>5. Solvent(d2, e2, now, i, S \ {r}, act)
      BY <1>2, <2>1, <3>1, <3>2, <3>3, <3>4, SolventCancel, SMTT(20)
    <3>6. Solvent(d2, e2, now, i, T, act)
      BY <3>5, Zenon DEF T
    <3>7. d2 <= e2
      BY <1>2, <2>1, <3>1, <3>4, <3>6, SolventFacts, Zenon
    <3>8. now - Burst * Period <= d /\ d <= e
      <4>1. d <= e
        BY <1>2, <2>1, <3>3, SolventFacts, Zenon
      <4>2. now <= act[r]
        BY <3>1, Zenon
      <4>3. now \in Int /\ d \in Int /\ e \in Int
        BY <2>1, Zenon
      <4>4. i \in Int /\ S \in SUBSET Requests /\ act \in [Requests -> Nat]
        BY <1>2, Zenon
      <4>5. now - Burst * Period <= d
        BY <3>2, <3>3, <4>2, <4>3, <4>4, SolventUncapped, SMTT(20)
      <4> QED  BY <4>1, <4>5, ZenonT(40)
    <3>9. d3 <= e2
      BY <1>2, <2>1, <3>1, <3>4, <3>7, <3>8, SizeFacts, SMTT(20)
    <3>10. Solvent(d3, e2, now, i, T, act)
      BY <1>2, <2>1, <3>1, <3>4, <3>6, <3>9, SolventPart, SMTT(20)
    <3> QED  BY <3>10, Zenon DEF d3, e2, T
  <2> QED  BY <2>2, <2>3, Zenon
<1> HIDE DEF b, c
<1>7. ASSUME NEW s \in Segments, limiters[s] # None
      PROVE  LET a == bucket'[limiters[s]]
             IN  Solvent(Drained(a), a.event, now, Drained(ideal[s]), Standing(s) \ {r}, act)
  <2>1. CASE s = segment[r]
    BY <1>2, <1>3, <1>6, <2>1, Zenon
  <2>2. CASE s # segment[r]
    <3>1. limiters[s] \in Requests /\ limiters[s] # lim[r]
      BY <1>2, <1>7, <2>2, StateFacts, Zenon
    <3>2. Standing(s) \ {r} = Standing(s)
      BY <2>2, Zenon DEF Standing
    <3> QED  BY <1>3, <1>7, <3>1, <3>2, Zenon DEF Backed
  <2> QED  BY <2>1, <2>2, Zenon
<1>8. RateRespected'
  BY <1>1, Zenon DEF RateRespected
<1> QED  BY <1>1, <1>4, <1>7, <1>8, Zenon DEF Backed

(* Every step keeps the limiters backed.                                    *)
LEMMA BackedStep ==
    ASSUME TypeOK, LimiterInv, UsageInv, Backed, RateRespected, [Next]_vars
    PROVE  (Backed /\ RateRespected)'
<1>1. now \in Nat /\ now \in Int /\ now <= now
  <2>1. now \in Nat
    BY StateFacts, Zenon
  <2> QED  BY <2>1
<1>2. ASSUME NEW r \in Requests, Bypass(r) \/ Load(r) \/ Deny(r)
      PROVE  (Backed /\ RateRespected)'
  <2>1. UNCHANGED <<now, segment, limiters, bucket, act, ideal>>
    BY <1>2, Zenon DEF Bypass, Load, Deny
  <2>2. \A q \in Requests : pc'[q] = "reserved" => pc[q] = "reserved"
    BY <1>2, Zenon DEF Bypass, Load, Deny, Goto, TypeOK
  <2>3. \A s \in Segments : Standing(s)' \in SUBSET Standing(s)
    BY <2>1, <2>2, Zenon DEF Standing
  <2> QED  BY <1>1, <2>1, <2>3, BackedIdle, Zenon
<1>3. CASE Tick
  <2>1. now' = now + 1 /\ UNCHANGED <<segment, limiters, bucket, pc, act, ideal>>
    BY <1>3, ZenonT(40) DEF Tick
  <2>2. \A q \in Requests : now + 1 <= act[q] => now <= act[q]
    BY StateFacts
  <2>3. \A s \in Segments : Standing(s)' \in SUBSET Standing(s)
    BY <2>1, <2>2, Zenon DEF Standing
  <2>4. now' \in Int /\ now <= now'
    BY <1>1, <2>1
  <2> QED  BY <2>1, <2>3, <2>4, BackedIdle, Zenon
<1>4. CASE UNCHANGED vars
  <2>1. UNCHANGED <<now, segment, limiters, bucket, pc, act, ideal>>
    BY <1>4, Zenon DEF vars
  <2>2. \A s \in Segments : Standing(s)' \in SUBSET Standing(s)
    BY <2>1, Zenon DEF Standing
  <2> QED  BY <1>1, <2>1, <2>2, BackedIdle, Zenon
<1>5. ASSUME NEW r \in Requests, LoadOrStore(r) \/ Admit(r)
      PROVE  (Backed /\ RateRespected)'
  BY <1>5, BackedNew, BackedAdmit, Zenon
<1>6. ASSUME NEW r \in Requests, Reserve(r) \/ Respond(r)
      PROVE  (Backed /\ RateRespected)'
  BY <1>6, BackedReserve, BackedRespond, Zenon
<1> QED  BY <1>2, <1>3, <1>4, <1>5, <1>6, Zenon DEF Next

(* With no limiter in use nothing is owed.                                  *)
LEMMA BackedInit == Init => Backed /\ RateRespected
<1>1. Full.credit >= 0
  BY SizeFacts DEF Full
<1> QED  BY <1>1, Zenon DEF Init, Backed, RateRespected

(* A limiter never gives away what it has set aside.                        *)
THEOREM BackedCorrect == Spec => [](Backed /\ RateRespected)
<1>1. Init => Backed /\ RateRespected
  BY BackedInit, Zenon
<1>2. TypeOK /\ LimiterInv /\ UsageInv /\ Backed /\ RateRespected /\ [Next]_vars
      => (Backed /\ RateRespected)'
  BY BackedStep, Zenon
<1> QED  BY <1>1, <1>2, LimiterCorrect, ReservationCorrect, PTL DEF Spec

(* The configured rate and burst are respected, for every rate, burst and   *)
(* number of requests, whatever denied requests reserve and cancel in       *)
(* between: overlapping, in any order, and however late.                    *)
THEOREM RateCorrect == Spec => []RateRespected
BY BackedCorrect, PTL

(* The latest reservation on a limiter, cancelled in time, leaves a token   *)
(* for the moment that its Retry-After names: what the limiter owes is owed *)
(* up to its last event, and that reservation gives back a whole token.     *)
LEMMA RetryStep ==
    ASSUME TypeOK, LimiterInv, UsageInv, Backed, NEW r \in Requests, Respond(r),
           now <= act[r], bucket[lim[r]].event <= act[r]
    PROVE  Credit(bucket'[lim[r]], now + retry'[r] * Second) >= Period
<1> DEFINE b == bucket[lim[r]]
           c == Cancelled(b, act[r], now)
           z == Burst * Period
           x == Period - (b.event - act[r])
           k == Credit(b, now)
           d == retryAfter(act[r] - now) * Second
<1>1. /\ lim[r] \in Requests /\ segment[r] \in Segments /\ limiters[segment[r]] = lim[r]
      /\ lim[r] # None /\ now \in Nat /\ b \in Buckets /\ b.last <= now
      /\ act \in [Requests -> Nat] /\ act[r] \in Nat /\ Standing(segment[r]) \in SUBSET Requests
      /\ Drained(ideal[segment[r]]) \in Int
  BY StateFacts, Zenon DEF Respond
<1>2. bucket'[lim[r]] = c /\ retry'[r] = retryAfter(act[r] - now)
  BY <1>1, Zenon DEF Respond, TypeOK
<1>3. Drained(b) <= b.event /\ b.event \in Int /\ Drained(b) \in Int
  <2>1. /\ Solvent(Drained(b), b.event, now, Drained(ideal[segment[r]]),
                   Standing(segment[r]), act)
        /\ b.event \in Int /\ Drained(b) \in Int
    BY <1>1, BackedFacts, Zenon
  <2> QED  BY <2>1, Zenon DEF Solvent
<1>4. /\ k \in Int
      /\ k = now - Drained(b) \/ k = z
      /\ z \in Nat /\ z >= Period /\ Period \in Nat \ {0}
  <2>1. /\ k \in Int /\ Drained(b) \in Int
        /\ now - k = Drained(b) \/ now - k = now - z
        /\ z \in Nat /\ z >= Period /\ Period \in Nat \ {0}
    BY <1>1, DrainFacts, SizeFacts, Zenon
  <2> HIDE DEF b, k, z
  <2> QED  BY <1>1, <2>1
<1>5. d \in Nat /\ d >= act[r] - now
  <2>1. /\ retryAfter(act[r] - now) \in Nat
        /\ retryAfter(act[r] - now) * Second >= act[r] - now
    BY <1>1, RetryFacts
  <2> QED  BY <2>1, RateLimitAssumption
<1>6. x \in Int /\ x >= Period
  <2> DEFINE e == b.event
             a == act[r]
  <2>1. e \in Int /\ a \in Nat /\ e <= a /\ Period \in Nat
    BY <1>1, <1>3, SizeFacts, Zenon
  <2> HIDE DEF e, a
  <2>2. Period - (e - a) \in Int /\ Period - (e - a) >= Period
    BY <2>1
  <2> QED  BY <2>2, Zenon DEF e, a
<1>7. c.credit = Least(z, k + x) /\ c.last = now
  <2>1. ~(act[r] < now \/ x <= 0)
    <3> HIDE DEF x
    <3> QED  BY <1>1, <1>4, <1>6
  <2> QED  BY <2>1, Zenon DEF Cancelled
<1>8. Credit(c, now + d) = Least(z, Least(z, k + x) + ((now + d) - now))
  BY <1>7, Zenon DEF Credit
<1>9. PICK u \in Int : u = Drained(b) /\ u <= act[r]
  <2>1. b.event <= act[r]
    BY Zenon
  <2> HIDE DEF b
  <2>2. Drained(b) <= act[r]
    BY <1>1, <1>3, <2>1
  <2> QED  BY <1>3, <2>2, Zenon
<1>10. Least(z, Least(z, k + x) + ((now + d) - now)) >= Period
  <2>1. k = now - u \/ k = z
    BY <1>4, <1>9, Zenon
  <2> HIDE DEF b, c, z, x, k, d
  <2> QED  BY <1>1, <1>4, <1>5, <1>6, <1>9, <2>1 DEF Least
<1> QED  BY <1>2, <1>8, <1>10, Zenon

(* The client denied last finds a token after its Retry-After, for every    *)
(* rate, burst and number of overlapping denials: rounding up to whole      *)
(* seconds never falls short.                                               *)
THEOREM RetryAfterCorrect == Spec => RetryAfterSuffices
<1> DEFINE Suffices ==
      \A r \in Requests :
        /\ pc[r] = "reserved" /\ pc'[r] = "429"
        /\ now <= act[r] /\ bucket[lim[r]].event <= act[r]
        => Credit(bucket'[lim[r]], now + retry'[r] * Second) >= Period
<1>1. TypeOK /\ LimiterInv /\ UsageInv /\ Backed /\ [Next]_vars => [Suffices]_vars
  <2> SUFFICES ASSUME TypeOK, LimiterInv, UsageInv, Backed, Next,
                      NEW r \in Requests, pc[r] = "reserved", pc'[r] = "429",
                      now <= act[r], bucket[lim[r]].event <= act[r]
               PROVE  Credit(bucket'[lim[r]], now + retry'[r] * Second) >= Period
    BY ZenonT(40) DEF Suffices
  <2>1. Respond(r)
    BY DEF Next, Bypass, Load, LoadOrStore, Admit, Deny, Reserve, Respond, Tick, Goto, TypeOK
  <2> QED  BY <2>1, RetryStep, Zenon
<1>2. Spec => [][Suffices]_vars
  BY <1>1, LimiterCorrect, ReservationCorrect, BackedCorrect, PTL DEF Spec
<1> QED  BY <1>2, Zenon DEF RetryAfterSuffices

=============================================================================
