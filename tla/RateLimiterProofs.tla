-------------------------- MODULE RateLimiterProofs --------------------------
(***************************************************************************)
(* For every rate and any number of clients, requests and buckets: the types *)
(* of RateLimiter.tla, the bound on what a client is admitted, and when it is *)
(* refused.                                                                  *)
(***************************************************************************)
EXTENDS RateLimiter, TLAPS

\* A bucket is a client's while the map or one of its requests leads there.
Belongs(b, c) ==
    \/ buckets[c] = b
    \/ \E r \in Requests : request[r].bucket = b /\ request[r].client = c

RequestsSound ==
    \A r \in Requests :
        /\ request[r].pc \in {"found", "holds"} => request[r].client \in Clients
        /\ IF request[r].pc = "holds" THEN request[r].bucket \in Buckets
                                      ELSE request[r].bucket = NoBucket

OneOwner ==
    \A b \in Buckets, c, d \in Clients : Belongs(b, c) /\ Belongs(b, d) => c = d

\* The last token of a bucket was given away after its last refill.
EmptiedByGrant ==
    ValidRate => \A b \in Buckets, c \in Clients :
        Belongs(b, c) /\ heap[b].tokens = 0 => sinceGrant[c] <= heap[b].sinceRefill

AccessAfterRefill == \A b \in Buckets : heap[b].sinceAccess <= heap[b].sinceRefill

\* The ideal bucket is at least as full as the one in the map, counting what a
\* refill would give; and a bucket that is to be made finds it full.
Covered(c) ==
    \/ buckets[c] = NoBucket /\ credit[c] >= rate * TicksPerSecond
    \/ buckets[c] \in Buckets /\ credit[c] >= Full
    \/ /\ buckets[c] \in Buckets
       /\ credit[c] >= heap[buckets[c]].tokens * TicksPerSecond
                           + heap[buckets[c]].sinceRefill

CreditCovers ==
    ValidRate /\ Full <= BucketTTL + 1 => \A c \in Clients : Covered(c)

IInv ==
    /\ TypeOK
    /\ RequestsSound
    /\ OneOwner
    /\ EmptiedByGrant
    /\ AccessAfterRefill
    /\ CreditCovers

-----------------------------------------------------------------------------
(* Arithmetic.                                                              *)

\* Whole seconds of an age.
LEMMA WholeSeconds ==
    ASSUME NEW n \in Nat, NEW d \in Nat \ {0}
    PROVE  /\ n \div d \in Nat
           /\ d * (n \div d) <= n
           /\ n \div d = 0 => n < d
OBVIOUS

LEMMA Distributes ==
    ASSUME NEW a \in Int, NEW b \in Int, NEW d \in Int
    PROVE  (a + b) * d = a * d + b * d
OBVIOUS

LEMMA Monotone ==
    ASSUME NEW a \in Int, NEW b \in Int, NEW d \in Nat, a <= b
    PROVE  a * d <= b * d
OBVIOUS

-----------------------------------------------------------------------------
(* The initial state, time and the rate.                                    *)

LEMMA FullIs ==
    ASSUME rate \in Int
    PROVE  /\ Full \in Int
           /\ Full = rate * TicksPerSecond + TicksPerSecond - 1
           /\ rate * TicksPerSecond \in Int
<1>1. TicksPerSecond \in Nat \ {0}
  BY RateLimiterAssumption
<1>2. (rate + 1) * TicksPerSecond = rate * TicksPerSecond + 1 * TicksPerSecond
  BY <1>1, Distributes
<1> QED BY <1>1, <1>2 DEF Full

LEMMA OlderFacts ==
    ASSUME NEW age \in Int, NEW limit \in Int
    PROVE  /\ Older(age, limit) \in Int
           /\ age <= Older(age, limit) /\ Older(age, limit) <= age + 1
           /\ age < limit => Older(age, limit) = age + 1
           /\ age >= limit => Older(age, limit) = age
           /\ \A m \in Int : age \in m .. limit => Older(age, limit) \in m .. limit
BY DEF Older

\* What consume's refill does to a bucket.
LEMMA RefilledFacts ==
    ASSUME rate \in Int, NEW bucket \in Bucket
    PROVE  /\ Refilled(bucket) \in Bucket
           /\ Refilled(bucket).sinceAccess = 0
           /\ \/ /\ Refilled(bucket).tokens = bucket.tokens
                 /\ Refilled(bucket).sinceRefill = bucket.sinceRefill
                 /\ bucket.sinceRefill < TicksPerSecond
              \/ /\ Refilled(bucket).sinceRefill = 0
                 /\ rate > 0 => Refilled(bucket).tokens > 0
                 /\ rate > 0 => Refilled(bucket).tokens * TicksPerSecond
                       <= bucket.tokens * TicksPerSecond + bucket.sinceRefill
<1> DEFINE added == bucket.sinceRefill \div TicksPerSecond
           n     == AtMost(rate, bucket.tokens + added)
<1>1. /\ TicksPerSecond \in Nat \ {0} /\ MaxAge \in Nat
      /\ bucket.sinceRefill \in Nat /\ bucket.sinceAccess \in Nat
      /\ bucket.sinceRefill \in 0 .. MaxAge
      /\ bucket.tokens \in {0, rate} \union (0 .. rate)
      /\ bucket.tokens \in Int
  BY RateLimiterAssumption DEF Bucket
<1>2. /\ added \in Nat
      /\ TicksPerSecond * added <= bucket.sinceRefill
      /\ added = 0 => bucket.sinceRefill < TicksPerSecond
  BY <1>1, WholeSeconds
<1> HIDE DEF added
<1>3. CASE added > 0
  <2>1. Refilled(bucket) = [tokens |-> n, sinceRefill |-> 0, sinceAccess |-> 0]
    BY <1>3 DEF Refilled, added
  <2>2. n \in {0, rate} \union (0 .. rate)
    BY <1>1, <1>2, <1>3 DEF AtMost
  <2>3. rate > 0 => n \in Int /\ n > 0 /\ n <= bucket.tokens + added
    BY <1>1, <1>2, <1>3 DEF AtMost
  <2>4. rate > 0 => n * TicksPerSecond
                        <= bucket.tokens * TicksPerSecond + bucket.sinceRefill
    <3> SUFFICES ASSUME rate > 0
                 PROVE  n * TicksPerSecond
                            <= bucket.tokens * TicksPerSecond + bucket.sinceRefill
      OBVIOUS
    <3> HIDE DEF n
    <3>1. n * TicksPerSecond <= (bucket.tokens + added) * TicksPerSecond
      BY <1>1, <1>2, <2>3, Monotone
    <3>2. (bucket.tokens + added) * TicksPerSecond
              = bucket.tokens * TicksPerSecond + added * TicksPerSecond
      BY <1>1, <1>2, Distributes
    <3>3. added * TicksPerSecond = TicksPerSecond * added
      BY <1>1, <1>2
    <3>4. /\ n * TicksPerSecond \in Int /\ bucket.tokens * TicksPerSecond \in Int
          /\ added * TicksPerSecond \in Int
      BY <1>1, <1>2, <2>3
    <3> QED BY <1>1, <1>2, <3>1, <3>2, <3>3, <3>4
  <2> HIDE DEF n
  <2>5. Refilled(bucket) \in Bucket
    BY <1>1, <2>1, <2>2 DEF Bucket
  <2> QED BY <2>1, <2>3, <2>4, <2>5
<1>4. CASE added = 0
  <2>1. Refilled(bucket) = [bucket EXCEPT !.sinceAccess = 0]
    BY <1>4 DEF Refilled, added
  <2> QED BY <1>1, <1>2, <1>4, <2>1 DEF Bucket
<1> QED BY <1>2, <1>3, <1>4

LEMMA InitIInv == ASSUME Init PROVE IInv
<1>1. /\ TicksPerSecond \in Nat \ {0} /\ MaxAge \in Nat \ {0}
      /\ CleanupPeriod \in Nat \ {0}
      /\ rate \in Rates /\ rate \in Int
      /\ NoBucket \notin Buckets
  BY RateLimiterAssumption DEF Init
<1>2. /\ Full \in Int /\ rate * TicksPerSecond \in Int
      /\ rate * TicksPerSecond <= Full
  BY <1>1, FullIs
<1>3. TypeOK
  <2>1. Unused \in Bucket
    BY <1>1 DEF Unused, Bucket
  <2> QED BY <1>1, <1>2, <2>1 DEF Init, TypeOK, Request
<1>4. RequestsSound /\ OneOwner /\ EmptiedByGrant
  BY <1>1 DEF Init, RequestsSound, OneOwner, EmptiedByGrant, Belongs
<1>5. AccessAfterRefill
  BY <1>1 DEF Init, AccessAfterRefill, Unused
<1>6. CreditCovers
  BY <1>1, <1>2 DEF Init, CreditCovers, Covered
<1> QED BY <1>3, <1>4, <1>5, <1>6 DEF IInv

-----------------------------------------------------------------------------
(* Steps.                                                                   *)

LEMMA Constants ==
    /\ TicksPerSecond \in Nat \ {0} /\ MaxAge \in Nat \ {0}
    /\ BucketTTL \in Nat \ {0} /\ CleanupPeriod \in Nat \ {0}
    /\ MaxAge >= TicksPerSecond /\ MaxAge > BucketTTL
    /\ NoBucket \notin Buckets /\ NoClient \notin Clients
BY RateLimiterAssumption

LEMMA RateIsInt == ASSUME TypeOK PROVE rate \in Int /\ Full \in Int
<1>1. rate \in Int
  BY RateLimiterAssumption DEF TypeOK
<1> QED BY <1>1, FullIs

LEMMA HeapTyped ==
    ASSUME TypeOK, NEW b \in Buckets
    PROVE  /\ heap[b] \in Bucket
           /\ heap[b].tokens \in Int
           /\ heap[b].sinceRefill \in Int
           /\ heap[b].sinceRefill >= 0 /\ heap[b].sinceRefill <= MaxAge
           /\ heap[b].sinceAccess \in Int
           /\ heap[b].sinceAccess >= 0 /\ heap[b].sinceAccess <= MaxAge
           /\ rate > 0 => heap[b].tokens >= 0 /\ heap[b].tokens <= rate
<1>1. rate \in Int /\ MaxAge \in Nat
  BY RateIsInt, Constants
<1>2. heap[b] \in Bucket
  BY DEF TypeOK
<1> QED BY <1>1, <1>2 DEF Bucket

\* Tokens in ticks, a product that the provers need not look into.
LEMMA Products ==
    ASSUME TypeOK
    PROVE  /\ rate * TicksPerSecond \in Int
           /\ rate * TicksPerSecond + TicksPerSecond - 1 = Full
           /\ \A b \in Buckets : heap[b].tokens * TicksPerSecond \in Int
<1>1. \A b \in Buckets : heap[b].tokens * TicksPerSecond \in Int
  BY HeapTyped, Constants
<1> QED BY <1>1, RateIsInt, FullIs

\* Fewer requests at fewer buckets.
LEMMA LeavesBuckets ==
    ASSUME OneOwner, EmptiedByGrant, AccessAfterRefill,
           rate' = rate, heap' = heap, sinceGrant' = sinceGrant,
           \A b \in Buckets, c \in Clients : Belongs(b, c)' => Belongs(b, c)
    PROVE  OneOwner' /\ EmptiedByGrant' /\ AccessAfterRefill'
<1> USE DEF ValidRate
<1>1. OneOwner'
  BY DEF OneOwner
<1>2. EmptiedByGrant'
  BY DEF EmptiedByGrant
<1>3. AccessAfterRefill'
  BY DEF AccessAfterRefill
<1> QED BY <1>1, <1>2, <1>3

LEMMA KeepsCredit ==
    ASSUME CreditCovers, rate' = rate, heap' = heap, credit' = credit,
           buckets' = buckets
    PROVE  CreditCovers'
BY DEF CreditCovers, Covered, ValidRate, Full

LEMMA CheckRateLimitIInv ==
    ASSUME IInv, NEW r \in Requests, NEW c \in Clients, CheckRateLimit(r, c)
    PROVE  IInv'
<1> USE DEF CheckRateLimit, history
<1>1. TypeOK'
  BY DEF IInv, TypeOK, Request, Bucket
<1>2. request' = [request EXCEPT ![r] = request'[r]]
      /\ request'[r].bucket = NoBucket /\ request'[r].client = c
      /\ request'[r].pc \in {"found", "idle"}
  BY DEF IInv, TypeOK
<1>3. RequestsSound'
  BY <1>2 DEF IInv, TypeOK, RequestsSound
<1>4. \A b \in Buckets, d \in Clients : Belongs(b, d)' => Belongs(b, d)
  BY <1>2, Constants DEF IInv, TypeOK, Belongs
<1>5. OneOwner' /\ EmptiedByGrant' /\ AccessAfterRefill'
  BY <1>4, LeavesBuckets DEF IInv
<1>6. CreditCovers'
  BY KeepsCredit DEF IInv
<1> QED BY <1>1, <1>3, <1>5, <1>6 DEF IInv

LEMMA NilLimiterIInv ==
    ASSUME IInv, NEW r \in Requests, NilLimiter(r)
    PROVE  IInv'
<1> USE DEF NilLimiter, history
<1>0. /\ request \in [Requests -> Request]
      /\ request' = [request EXCEPT ![r] =
                        [request[r] EXCEPT !.pc = "idle", !.answer = "panic"]]
  BY DEF IInv, TypeOK
<1>1. TypeOK'
  <2>1. [request[r] EXCEPT !.pc = "idle", !.answer = "panic"] \in Request
    BY <1>0 DEF Request
  <2>2. request' \in [Requests -> Request]
    BY <1>0, <2>1
  <2> QED BY <2>2 DEF IInv, TypeOK, Request, Bucket
<1>2. \A q \in Requests : /\ request'[q].bucket = request[q].bucket
                          /\ request'[q].client = request[q].client
                          /\ request'[q].pc = IF q = r THEN "idle" ELSE request[q].pc
                          /\ q = r => request[q].pc = "found"
  BY <1>0 DEF Request
<1>3. RequestsSound'
  <2>1. RequestsSound
    BY DEF IInv
  <2> SUFFICES ASSUME NEW q \in Requests
               PROVE  /\ request'[q].pc \in {"found", "holds"} => request'[q].client \in Clients
                      /\ IF request'[q].pc = "holds" THEN request'[q].bucket \in Buckets
                                                      ELSE request'[q].bucket = NoBucket
    BY DEF RequestsSound
  <2>0. /\ request[q].pc \in {"found", "holds"} => request[q].client \in Clients
        /\ IF request[q].pc = "holds" THEN request[q].bucket \in Buckets
                                      ELSE request[q].bucket = NoBucket
    BY <2>1 DEF RequestsSound
  <2>2. CASE q = r
    <3>1. request'[q].bucket = request[q].bucket /\ request'[q].pc = "idle"
          /\ request[q].pc = "found"
      BY <1>2, <2>2
    <3> QED BY <2>0, <3>1
  <2>3. CASE q # r
    <3>1. request'[q] = request[q]
      BY <1>0, <2>3
    <3> QED BY <2>0, <3>1
  <2> QED BY <2>2, <2>3
<1>4. \A b \in Buckets, d \in Clients : Belongs(b, d)' => Belongs(b, d)
  BY <1>2 DEF Belongs
<1>5. OneOwner' /\ EmptiedByGrant' /\ AccessAfterRefill'
  BY <1>4, LeavesBuckets DEF IInv
<1>6. CreditCovers'
  BY KeepsCredit DEF IInv
<1> QED BY <1>1, <1>3, <1>5, <1>6 DEF IInv

\* The steps of the goroutine and of Stop that touch no bucket.
LEMMA FlagsIInv ==
    ASSUME IInv, CleanerStops \/ Stop
    PROVE  IInv'
<1> USE DEF CleanerStops, Stop, history
<1>1. TypeOK'
  BY DEF IInv, TypeOK, Request, Bucket
<1>2. RequestsSound'
  BY DEF IInv, RequestsSound
<1>3. \A b \in Buckets, d \in Clients : Belongs(b, d)' => Belongs(b, d)
  BY DEF Belongs
<1>4. OneOwner' /\ EmptiedByGrant' /\ AccessAfterRefill'
  BY <1>3, LeavesBuckets DEF IInv
<1>5. CreditCovers'
  BY KeepsCredit DEF IInv
<1> QED BY <1>1, <1>2, <1>4, <1>5 DEF IInv

\* A tick ages buckets and credit alike.
LEMMA TickIInv ==
    ASSUME IInv, Tick
    PROVE  IInv'
<1>0. /\ TypeOK /\ RequestsSound /\ OneOwner /\ EmptiedByGrant
      /\ AccessAfterRefill /\ CreditCovers
      /\ rate' = rate /\ limiter' = limiter /\ buckets' = buckets
      /\ request' = request /\ cleaner' = cleaner
  BY DEF IInv, Tick
<1> DEFINE aged(b) == [heap[b] EXCEPT !.sinceRefill = Older(@, MaxAge),
                                      !.sinceAccess = Older(@, MaxAge)]
<1>1. ASSUME NEW b \in Buckets
      PROVE  /\ heap'[b] \in Bucket
             /\ heap'[b].tokens = heap[b].tokens
             /\ \/ heap'[b] = heap[b] /\ ~Live(b)
                \/ /\ heap'[b].sinceRefill = Older(heap[b].sinceRefill, MaxAge)
                   /\ heap'[b].sinceAccess = Older(heap[b].sinceAccess, MaxAge)
  <2>1. heap'[b] = IF Live(b) THEN aged(b) ELSE heap[b]
    BY DEF Tick
  <2>2. heap[b] \in Bucket
    BY <1>0, HeapTyped
  <2>4. /\ Older(heap[b].sinceRefill, MaxAge) \in 0 .. MaxAge
        /\ Older(heap[b].sinceAccess, MaxAge) \in 0 .. MaxAge
    BY <1>0, HeapTyped, Constants DEF Older
  <2>5. /\ aged(b) \in Bucket /\ aged(b).tokens = heap[b].tokens
        /\ aged(b).sinceRefill = Older(heap[b].sinceRefill, MaxAge)
        /\ aged(b).sinceAccess = Older(heap[b].sinceAccess, MaxAge)
    <3> DEFINE bucket == heap[b]
               m == Older(heap[b].sinceRefill, MaxAge)
               n == Older(heap[b].sinceAccess, MaxAge)
               e == [bucket EXCEPT !.sinceRefill = m, !.sinceAccess = n]
    <3>1. aged(b) = e
      OBVIOUS
    <3>2. bucket \in Bucket /\ m \in 0 .. MaxAge /\ n \in 0 .. MaxAge
      BY <2>2, <2>4
    <3>3. e \in Bucket /\ e.tokens = bucket.tokens /\ e.sinceRefill = m /\ e.sinceAccess = n
      <4> HIDE DEF bucket, m, n
      <4> QED BY <3>2 DEF Bucket
    <3> HIDE DEF e, aged
    <3> QED BY <3>1, <3>3
  <2> HIDE DEF aged
  <2> QED BY <2>1, <2>2, <2>5
<1> HIDE DEF aged
<1>2. ASSUME NEW c \in Clients
      PROVE  /\ sinceGrant[c] \in 0 .. TicksPerSecond /\ credit[c] \in Int
             /\ sinceGrant'[c] = Older(sinceGrant[c], TicksPerSecond)
             /\ credit'[c] = Older(credit[c], Full)
  BY <1>0 DEF TypeOK, Tick
<1>3. TypeOK'
  <2>1. heap' \in [Buckets -> Bucket]
    <3>1. heap' = [b \in Buckets |-> heap'[b]]
      BY DEF Tick
    <3> QED BY <1>1, <3>1
  <2>2. Bucket' = Bucket /\ Request' = Request
    BY <1>0 DEF Bucket, Request
  <2>3. sinceTick' \in 0 .. CleanupPeriod
    <3>1. sinceTick \in 0 .. CleanupPeriod /\ CleanupPeriod \in Nat
      BY <1>0, Constants DEF TypeOK
    <3>2. sinceTick' = sinceTick \/ sinceTick' = Older(sinceTick, CleanupPeriod)
      BY DEF Tick
    <3> QED BY <3>1, <3>2 DEF Older
  <2>4. ASSUME NEW c \in Clients
        PROVE  sinceGrant'[c] \in 0 .. TicksPerSecond /\ credit'[c] \in Int
    BY <1>0, <1>2, Constants, RateIsInt DEF Older
  <2>5. /\ sinceGrant' \in [Clients -> 0 .. TicksPerSecond]
        /\ credit' \in [Clients -> Int]
    <3>1. /\ sinceGrant' = [c \in Clients |-> sinceGrant'[c]]
          /\ credit' = [c \in Clients |-> credit'[c]]
      BY DEF Tick
    <3> QED BY <2>4, <3>1
  <2> QED BY <1>0, <2>1, <2>2, <2>3, <2>5 DEF TypeOK
<1>4. RequestsSound'
  BY <1>0 DEF RequestsSound
<1>5. OneOwner'
  BY <1>0 DEF OneOwner, Belongs
<1>6. EmptiedByGrant'
  <2> SUFFICES ASSUME ValidRate', NEW b \in Buckets, NEW c \in Clients,
                      Belongs(b, c)', heap'[b].tokens = 0
               PROVE  sinceGrant'[c] <= heap'[b].sinceRefill
    BY DEF EmptiedByGrant
  <2>0. ValidRate /\ Belongs(b, c)
    BY <1>0 DEF ValidRate, Belongs
  <2>1. Live(b)
    BY <2>0 DEF Belongs, Live, Held
  <2>2. sinceGrant[c] <= heap[b].sinceRefill
    BY <1>0, <1>1, <2>0 DEF EmptiedByGrant
  <2>3. heap'[b].sinceRefill = Older(heap[b].sinceRefill, MaxAge)
    BY <1>1, <2>1
  <2>4. /\ heap[b].sinceRefill \in Int /\ heap[b].sinceRefill <= MaxAge
        /\ sinceGrant[c] \in Int /\ sinceGrant[c] <= TicksPerSecond
        /\ TicksPerSecond <= MaxAge /\ MaxAge \in Int /\ TicksPerSecond \in Int
        /\ sinceGrant'[c] = Older(sinceGrant[c], TicksPerSecond)
    BY <1>0, <1>2, HeapTyped, Constants
  <2> QED BY <2>2, <2>3, <2>4 DEF Older
<1>7. AccessAfterRefill'
  <2> SUFFICES ASSUME NEW b \in Buckets
               PROVE  heap'[b].sinceAccess <= heap'[b].sinceRefill
    BY DEF AccessAfterRefill
  <2>1. heap[b].sinceAccess <= heap[b].sinceRefill
    BY <1>0 DEF AccessAfterRefill
  <2>2. /\ heap[b].sinceRefill \in Int /\ heap[b].sinceAccess \in Int
        /\ heap[b].sinceRefill <= MaxAge /\ MaxAge \in Int
    BY <1>0, HeapTyped, Constants
  <2> QED BY <1>1, <2>1, <2>2 DEF Older
<1>8. CreditCovers'
  <2> SUFFICES ASSUME ValidRate', Full' <= BucketTTL + 1, NEW c \in Clients
               PROVE  Covered(c)'
    BY DEF CreditCovers
  <2>0. Full' = Full /\ ValidRate' = ValidRate
    BY <1>0 DEF Full, ValidRate
  <2>1. Covered(c)
    BY <1>0, <2>0 DEF CreditCovers
  <2>3. /\ rate * TicksPerSecond \in Int /\ Full \in Int
        /\ rate * TicksPerSecond <= Full
    <3>1. /\ rate * TicksPerSecond \in Int /\ Full \in Int
          /\ rate * TicksPerSecond + TicksPerSecond - 1 = Full
          /\ TicksPerSecond \in Nat \ {0}
      BY <1>0, Products, RateIsInt, Constants
    <3> QED BY <3>1
  <2>4. /\ credit[c] \in Int /\ credit'[c] \in Int
        /\ credit[c] <= credit'[c]
        /\ credit[c] < Full => credit'[c] = credit[c] + 1
    BY <1>2, <2>3 DEF Older
  <2>5. CASE buckets[c] = NoBucket
    <3>1. credit[c] >= rate * TicksPerSecond
      BY <2>1, <2>5, Constants DEF Covered
    <3>2. credit'[c] >= rate * TicksPerSecond
      BY <2>3, <2>4, <3>1
    <3> QED BY <1>0, <2>5, <3>2 DEF Covered
  <2>6. CASE buckets[c] \in Buckets /\ credit[c] >= Full
    <3>1. credit'[c] >= Full
      BY <2>3, <2>4, <2>6
    <3> QED BY <1>0, <2>0, <2>6, <3>1 DEF Covered
  <2>7. CASE buckets[c] \in Buckets /\ credit[c] < Full
    <3> DEFINE b == buckets[c]
               product == heap[b].tokens * TicksPerSecond
    <3>1. credit[c] >= product + heap[b].sinceRefill
      <4>1. ~(credit[c] >= Full)
        BY <2>3, <2>4, <2>7
      <4> QED BY <2>1, <2>7, <4>1, Constants DEF Covered
    <3>2. /\ heap[b].sinceRefill \in Int /\ product \in Int
      BY <1>0, <2>7, HeapTyped, Products
    <3>3. /\ heap'[b].sinceRefill <= heap[b].sinceRefill + 1
          /\ heap'[b].sinceRefill \in Int
      <4>1. \/ heap'[b].sinceRefill = heap[b].sinceRefill
            \/ heap'[b].sinceRefill = Older(heap[b].sinceRefill, MaxAge)
        BY <1>1, <2>7
      <4>2. MaxAge \in Int
        BY Constants
      <4> HIDE DEF b
      <4> QED BY <3>2, <4>1, <4>2 DEF Older
    <3>4. heap'[b].tokens * TicksPerSecond = product
      BY <1>1, <2>7
    <3>5. credit'[c] >= product + heap'[b].sinceRefill
      <4> HIDE DEF product, b
      <4> QED BY <2>4, <2>7, <3>1, <3>2, <3>3
    <3>6. credit'[c] >= heap'[b].tokens * TicksPerSecond + heap'[b].sinceRefill
      <4> HIDE DEF product, b
      <4> QED BY <3>4, <3>5
    <3> QED BY <1>0, <2>7, <3>6 DEF Covered
  <2>8. buckets[c] \in Buckets \union {NoBucket}
    BY <1>0 DEF TypeOK
  <2> QED BY <2>3, <2>4, <2>5, <2>6, <2>7, <2>8
<1> QED BY <1>3, <1>4, <1>5, <1>6, <1>7, <1>8 DEF IInv

\* A request that finds its client's bucket, or that makes one at a free address.
LEMMA FindBucketIInv ==
    ASSUME IInv, NEW r \in Requests, FindBucket(r)
    PROVE  IInv'
<1> DEFINE c == request[r].client
<1>0. /\ TypeOK /\ RequestsSound /\ OneOwner /\ EmptiedByGrant
      /\ AccessAfterRefill /\ CreditCovers
      /\ rate' = rate /\ limiter' = limiter /\ cleaner' = cleaner
      /\ sinceTick' = sinceTick /\ sinceGrant' = sinceGrant /\ credit' = credit
      /\ request[r].pc = "found"
  BY DEF IInv, FindBucket, history
<1>1. /\ request \in [Requests -> Request]
      /\ buckets \in [Clients -> Buckets \union {NoBucket}]
      /\ heap \in [Buckets -> Bucket]
      /\ Bucket' = Bucket /\ Request' = Request
  BY <1>0 DEF TypeOK, Bucket, Request
<1>2. c \in Clients /\ request[r].bucket = NoBucket
  BY <1>0 DEF RequestsSound
<1>3. ASSUME NEW b \in Buckets,
             request' = [request EXCEPT ![r].pc = "holds", ![r].bucket = b]
      PROVE  /\ request' \in [Requests -> Request]
             /\ RequestsSound'
             /\ request'[r].bucket = b /\ request'[r].client = c
             /\ \A q \in Requests : q # r => request'[q] = request[q]
  <2>1. /\ request' = [request EXCEPT ![r] = request'[r]]
        /\ request'[r] = [request[r] EXCEPT !.pc = "holds", !.bucket = b]
        /\ request[r] \in Request
    BY <1>1, <1>3
  <2>2. /\ request'[r] \in Request
        /\ request'[r].pc = "holds" /\ request'[r].bucket = b
        /\ request'[r].client = c
    BY <2>1 DEF Request
  <2>3. \A q \in Requests : q # r => request'[q] = request[q]
    BY <1>1, <2>1
  <2> HIDE DEF c
  <2>4. request' \in [Requests -> Request]
    BY <1>1, <2>1, <2>2
  <2>5. RequestsSound'
    <3> SUFFICES ASSUME NEW q \in Requests
                 PROVE  /\ request'[q].pc \in {"found", "holds"}
                               => request'[q].client \in Clients
                        /\ IF request'[q].pc = "holds"
                           THEN request'[q].bucket \in Buckets
                           ELSE request'[q].bucket = NoBucket
      BY DEF RequestsSound
    <3>1. CASE q = r
      BY <1>2, <2>2, <3>1
    <3>2. CASE q # r
      BY <1>0, <2>3, <3>2 DEF RequestsSound
    <3> QED BY <3>1, <3>2
  <2> QED BY <2>2, <2>3, <2>4, <2>5
<1>4. CASE /\ buckets[c] # NoBucket
           /\ request' = [request EXCEPT ![r].pc = "holds", ![r].bucket = buckets[c]]
           /\ UNCHANGED <<buckets, heap>>
  <2>1. buckets[c] \in Buckets
    BY <1>1, <1>2, <1>4
  <2>2. /\ request' \in [Requests -> Request] /\ RequestsSound'
        /\ request'[r].bucket = buckets[c] /\ request'[r].client = c
        /\ \A q \in Requests : q # r => request'[q] = request[q]
    BY <1>3, <1>4, <2>1
  <2> HIDE DEF c
  <2>3. TypeOK'
    BY <1>0, <1>1, <1>4, <2>2 DEF TypeOK
  <2>4. \A b \in Buckets, d \in Clients : Belongs(b, d)' => Belongs(b, d)
    <3> SUFFICES ASSUME NEW b \in Buckets, NEW d \in Clients, Belongs(b, d)'
                 PROVE  Belongs(b, d)
      OBVIOUS
    <3>1. CASE buckets'[d] = b
      BY <1>4, <3>1 DEF Belongs
    <3>2. ASSUME NEW q \in Requests, request'[q].bucket = b, request'[q].client = d
          PROVE  Belongs(b, d)
      <4>1. CASE q = r
        BY <2>2, <3>2, <4>1 DEF Belongs
      <4>2. CASE q # r
        BY <2>2, <3>2, <4>2 DEF Belongs
      <4> QED BY <4>1, <4>2
    <3> QED BY <3>1, <3>2 DEF Belongs
  <2>5. OneOwner' /\ EmptiedByGrant' /\ AccessAfterRefill'
    BY <1>0, <1>4, <2>4, LeavesBuckets
  <2>6. CreditCovers'
    BY <1>0, <1>4, KeepsCredit
  <2> QED BY <2>2, <2>3, <2>5, <2>6 DEF IInv
<1>5. ASSUME buckets[c] = NoBucket,
             NEW b \in Buckets, ~Live(b),
             request' = [request EXCEPT ![r].pc = "holds", ![r].bucket = b],
             buckets' = [buckets EXCEPT ![c] = b],
             heap' = [heap EXCEPT ![b] =
                        [tokens |-> rate, sinceRefill |-> 0, sinceAccess |-> 0]]
      PROVE  IInv'
  <2>1. /\ request' \in [Requests -> Request] /\ RequestsSound'
        /\ request'[r].bucket = b /\ request'[r].client = c
        /\ \A q \in Requests : q # r => request'[q] = request[q]
    BY <1>3, <1>5
  <2>2. /\ buckets'[c] = b
        /\ \A d \in Clients : d # c => buckets'[d] = buckets[d]
        /\ buckets' \in [Clients -> Buckets \union {NoBucket}]
    BY <1>1, <1>2, <1>5
  <2>3. [tokens |-> rate, sinceRefill |-> 0, sinceAccess |-> 0] \in Bucket
    BY Constants DEF Bucket
  <2>4. /\ heap' \in [Buckets -> Bucket]
        /\ heap'[b].tokens = rate /\ heap'[b].sinceRefill = 0
        /\ heap'[b].sinceAccess = 0
        /\ \A x \in Buckets : x # b => heap'[x] = heap[x]
    BY <1>1, <1>5, <2>3
  <2>5. /\ \A d \in Clients : buckets[d] # b
        /\ \A q \in Requests : request[q].bucket # b
    BY <1>5 DEF Live, Held
  <2> HIDE DEF c
  <2>6. TypeOK'
    BY <1>0, <1>1, <2>1, <2>2, <2>4 DEF TypeOK
  <2>7. ASSUME NEW x \in Buckets, NEW d \in Clients, Belongs(x, d)'
        PROVE  IF x = b THEN d = c ELSE Belongs(x, d)
    <3>1. CASE buckets'[d] = x
      BY <2>2, <2>5, <3>1 DEF Belongs
    <3>2. ASSUME NEW q \in Requests, request'[q].bucket = x, request'[q].client = d
          PROVE  IF x = b THEN d = c ELSE Belongs(x, d)
      <4>1. CASE q = r
        BY <2>1, <3>2, <4>1
      <4>2. CASE q # r
        <5>1. request[q].bucket = x /\ request[q].client = d
          BY <2>1, <3>2, <4>2
        <5> QED BY <2>5, <5>1 DEF Belongs
      <4> QED BY <4>1, <4>2
    <3> QED BY <2>7, <3>1, <3>2 DEF Belongs
  <2>8. OneOwner'
    <3> SUFFICES ASSUME NEW x \in Buckets, NEW d \in Clients, NEW e \in Clients,
                        Belongs(x, d)', Belongs(x, e)'
                 PROVE  d = e
      BY DEF OneOwner
    <3>1. CASE x = b
      BY <2>7, <3>1
    <3>2. CASE x # b
      BY <1>0, <2>7, <3>2 DEF OneOwner
    <3> QED BY <3>1, <3>2
  <2>9. EmptiedByGrant'
    <3> SUFFICES ASSUME ValidRate', NEW x \in Buckets, NEW d \in Clients,
                        Belongs(x, d)', heap'[x].tokens = 0
                 PROVE  sinceGrant'[d] <= heap'[x].sinceRefill
      BY DEF EmptiedByGrant
    <3>1. rate > 0 /\ ValidRate
      BY <1>0 DEF ValidRate
    <3>2. x # b
      BY <1>0, <2>4, <3>1, RateIsInt
    <3> QED BY <1>0, <2>4, <2>7, <3>1, <3>2 DEF EmptiedByGrant
  <2>10. AccessAfterRefill'
    <3> SUFFICES ASSUME NEW x \in Buckets
                 PROVE  heap'[x].sinceAccess <= heap'[x].sinceRefill
      BY DEF AccessAfterRefill
    <3>1. CASE x = b
      BY <2>4, <3>1
    <3>2. CASE x # b
      BY <1>0, <2>4, <3>2 DEF AccessAfterRefill
    <3> QED BY <3>1, <3>2
  <2>11. CreditCovers'
    <3> SUFFICES ASSUME ValidRate', Full' <= BucketTTL + 1, NEW d \in Clients
                 PROVE  Covered(d)'
      BY DEF CreditCovers
    <3>0. Full' = Full /\ ValidRate' = ValidRate
      BY <1>0 DEF Full, ValidRate
    <3>1. Covered(d)
      BY <1>0, <3>0 DEF CreditCovers
    <3>2. CASE d = c
      <4>1. credit[c] >= rate * TicksPerSecond
        BY <1>5, <3>1, <3>2, Constants DEF Covered
      <4>2. heap'[b].tokens * TicksPerSecond = rate * TicksPerSecond
        BY <2>4
      <4>3. /\ rate * TicksPerSecond \in Int /\ credit[c] \in Int
        BY <1>0, <3>2, Products DEF TypeOK
      <4>4. credit'[c] >= heap'[b].tokens * TicksPerSecond + heap'[b].sinceRefill
        BY <1>0, <2>4, <4>1, <4>2, <4>3
      <4> QED BY <2>2, <3>2, <4>4 DEF Covered
    <3>3. CASE d # c
      <4>1. buckets'[d] = buckets[d] /\ buckets[d] # b
        BY <2>2, <2>5, <3>3
      <4>2. buckets[d] \in Buckets => heap'[buckets[d]] = heap[buckets[d]]
        BY <2>4, <4>1
      <4> QED BY <1>0, <3>0, <3>1, <4>1, <4>2 DEF Covered
    <3> QED BY <3>2, <3>3
  <2> QED BY <2>1, <2>6, <2>8, <2>9, <2>10, <2>11 DEF IInv
<1> QED BY <1>4, <1>5 DEF FindBucket

\* A clean-up removes only buckets that would be full by now.
LEMMA CleanupIInv ==
    ASSUME IInv, Cleanup
    PROVE  IInv'
<1>0. /\ TypeOK /\ RequestsSound /\ OneOwner /\ EmptiedByGrant
      /\ AccessAfterRefill /\ CreditCovers
      /\ rate' = rate /\ limiter' = limiter /\ cleaner' = cleaner
      /\ request' = request /\ sinceTick' = 0
      /\ sinceGrant' = sinceGrant /\ credit' = credit
  BY DEF IInv, Cleanup, history
<1>1. ASSUME NEW c \in Clients
      PROVE  /\ buckets'[c] = IF Removable(c) THEN NoBucket ELSE buckets[c]
             /\ buckets[c] \in Buckets \union {NoBucket}
  BY <1>0 DEF Cleanup, TypeOK
<1>2. ASSUME NEW b \in Buckets
      PROVE  heap'[b] = IF Held(b) \/ \E c \in Clients : buckets[c] = b /\ ~Removable(c)
                        THEN heap[b] ELSE Unused
  BY DEF Cleanup
<1>3. TypeOK'
  <2>1. Unused \in Bucket
    BY Constants DEF Unused, Bucket
  <2>2. heap' \in [Buckets -> Bucket]
    <3>1. heap' = [b \in Buckets |-> heap'[b]]
      BY DEF Cleanup
    <3>2. \A b \in Buckets : heap'[b] \in Bucket
      BY <1>0, <1>2, <2>1 DEF TypeOK
    <3> QED BY <3>1, <3>2
  <2>3. buckets' \in [Clients -> Buckets \union {NoBucket}]
    <3>1. buckets' = [c \in Clients |-> buckets'[c]]
      BY DEF Cleanup
    <3> QED BY <1>1, <3>1
  <2>4. 0 \in 0 .. CleanupPeriod
    BY Constants
  <2>5. Bucket' = Bucket /\ Request' = Request
    BY <1>0 DEF Bucket, Request
  <2> QED BY <1>0, <2>2, <2>3, <2>4, <2>5 DEF TypeOK
<1>4. RequestsSound'
  BY <1>0 DEF RequestsSound
<1>5. ASSUME NEW b \in Buckets, NEW c \in Clients, Belongs(b, c)'
      PROVE  Belongs(b, c) /\ heap'[b] = heap[b]
  <2>1. CASE buckets'[c] = b
    BY <1>1, <1>2, <2>1, Constants DEF Belongs
  <2>2. CASE \E q \in Requests : request[q].bucket = b /\ request[q].client = c
    BY <1>2, <2>2 DEF Belongs, Held
  <2> QED BY <1>0, <1>5, <2>1, <2>2 DEF Belongs
<1>6. OneOwner'
  BY <1>0, <1>5 DEF OneOwner
<1>7. EmptiedByGrant'
  BY <1>0, <1>5 DEF EmptiedByGrant, ValidRate
<1>8. AccessAfterRefill'
  <2> SUFFICES ASSUME NEW b \in Buckets
               PROVE  heap'[b].sinceAccess <= heap'[b].sinceRefill
    BY DEF AccessAfterRefill
  <2>1. heap'[b] = heap[b] \/ heap'[b] = Unused
    BY <1>2
  <2> QED BY <1>0, <2>1 DEF AccessAfterRefill, Unused
<1>9. CreditCovers'
  <2> SUFFICES ASSUME ValidRate', Full' <= BucketTTL + 1, NEW c \in Clients
               PROVE  Covered(c)'
    BY DEF CreditCovers
  <2>0. Full' = Full /\ ValidRate' = ValidRate /\ ValidRate
    BY <1>0 DEF Full, ValidRate
  <2>1. Covered(c)
    BY <1>0, <2>0 DEF CreditCovers
  <2>2. CASE ~Removable(c)
    <3>1. buckets'[c] = buckets[c]
      BY <1>1, <2>2
    <3>2. buckets[c] \in Buckets => heap'[buckets[c]] = heap[buckets[c]]
      BY <1>2, <2>2
    <3> QED BY <1>0, <2>0, <2>1, <3>1, <3>2 DEF Covered
  <2>3. CASE Removable(c)
    <3> DEFINE b == buckets[c]
               product == heap[b].tokens * TicksPerSecond
    <3>1. buckets'[c] = NoBucket /\ b \in Buckets /\ heap[b].sinceAccess > BucketTTL
      BY <1>1, <2>3 DEF Removable
    <3>2. /\ heap[b].sinceAccess \in Int /\ heap[b].sinceRefill \in Int
          /\ heap[b].sinceAccess <= heap[b].sinceRefill
          /\ heap[b].tokens \in Int /\ heap[b].tokens >= 0
      BY <1>0, <2>0, <3>1, HeapTyped DEF AccessAfterRefill, ValidRate
    <3>3. /\ BucketTTL \in Int /\ Full \in Int /\ rate * TicksPerSecond \in Int
          /\ rate * TicksPerSecond <= Full
          /\ credit[c] \in Int
      <4>1. /\ rate * TicksPerSecond \in Int /\ Full \in Int
            /\ rate * TicksPerSecond + TicksPerSecond - 1 = Full
            /\ TicksPerSecond \in Nat \ {0} /\ BucketTTL \in Int
        BY <1>0, Products, RateIsInt, Constants
      <4> QED BY <1>0, <4>1 DEF TypeOK
    <3>4. product \in Int /\ product >= 0
      <4>1. 0 * TicksPerSecond <= product
        BY <3>2, Monotone, Constants
      <4> QED BY <3>2, <4>1, Constants
    <3>5. heap[b].sinceRefill >= Full
      <4> HIDE DEF b
      <4> QED BY <2>0, <3>1, <3>2, <3>3
    <3>6. credit[c] >= Full
          \/ credit[c] >= product + heap[b].sinceRefill
      BY <2>1, <3>1, Constants DEF Covered
    <3>7. credit[c] >= rate * TicksPerSecond
      <4> HIDE DEF product, b
      <4> QED BY <3>2, <3>3, <3>4, <3>5, <3>6
    <3> QED BY <1>0, <3>1, <3>7 DEF Covered
  <2> QED BY <2>2, <2>3
<1> QED BY <1>3, <1>4, <1>6, <1>7, <1>8, <1>9 DEF IInv

\* What consume's refill leaves of the credit's head start.
LEMMA RefillCovered ==
    ASSUME TypeOK, ValidRate, NEW b \in Buckets, NEW bucket, bucket = Refilled(heap[b])
    PROVE  /\ bucket.tokens \in Int /\ bucket.sinceRefill \in Int
           /\ bucket.tokens >= 0 /\ bucket.tokens <= rate
           /\ bucket.sinceRefill >= 0 /\ bucket.sinceRefill < TicksPerSecond
           /\ bucket.tokens * TicksPerSecond + bucket.sinceRefill
                  <= heap[b].tokens * TicksPerSecond + heap[b].sinceRefill
           /\ bucket.tokens = 0 => /\ heap[b].tokens = 0
                                   /\ heap[b].sinceRefill < TicksPerSecond
                                   /\ bucket.sinceRefill = heap[b].sinceRefill
<1>1. /\ rate \in Int /\ rate > 0 /\ TicksPerSecond \in Nat \ {0}
      /\ heap[b] \in Bucket /\ heap[b].sinceRefill \in Int
      /\ heap[b].sinceRefill >= 0
      /\ heap[b].tokens * TicksPerSecond \in Int
  BY RateIsInt, HeapTyped, Products, Constants DEF ValidRate
<1>2. bucket \in Bucket
  BY <1>1, RefilledFacts
<1>3. /\ bucket.tokens \in Int /\ bucket.sinceRefill \in Int
      /\ bucket.tokens >= 0 /\ bucket.tokens <= rate /\ bucket.sinceRefill >= 0
  BY <1>1, <1>2, Constants DEF Bucket
<1>4. \/ /\ bucket.tokens = heap[b].tokens
         /\ bucket.sinceRefill = heap[b].sinceRefill
         /\ heap[b].sinceRefill < TicksPerSecond
      \/ /\ bucket.sinceRefill = 0
         /\ bucket.tokens > 0
         /\ bucket.tokens * TicksPerSecond
                <= heap[b].tokens * TicksPerSecond + heap[b].sinceRefill
  BY <1>1, RefilledFacts
<1>5. bucket.tokens * TicksPerSecond \in Int
  BY <1>1, <1>3
<1>6. bucket.tokens * TicksPerSecond + bucket.sinceRefill
          <= heap[b].tokens * TicksPerSecond + heap[b].sinceRefill
  <2>1. CASE bucket.tokens = heap[b].tokens /\ bucket.sinceRefill = heap[b].sinceRefill
    BY <1>1, <1>5, <2>1
  <2>2. CASE /\ bucket.sinceRefill = 0
             /\ bucket.tokens * TicksPerSecond
                    <= heap[b].tokens * TicksPerSecond + heap[b].sinceRefill
    <3> DEFINE m == bucket.tokens * TicksPerSecond
               n == heap[b].tokens * TicksPerSecond
    <3>1. m \in Int /\ n \in Int /\ m <= n + heap[b].sinceRefill
      BY <1>1, <1>5, <2>2
    <3> HIDE DEF m, n
    <3>2. m + bucket.sinceRefill <= n + heap[b].sinceRefill
      BY <1>1, <2>2, <3>1
    <3> QED BY <3>2 DEF m, n
  <2> QED BY <1>4, <2>1, <2>2
<1>7. bucket.sinceRefill < TicksPerSecond
  BY <1>1, <1>4
<1>8. bucket.tokens = 0 => /\ heap[b].tokens = 0
                           /\ heap[b].sinceRefill < TicksPerSecond
                           /\ bucket.sinceRefill = heap[b].sinceRefill
  BY <1>3, <1>4
<1> QED BY <1>3, <1>6, <1>7, <1>8

\* Taking a token costs the client's credit as much as the bucket of the map.
LEMMA ConsumeIInv ==
    ASSUME IInv, NEW r \in Requests, Consume(r)
    PROVE  IInv'
<1>0. /\ TypeOK /\ RequestsSound /\ OneOwner /\ EmptiedByGrant
      /\ AccessAfterRefill /\ CreditCovers
  BY DEF IInv
<1> SUFFICES ASSUME NEW c, NEW b, NEW bucket, NEW left,
                    c = request[r].client, b = request[r].bucket,
                    bucket = Refilled(heap[b]),
                    left = IF bucket.tokens > 0 THEN [bucket EXCEPT !.tokens = @ - 1]
                           ELSE bucket
             PROVE  IInv'
  OBVIOUS
<1> DEFINE granted == bucket.tokens > 0
           live == \/ \E d \in Clients : buckets[d] = b
                   \/ \E q \in Requests : request'[q].bucket = b
           next == [pc |-> "idle", client |-> c, bucket |-> NoBucket,
                    answer |-> IF granted THEN "allowed" ELSE "refused"]
<1>1. /\ c \in Clients /\ b \in Buckets /\ Belongs(b, c)
      /\ rate' = rate /\ buckets' = buckets
      /\ bucket \in Bucket /\ left \in Bucket
      /\ left.sinceRefill = bucket.sinceRefill
      /\ left.sinceAccess = 0
      /\ left.tokens = IF granted THEN bucket.tokens - 1 ELSE bucket.tokens
      /\ heap' \in [Buckets -> Bucket]
      /\ \A x \in Buckets : heap'[x] = IF x # b THEN heap[x]
                                       ELSE IF live THEN left ELSE Unused
  <2> USE DEF Consume
  <2>1. c \in Clients /\ b \in Buckets /\ Belongs(b, c)
    BY <1>0 DEF RequestsSound, Belongs
  <2>2. heap \in [Buckets -> Bucket] /\ heap[b] \in Bucket
    BY <1>0, <2>1 DEF TypeOK
  <2>3. rate \in Int /\ Unused \in Bucket
    BY <1>0, RateIsInt, Constants DEF Unused, Bucket
  <2>4. bucket \in Bucket /\ bucket.sinceAccess = 0
    BY <2>2, <2>3, RefilledFacts
  <2>5. /\ bucket.tokens \in Int
        /\ bucket.tokens > 0 => bucket.tokens - 1 \in {0, rate} \union (0 .. rate)
    BY <2>3, <2>4 DEF Bucket
  <2>6. /\ left \in Bucket
        /\ left.sinceRefill = bucket.sinceRefill /\ left.sinceAccess = 0
        /\ left.tokens = IF bucket.tokens > 0 THEN bucket.tokens - 1 ELSE bucket.tokens
    BY <2>4, <2>5 DEF Bucket
  <2>7. heap' = Collect([heap EXCEPT ![b] = left], b)
    OBVIOUS
  <2>8. \/ /\ \/ \E d \in Clients : buckets[d] = b
              \/ \E q \in Requests : request'[q].bucket = b
           /\ heap' = [heap EXCEPT ![b] = left]
        \/ /\ ~ \/ \E d \in Clients : buckets[d] = b
                \/ \E q \in Requests : request'[q].bucket = b
           /\ heap' = [heap EXCEPT ![b] = Unused]
    <3>1. [[heap EXCEPT ![b] = left] EXCEPT ![b] = Unused] = [heap EXCEPT ![b] = Unused]
      BY <2>1, <2>2
    <3> QED BY <2>7, <3>1 DEF Collect
  <2>9. rate' = rate /\ buckets' = buckets
    OBVIOUS
  <2> HIDE DEF Consume
  <2>10. /\ heap' \in [Buckets -> Bucket]
         /\ \A x \in Buckets : heap'[x] = IF x # b THEN heap[x]
                     ELSE IF \/ \E d \in Clients : buckets[d] = b
                             \/ \E q \in Requests : request'[q].bucket = b
                          THEN left ELSE Unused
    BY <2>1, <2>2, <2>3, <2>6, <2>8
  <2> QED BY <2>1, <2>4, <2>6, <2>9, <2>10
<1>2. /\ limiter' = limiter /\ cleaner' = cleaner /\ sinceTick' = sinceTick
      /\ request' = [request EXCEPT ![r] = next]
      /\ sinceGrant' = IF granted THEN [sinceGrant EXCEPT ![c] = 0] ELSE sinceGrant
      /\ credit' = IF granted /\ buckets[c] = b
                   THEN [credit EXCEPT ![c] = @ - TicksPerSecond] ELSE credit
  BY DEF Consume
<1> HIDE DEF granted
<1>3. ASSUME NEW q \in Requests
      PROVE  request'[q] = IF q = r THEN next ELSE request[q]
  BY <1>0, <1>2 DEF TypeOK
<1>4. ASSUME NEW d \in Clients
      PROVE  /\ sinceGrant'[d] = IF granted /\ d = c THEN 0 ELSE sinceGrant[d]
             /\ sinceGrant[d] \in 0 .. TicksPerSecond
             /\ credit[d] \in Int
             /\ credit'[d] = IF granted /\ d = c /\ buckets[c] = b
                             THEN credit[d] - TicksPerSecond ELSE credit[d]
  BY <1>0, <1>2 DEF TypeOK
<1> HIDE DEF live
<1>5. TypeOK'
  <2>1. next \in Request
    BY <1>1 DEF Request
  <2>2. request' \in [Requests -> Request]
    BY <1>0, <1>2, <2>1 DEF TypeOK
  <2>3. sinceGrant' \in [Clients -> 0 .. TicksPerSecond]
    BY <1>0, <1>1, <1>2, Constants DEF TypeOK
  <2>4. credit' \in [Clients -> Int]
    BY <1>0, <1>1, <1>2, Constants DEF TypeOK
  <2>5. Bucket' = Bucket /\ Request' = Request
    BY <1>1 DEF Bucket, Request
  <2> QED BY <1>0, <1>1, <1>2, <2>2, <2>3, <2>4, <2>5 DEF TypeOK
<1>6. RequestsSound'
  <2> SUFFICES ASSUME NEW q \in Requests
               PROVE  /\ request'[q].pc \in {"found", "holds"}
                             => request'[q].client \in Clients
                      /\ IF request'[q].pc = "holds"
                         THEN request'[q].bucket \in Buckets
                         ELSE request'[q].bucket = NoBucket
    BY DEF RequestsSound
  <2>1. CASE q = r
    BY <1>3, <2>1
  <2>2. CASE q # r
    BY <1>0, <1>3, <2>2 DEF RequestsSound
  <2> QED BY <2>1, <2>2
<1>7. ASSUME NEW x \in Buckets, NEW d \in Clients, Belongs(x, d)'
      PROVE  Belongs(x, d) /\ heap'[x] = IF x = b THEN left ELSE heap[x]
  <2>1. CASE buckets'[d] = x
    BY <1>1, <2>1 DEF Belongs, live
  <2>2. ASSUME NEW q \in Requests, request'[q].bucket = x, request'[q].client = d
        PROVE  Belongs(x, d) /\ heap'[x] = IF x = b THEN left ELSE heap[x]
    <3>1. q # r
      BY <1>3, <2>2, Constants
    <3>2. request[q].bucket = x /\ request[q].client = d
      BY <1>3, <2>2, <3>1
    <3> QED BY <1>1, <2>2, <3>2 DEF Belongs, live
  <2> QED BY <1>7, <2>1, <2>2 DEF Belongs
<1>8. OneOwner'
  BY <1>0, <1>7 DEF OneOwner
<1>9. EmptiedByGrant'
  <2> SUFFICES ASSUME ValidRate', NEW x \in Buckets, NEW d \in Clients,
                      Belongs(x, d)', heap'[x].tokens = 0
               PROVE  sinceGrant'[d] <= heap'[x].sinceRefill
    BY DEF EmptiedByGrant
  <2>0. ValidRate
    BY <1>1 DEF ValidRate
  <2>1. /\ heap[x].sinceRefill \in Int /\ heap[x].sinceRefill >= 0
        /\ sinceGrant[d] \in Int /\ sinceGrant[d] >= 0
    BY <1>0, <1>4, HeapTyped, Constants
  <2>2. CASE x # b
    <3>1. sinceGrant[d] <= heap[x].sinceRefill
      BY <1>0, <1>7, <2>0, <2>2 DEF EmptiedByGrant
    <3> QED BY <1>4, <1>7, <2>1, <2>2, <3>1
  <2>3. CASE x = b
    <3>1. d = c
      BY <1>0, <1>1, <1>7, <2>3 DEF OneOwner
    <3>2. heap'[x].sinceRefill = bucket.sinceRefill /\ heap'[x].tokens = left.tokens
      BY <1>1, <1>7, <2>3
    <3>3. /\ bucket.tokens \in Int /\ bucket.sinceRefill \in Int
          /\ bucket.tokens >= 0 /\ bucket.sinceRefill >= 0
          /\ bucket.tokens = 0 => /\ heap[b].tokens = 0
                                  /\ bucket.sinceRefill = heap[b].sinceRefill
      BY <1>0, <1>1, <2>0, RefillCovered
    <3>4. CASE granted
      BY <1>4, <3>1, <3>2, <3>3, <3>4
    <3>5. CASE ~granted
      <4>1. bucket.tokens = 0
        BY <1>1, <3>2, <3>5
      <4>2. sinceGrant[d] <= heap[b].sinceRefill
        BY <1>0, <1>7, <2>0, <2>3, <3>3, <4>1 DEF EmptiedByGrant
      <4> QED BY <1>4, <3>2, <3>3, <3>5, <4>1, <4>2
    <3> QED BY <3>4, <3>5
  <2> QED BY <2>2, <2>3
<1>10. AccessAfterRefill'
  <2> SUFFICES ASSUME NEW x \in Buckets
               PROVE  heap'[x].sinceAccess <= heap'[x].sinceRefill
    BY DEF AccessAfterRefill
  <2>1. CASE x # b
    BY <1>0, <1>1, <2>1 DEF AccessAfterRefill
  <2>2. CASE x = b /\ live
    <3>1. heap'[x] = left /\ left \in Bucket /\ left.sinceAccess = 0
      BY <1>1, <2>2
    <3>2. left.sinceRefill \in 0 .. MaxAge
      BY <3>1 DEF Bucket
    <3> QED BY <3>1, <3>2, Constants
  <2>3. CASE x = b /\ ~live
    BY <1>1, <2>3 DEF Unused
  <2> QED BY <2>1, <2>2, <2>3
<1>11. CreditCovers'
  <2> SUFFICES ASSUME ValidRate', Full' <= BucketTTL + 1, NEW d \in Clients
               PROVE  Covered(d)'
    BY DEF CreditCovers
  <2>0. Full' = Full /\ ValidRate
    BY <1>1 DEF Full, ValidRate
  <2>1. Covered(d)
    BY <1>0, <2>0 DEF CreditCovers
  <2>2. CASE buckets[d] # b
    <3>1. credit'[d] = credit[d]
      BY <1>4, <2>2
    <3>2. buckets[d] \in Buckets => heap'[buckets[d]] = heap[buckets[d]]
      BY <1>1, <2>2
    <3> QED BY <1>1, <2>0, <2>1, <3>1, <3>2 DEF Covered
  <2>3. CASE buckets[d] = b
    <3> DEFINE m == bucket.tokens * TicksPerSecond
    <3>1. d = c
      BY <1>0, <1>1, <2>3 DEF OneOwner, Belongs
    <3>2. heap'[b] = left
      BY <1>1, <2>3 DEF live
    <3>3. /\ bucket.tokens \in Int /\ bucket.sinceRefill \in Int
          /\ bucket.tokens <= rate
          /\ bucket.sinceRefill < TicksPerSecond
          /\ m + bucket.sinceRefill
                 <= heap[b].tokens * TicksPerSecond + heap[b].sinceRefill
      BY <1>0, <1>1, <2>0, RefillCovered
    <3>4. /\ TicksPerSecond \in Nat \ {0} /\ Full \in Int /\ rate \in Int
          /\ rate * TicksPerSecond \in Int
          /\ rate * TicksPerSecond + TicksPerSecond - 1 = Full
          /\ heap[b].tokens * TicksPerSecond \in Int
          /\ heap[b].sinceRefill \in Int
      BY <1>0, <1>1, Products, RateIsInt, Constants, HeapTyped
    <3>5. m \in Int /\ m <= rate * TicksPerSecond
      <4> HIDE DEF m
      <4>1. bucket.tokens * TicksPerSecond <= rate * TicksPerSecond
        BY <3>3, <3>4, Monotone
      <4>2. bucket.tokens * TicksPerSecond \in Int
        BY <3>3, <3>4
      <4> QED BY <4>1, <4>2 DEF m
    <3>6. /\ left.sinceRefill = bucket.sinceRefill
          /\ left.tokens * TicksPerSecond
                 = IF granted THEN m - TicksPerSecond ELSE m
      <4>1. (bucket.tokens + (-1)) * TicksPerSecond = m + (-1) * TicksPerSecond
        BY <3>3, <3>4, Distributes
      <4>2. (bucket.tokens - 1) * TicksPerSecond = m - TicksPerSecond
        BY <3>3, <3>4, <3>5, <4>1
      <4> HIDE DEF m
      <4>3. CASE granted
        BY <1>1, <4>2, <4>3
      <4>4. CASE ~granted
        BY <1>1, <4>4 DEF m
      <4> QED BY <1>1, <4>3, <4>4
    <3>7. credit[d] >= Full
          \/ credit[d] >= heap[b].tokens * TicksPerSecond + heap[b].sinceRefill
      BY <1>1, <2>1, <2>3, Constants DEF Covered
    <3>8. credit[d] >= Full \/ credit[d] >= m + bucket.sinceRefill
      <4> DEFINE n == heap[b].tokens * TicksPerSecond
      <4>1. n \in Int /\ m + bucket.sinceRefill <= n + heap[b].sinceRefill
        BY <3>3, <3>4
      <4>2. credit[d] >= Full \/ credit[d] >= n + heap[b].sinceRefill
        BY <3>7
      <4> HIDE DEF m, n
      <4> QED BY <1>4, <3>3, <3>4, <3>5, <4>1, <4>2
    <3>9. credit'[d] = IF granted THEN credit[d] - TicksPerSecond ELSE credit[d]
      BY <1>4, <2>3, <3>1
    <3>10. CASE granted
      <4> DEFINE n == left.tokens * TicksPerSecond
                 all == rate * TicksPerSecond
      <4>1. n = m - TicksPerSecond /\ all \in Int
        BY <3>4, <3>6, <3>10
      <4>2. all + TicksPerSecond - 1 = Full /\ m <= all
        BY <3>4, <3>5
      <4>3. credit'[d] >= n + bucket.sinceRefill
        <5> HIDE DEF n, m, all
        <5> QED BY <1>4, <3>3, <3>4, <3>5, <3>8, <3>9, <3>10, <4>1, <4>2
      <4> HIDE DEF m
      <4>4. credit'[d] >= heap'[b].tokens * TicksPerSecond + heap'[b].sinceRefill
        BY <3>2, <3>6, <4>3
      <4> QED BY <1>1, <2>3, <4>4 DEF Covered
    <3>11. CASE ~granted
      <4>1. credit'[d] >= Full
            \/ credit'[d] >= left.tokens * TicksPerSecond + left.sinceRefill
        <5> HIDE DEF m
        <5> QED BY <3>6, <3>8, <3>9, <3>11
      <4> HIDE DEF m
      <4> QED BY <1>1, <2>0, <2>3, <3>2, <4>1 DEF Covered
    <3> QED BY <3>10, <3>11
  <2> QED BY <2>2, <2>3
<1> QED BY <1>5, <1>6, <1>8, <1>9, <1>10, <1>11 DEF IInv

LEMMA NextIInv ==
    ASSUME IInv, [Next]_vars
    PROVE  IInv'
<1>1. ASSUME NEW r \in Requests, NEW c \in Clients, CheckRateLimit(r, c)
      PROVE  IInv'
  BY <1>1, CheckRateLimitIInv
<1>2. ASSUME NEW r \in Requests, NilLimiter(r)
      PROVE  IInv'
  BY <1>2, NilLimiterIInv
<1>3. ASSUME NEW r \in Requests, FindBucket(r)
      PROVE  IInv'
  BY <1>3, FindBucketIInv
<1>4. ASSUME NEW r \in Requests, Consume(r)
      PROVE  IInv'
  BY <1>4, ConsumeIInv
<1>5. CASE Cleanup
  BY <1>5, CleanupIInv
<1>6. CASE CleanerStops \/ Stop
  BY <1>6, FlagsIInv
<1>7. CASE Tick
  BY <1>7, TickIInv
<1>8. CASE UNCHANGED vars
  <2> USE <1>8 DEF vars, limiterVars, history
  <2>1. TypeOK'
    BY DEF IInv, TypeOK, Request, Bucket
  <2>2. RequestsSound'
    BY DEF IInv, RequestsSound
  <2>3. \A b \in Buckets, c \in Clients : Belongs(b, c)' => Belongs(b, c)
    BY DEF Belongs
  <2>4. OneOwner' /\ EmptiedByGrant' /\ AccessAfterRefill'
    BY <2>3, LeavesBuckets DEF IInv
  <2>5. CreditCovers'
    BY KeepsCredit DEF IInv
  <2> QED BY <2>1, <2>2, <2>4, <2>5 DEF IInv
<1> QED BY <1>1, <1>2, <1>3, <1>4, <1>5, <1>6, <1>7, <1>8 DEF Next, RequestStep

LEMMA Invariance == Spec => []IInv
<1>1. Init => IInv
  BY InitIInv
<1>2. IInv /\ [Next]_vars => IInv'
  BY NextIInv
<1> QED BY <1>1, <1>2, PTL DEF Spec

-----------------------------------------------------------------------------
(* The theorems.                                                            *)

\* The maps, buckets and requests of security.go's limiter keep their types.
THEOREM TypeCorrect == Spec => []TypeOK
<1>1. IInv => TypeOK
  BY DEF IInv
<1> QED BY <1>1, Invariance, PTL

\* Whatever the rate and however refills, clean-ups and new buckets interleave
\* with requests, the bucket of the map admits a client no more often than the
\* ideal token bucket (consume, cleanup and Allow of security.go).
THEOREM RateBoundedAlways == Spec => []RateBounded
<1>1. IInv => RateBounded
  <2> SUFFICES ASSUME IInv, ValidRate, Full <= BucketTTL + 1, NEW c \in Clients
               PROVE  credit[c] >= 0
    BY DEF RateBounded
  <2>1. TypeOK /\ Covered(c)
    BY DEF IInv, CreditCovers
  <2>2. /\ rate \in Int /\ rate > 0 /\ credit[c] \in Int
        /\ TicksPerSecond \in Nat \ {0}
        /\ rate * TicksPerSecond \in Int /\ Full \in Int
        /\ rate * TicksPerSecond + TicksPerSecond - 1 = Full
    BY <2>1, RateIsInt, Products, Constants DEF ValidRate, TypeOK
  <2>3. ASSUME NEW n \in Int, n >= 0
        PROVE  n * TicksPerSecond \in Int /\ n * TicksPerSecond >= 0
    <3>1. 0 * TicksPerSecond <= n * TicksPerSecond
      BY <2>2, <2>3, Monotone
    <3> QED BY <2>2, <2>3, <3>1
  <2>4. rate * TicksPerSecond >= 0 /\ Full >= 0
    <3>1. rate * TicksPerSecond >= 0
      BY <2>2, <2>3
    <3> DEFINE all == rate * TicksPerSecond
    <3> HIDE DEF all
    <3>2. all >= 0 /\ all \in Int /\ all + TicksPerSecond - 1 = Full
      BY <2>2, <3>1 DEF all
    <3> QED BY <2>2, <3>1, <3>2
  <2>5. CASE buckets[c] \in Buckets
    <3> DEFINE b == buckets[c]
               m == heap[b].tokens * TicksPerSecond
    <3>1. /\ heap[b].tokens \in Int /\ heap[b].tokens >= 0
          /\ heap[b].sinceRefill \in Int /\ heap[b].sinceRefill >= 0
      BY <2>1, <2>2, <2>5, HeapTyped
    <3>2. m \in Int /\ m >= 0
      BY <2>3, <3>1
    <3>3. credit[c] >= Full \/ credit[c] >= m + heap[b].sinceRefill
      BY <2>1, <2>5, Constants DEF Covered
    <3> HIDE DEF m, b
    <3> QED BY <2>2, <2>4, <3>1, <3>2, <3>3
  <2>6. CASE buckets[c] \notin Buckets
    <3>1. credit[c] >= rate * TicksPerSecond
      BY <2>1, <2>6 DEF Covered
    <3> DEFINE all == rate * TicksPerSecond
    <3>2. all \in Int /\ all >= 0 /\ credit[c] >= all
      BY <2>2, <2>4, <3>1
    <3> HIDE DEF all
    <3> QED BY <2>2, <3>2
  <2> QED BY <2>5, <2>6
<1> QED BY <1>1, Invariance, PTL

\* A client is refused only within a second of its last admission: the parts of
\* seconds that consume drops never add up to a starved client.
THEOREM RefusedSoon == Spec => RefusedSoonAfterGrant
<1> DEFINE Soon == \A r \in Requests :
               ValidRate /\ request'[r].answer = "refused" /\ request[r].answer = "none"
                   => sinceGrant[request[r].client] < TicksPerSecond
<1>1. IInv /\ [Next]_vars => [Soon]_vars
  <2> SUFFICES ASSUME IInv, Next, NEW q \in Requests, ValidRate,
                      request'[q].answer = "refused", request[q].answer = "none"
               PROVE  sinceGrant[request[q].client] < TicksPerSecond
    OBVIOUS
  <2>0. /\ TypeOK /\ RequestsSound /\ EmptiedByGrant
        /\ request \in [Requests -> Request]
    BY DEF IInv, TypeOK
  <2>1. ASSUME NEW r \in Requests, NEW c \in Clients, CheckRateLimit(r, c)
        PROVE  FALSE
    BY <2>0, <2>1 DEF CheckRateLimit
  <2>2. ASSUME NEW r \in Requests, NilLimiter(r)
        PROVE  FALSE
    BY <2>0, <2>2 DEF NilLimiter, Request
  <2>3. ASSUME NEW r \in Requests, FindBucket(r)
        PROVE  FALSE
    <3>1. \E b : request' = [request EXCEPT ![r].pc = "holds", ![r].bucket = b]
      BY <2>3 DEF FindBucket
    <3> QED BY <2>0, <3>1 DEF Request
  <2>4. CASE Cleanup \/ CleanerStops \/ Stop \/ Tick
    BY <2>4 DEF Cleanup, CleanerStops, Stop, Tick
  <2>5. ASSUME NEW r \in Requests, Consume(r)
        PROVE  sinceGrant[request[q].client] < TicksPerSecond
    <3> DEFINE c == request[r].client
               b == request[r].bucket
               bucket == Refilled(heap[b])
    <3>1. q = r /\ ~(bucket.tokens > 0)
      <4>1. request' = [request EXCEPT ![r] =
                [pc |-> "idle", client |-> c, bucket |-> NoBucket,
                 answer |-> IF bucket.tokens > 0 THEN "allowed" ELSE "refused"]]
        BY <2>5 DEF Consume
      <4> HIDE DEF bucket, c
      <4>2. q = r
        BY <2>0, <4>1
      <4> QED BY <2>0, <4>1, <4>2
    <3>2. c \in Clients /\ b \in Buckets /\ Belongs(b, c)
      BY <2>0, <2>5 DEF Consume, RequestsSound, Belongs
    <3>3. /\ bucket.tokens \in Int /\ bucket.tokens >= 0
          /\ bucket.tokens = 0 => /\ heap[b].tokens = 0
                                  /\ heap[b].sinceRefill < TicksPerSecond
      BY <2>0, <3>2, RefillCovered
    <3>4. heap[b].tokens = 0 /\ heap[b].sinceRefill < TicksPerSecond
      BY <3>1, <3>3
    <3>5. sinceGrant[c] <= heap[b].sinceRefill
      BY <2>0, <3>2, <3>4 DEF EmptiedByGrant
    <3>6. sinceGrant[c] \in Int /\ heap[b].sinceRefill \in Int /\ TicksPerSecond \in Int
      BY <2>0, <3>2, HeapTyped, Constants DEF TypeOK
    <3> QED BY <3>1, <3>4, <3>5, <3>6
  <2> QED BY <2>1, <2>2, <2>3, <2>4, <2>5 DEF Next, RequestStep
<1> QED BY <1>1, Invariance, PTL DEF Spec, RefusedSoonAfterGrant

=============================================================================
