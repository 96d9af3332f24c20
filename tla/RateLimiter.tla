---------------------------- MODULE RateLimiter ----------------------------
(***************************************************************************)
(* SecurityManager's rate limiting of security.go: one token bucket for     *)
(* each client, a goroutine that removes the buckets of idle clients, and   *)
(* Stop.                                                                    *)
(*                                                                          *)
(* Allow finds the bucket under rl.mu and takes a token under the bucket's  *)
(* own lock.  Between the two the clean-up may remove the bucket and another *)
(* request of the client may make a new one: both are in use then, so a      *)
(* bucket is an object of its own here, found through the map or held by a   *)
(* request.  Time is counted in ticks, and a bucket keeps the ages of its    *)
(* last refill and last access instead of their times.                      *)
(***************************************************************************)
EXTENDS Integers, FiniteSets

CONSTANTS
    Clients,
    Requests,           \* goroutines that call CheckRateLimit
    Buckets,            \* addresses of TokenBucket objects
    Rates,              \* values of RateLimit to try
    TicksPerSecond,
    BucketTTL,          \* ticks without access after which a bucket is removed
    CleanupPeriod,      \* ticks between two values of cleanupTicker
    MaxAge,             \* ages are counted up to here
    NoClient, NoBucket

ASSUME RateLimiterAssumption ==
    /\ {TicksPerSecond, BucketTTL, CleanupPeriod, MaxAge} \subseteq Nat \ {0}
    /\ Rates \subseteq Int
    /\ MaxAge >= TicksPerSecond /\ MaxAge > BucketTTL
    /\ \A n \in Rates : n * TicksPerSecond <= MaxAge
    /\ NoClient \notin Clients /\ NoBucket \notin Buckets

VARIABLES
    rate,       \* rl.rate
    limiter,    \* sm.rateLimiter is not nil
    buckets,    \* rl.buckets: the address of each client's bucket
    heap,       \* the TokenBucket objects
    request,    \* the requests under way, and how the last ones were answered
    cleaner,    \* the clean-up goroutine, and whether stopCleanup is closed
    sinceTick,  \* age of the last value taken from cleanupTicker
    sinceGrant, \* history: age of each client's last admitted request
    credit      \* history: an ideal bucket that gains a part of a token a tick

limiterVars == <<rate, limiter, buckets, heap, request, cleaner, sinceTick>>
history     == <<sinceGrant, credit>>
vars        == <<limiterVars, history>>

Bucket  == [tokens      : {0, rate} \union (0 .. rate),  \* rate may be below 0
            sinceRefill : 0 .. MaxAge,
            sinceAccess : 0 .. MaxAge]
Request == [pc     : {"idle", "found", "holds"},
            client : Clients \union {NoClient},
            bucket : Buckets \union {NoBucket},
            answer : {"none", "allowed", "refused", "panic"}]

\* An address no object lives at.
Unused == [tokens |-> 0, sinceRefill |-> 0, sinceAccess |-> 0]

\* ValidateSecurityConfig's condition on the rate, which NewSecurityManager
\* does not ask for.
ValidRate == rate > 0

\* All tokens, and the part of a second a full bucket may have waited already.
Full == (rate + 1) * TicksPerSecond - 1

\* NewSecurityManager with rate limiting on or off.
Init ==
    /\ rate \in Rates
    /\ limiter \in BOOLEAN
    /\ buckets = [c \in Clients |-> NoBucket]
    /\ heap = [b \in Buckets |-> Unused]
    /\ request = [r \in Requests |-> [pc |-> "idle", client |-> NoClient,
                                      bucket |-> NoBucket, answer |-> "none"]]
    /\ cleaner = [running |-> limiter, stopClosed |-> FALSE]
    /\ sinceTick = 0
    /\ sinceGrant = [c \in Clients |-> TicksPerSecond]
    /\ credit = [c \in Clients |-> Full]

-----------------------------------------------------------------------------
(* A request: CheckRateLimit, Allow and consume.                            *)

Held(b) == \E r \in Requests : request[r].bucket = b
Live(b) == Held(b) \/ \E c \in Clients : buckets[c] = b

\* CheckRateLimit's first read of sm.rateLimiter, without sm.mu.
CheckRateLimit(r, c) ==
    /\ request[r].pc = "idle"
    /\ request' = [request EXCEPT ![r] =
          IF limiter
          THEN [pc |-> "found", client |-> c, bucket |-> NoBucket, answer |-> "none"]
          ELSE [pc |-> "idle", client |-> c, bucket |-> NoBucket, answer |-> "allowed"]]
    /\ UNCHANGED <<rate, limiter, buckets, heap, cleaner, sinceTick, history>>

\* The second read, which finds nil when Stop came between the two.  A build
\* that keeps the value of the first read goes on to FindBucket instead.
NilLimiter(r) ==
    /\ request[r].pc = "found"
    /\ ~limiter
    /\ request' = [request EXCEPT ![r].pc = "idle", ![r].answer = "panic"]
    /\ UNCHANGED <<rate, limiter, buckets, heap, cleaner, sinceTick, history>>

\* Allow under rl.mu.
FindBucket(r) ==
    LET c == request[r].client IN
    /\ request[r].pc = "found"
    /\ \/ /\ buckets[c] # NoBucket
          /\ request' = [request EXCEPT ![r].pc = "holds", ![r].bucket = buckets[c]]
          /\ UNCHANGED <<buckets, heap>>
       \/ /\ buckets[c] = NoBucket
          /\ \E b \in Buckets :
                /\ ~Live(b)
                /\ request' = [request EXCEPT ![r].pc = "holds", ![r].bucket = b]
                /\ buckets' = [buckets EXCEPT ![c] = b]
                /\ heap' = [heap EXCEPT ![b] =
                       [tokens |-> rate, sinceRefill |-> 0, sinceAccess |-> 0]]
    /\ UNCHANGED <<rate, limiter, cleaner, sinceTick, history>>

AtMost(n, m) == IF n <= m THEN n ELSE m

\* Mutant: lastRefill is set by every call, so that a client that asks more
\* than once a second is never given a new token.
RefilledAlways(bucket) ==
    LET tokensToAdd == bucket.sinceRefill \div TicksPerSecond IN
    [tokens |-> IF tokensToAdd > 0 THEN AtMost(rate, bucket.tokens + tokensToAdd)
                                   ELSE bucket.tokens,
     sinceRefill |-> 0, sinceAccess |-> 0]

\* Mutant: a refill leaves lastRefill alone.
RefilledTwice(bucket) ==
    LET tokensToAdd == bucket.sinceRefill \div TicksPerSecond IN
    [bucket EXCEPT !.tokens = AtMost(rate, @ + tokensToAdd), !.sinceAccess = 0]

\* Mutant: a refill beyond the capacity.
RefilledUncapped(bucket) ==
    LET tokensToAdd == bucket.sinceRefill \div TicksPerSecond IN
    [tokens |-> bucket.tokens + tokensToAdd, sinceAccess |-> 0,
     sinceRefill |-> IF tokensToAdd > 0 THEN 0 ELSE bucket.sinceRefill]

\* The refill in whole tokens, one for each second whatever the rate; what is
\* left of a second is lost.
Refilled(bucket) ==
    LET tokensToAdd == bucket.sinceRefill \div TicksPerSecond IN
    IF tokensToAdd > 0
    THEN [tokens |-> AtMost(rate, bucket.tokens + tokensToAdd),
          sinceRefill |-> 0, sinceAccess |-> 0]
    ELSE [bucket EXCEPT !.sinceAccess = 0]

\* An object that is neither in the map nor held is gone.
Collect(objects, b) ==
    IF \/ \E c \in Clients : buckets[c] = b
       \/ \E r \in Requests : request'[r].bucket = b
    THEN objects ELSE [objects EXCEPT ![b] = Unused]

\* consume under the bucket's lock; the bucket may have left the map.
Consume(r) ==
    LET c == request[r].client
        b == request[r].bucket
        bucket == Refilled(heap[b])
        granted == bucket.tokens > 0
    IN
    /\ request[r].pc = "holds"
    /\ request' = [request EXCEPT ![r] =
           [pc |-> "idle", client |-> c, bucket |-> NoBucket,
            answer |-> IF granted THEN "allowed" ELSE "refused"]]
    /\ heap' = Collect([heap EXCEPT ![b] =
           IF granted THEN [bucket EXCEPT !.tokens = @ - 1] ELSE bucket], b)
    /\ sinceGrant' = IF granted THEN [sinceGrant EXCEPT ![c] = 0] ELSE sinceGrant
    /\ credit' = IF granted /\ buckets[c] = b
                 THEN [credit EXCEPT ![c] = @ - TicksPerSecond] ELSE credit
    /\ UNCHANGED <<rate, limiter, buckets, cleaner, sinceTick>>

-----------------------------------------------------------------------------
(* Clean-up, Stop and time.                                                 *)

\* Mutant: only the bucket of a client that has used no token is removed.
RemovableWhenFull(c) ==
    /\ buckets[c] # NoBucket
    /\ heap[buckets[c]].sinceAccess > BucketTTL
    /\ heap[buckets[c]].tokens = rate

Removable(c) ==
    /\ buckets[c] # NoBucket
    /\ heap[buckets[c]].sinceAccess > BucketTTL

\* The goroutine takes a value from the ticker; cleanup runs under rl.mu and
\* does not ask whether a request holds the bucket.
Cleanup ==
    /\ cleaner.running
    /\ sinceTick = CleanupPeriod
    /\ sinceTick' = 0
    /\ buckets' = [c \in Clients |-> IF Removable(c) THEN NoBucket ELSE buckets[c]]
    /\ heap' = [b \in Buckets |->
           IF Held(b) \/ \E c \in Clients : buckets[c] = b /\ ~Removable(c)
           THEN heap[b] ELSE Unused]
    /\ UNCHANGED <<rate, limiter, request, cleaner, history>>

CleanerStops ==
    /\ cleaner.running
    /\ cleaner.stopClosed
    /\ cleaner' = [cleaner EXCEPT !.running = FALSE]
    /\ UNCHANGED <<rate, limiter, buckets, heap, request, sinceTick, history>>

\* Mutant: the manager forgets its limiter without stopping it.
StopForgets ==
    /\ limiter
    /\ limiter' = FALSE
    /\ UNCHANGED <<rate, buckets, heap, request, cleaner, sinceTick, history>>

\* SecurityManager.Stop, which takes sm.mu, and RateLimiter.Stop.
Stop ==
    /\ limiter
    /\ limiter' = FALSE
    /\ cleaner' = [cleaner EXCEPT !.stopClosed = TRUE]
    /\ UNCHANGED <<rate, buckets, heap, request, sinceTick, history>>

Older(age, limit) == IF age < limit THEN age + 1 ELSE age

Tick ==
    /\ heap' = [b \in Buckets |->
           IF Live(b) THEN [heap[b] EXCEPT !.sinceRefill = Older(@, MaxAge),
                                           !.sinceAccess = Older(@, MaxAge)]
           ELSE heap[b]]
    /\ sinceTick' = IF cleaner.running THEN Older(sinceTick, CleanupPeriod) ELSE sinceTick
    /\ sinceGrant' = [c \in Clients |-> Older(sinceGrant[c], TicksPerSecond)]
    /\ credit' = [c \in Clients |-> Older(credit[c], Full)]
    /\ UNCHANGED <<rate, limiter, buckets, request, cleaner>>

RequestStep(r) == NilLimiter(r) \/ FindBucket(r) \/ Consume(r)

Next ==
    \/ \E r \in Requests : (\E c \in Clients : CheckRateLimit(r, c)) \/ RequestStep(r)
    \/ Cleanup
    \/ CleanerStops
    \/ Stop
    \/ Tick

Spec == Init /\ [][Next]_vars

\* Requests and the goroutine are scheduled; select is fair between its two
\* channels; time passes however often clients ask.
FairSpec ==
    /\ Spec
    /\ \A r \in Requests : WF_vars(RequestStep(r))
    /\ WF_vars(Cleanup) /\ WF_vars(CleanerStops)
    /\ WF_vars(Tick)

-----------------------------------------------------------------------------
(* Properties.                                                              *)

\* The limiter keeps its types.
TypeOK ==
    /\ rate \in Rates
    /\ limiter \in BOOLEAN
    /\ buckets \in [Clients -> Buckets \union {NoBucket}]
    /\ heap \in [Buckets -> Bucket]
    /\ request \in [Requests -> Request]
    /\ cleaner \in [running : BOOLEAN, stopClosed : BOOLEAN]
    /\ sinceTick \in 0 .. CleanupPeriod
    /\ sinceGrant \in [Clients -> 0 .. TicksPerSecond]
    /\ credit \in [Clients -> Int]

\* However its bucket is refilled, removed and made anew, the bucket of the map
\* admits a client no more often than an ideal bucket that holds `rate` tokens
\* and a part, and gains one token a second: a bucket is removed only when a new
\* one is as full.  A rate of more tokens than BucketTTL has seconds is refilled
\* by the clean-up, and a removed bucket may still admit the requests that hold it.
RateBounded ==
    ValidRate /\ Full <= BucketTTL + 1 => \A c \in Clients : credit[c] >= 0

\* A client is refused only within a second of an admission: consume drops parts
\* of seconds, but never so that asking often keeps a client from its next token.
RefusedSoonAfterGrant ==
    [][\A r \in Requests :
        ValidRate /\ request'[r].answer = "refused" /\ request[r].answer = "none"
            => sinceGrant[request[r].client] < TicksPerSecond]_vars

\* "cleanup removes expired buckets to prevent memory leaks": the bucket of a
\* client that asks no more is removed while the limiter runs.
IdleClientsForgotten ==
    \A c \in Clients :
        <>[](limiter /\ \A r \in Requests : request[r].client # c \/ request[r].pc = "idle")
            => <>[](buckets[c] = NoBucket)

\* "Stop stops the rate limiter and its cleanup goroutine".
CleanupGoroutineEnds == ~limiter ~> ~cleaner.running
=============================================================================
