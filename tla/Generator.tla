----------------------------- MODULE Generator -----------------------------
(***************************************************************************)
(* The Eon-ID generator of generator.go: any number of goroutines call      *)
(* GenerateID on one Generator, the wall clock jumps as it likes, and the   *)
(* worker manager may change the worker ID or shut the generator down.      *)
(*                                                                          *)
(* A goroutine is a caller.  GenerateID is a loop: look at the lock-free    *)
(* shutdown flag, run tryGenerateID under g.mu (one atomic step here), and, *)
(* when told to wait, sleep outside the lock and start over until a budget  *)
(* is spent.  Timestamps are milliseconds; an ID is kept as the fields it   *)
(* packs, since IDs are equal exactly when those fields are.                *)
(***************************************************************************)
EXTENDS Integers, Sequences

CONSTANTS
    Callers,                \* goroutines that call GenerateID
    WorkerIDs,              \* worker IDs that SetWorkerID accepts
    MaxSequence,            \* (1 << SequenceBits) - 1
    CacheSizes,             \* lengths of sequenceCache to try, 0 when disabled
    ClockDriftActions,      \* the configured reactions to a backward clock
    MaxClockDrift,          \* ms, the Error action's limit on forward drift
    MaxClockBackwardWait,   \* ms, the Wait action's limit
    MaxIgnoreBackwardDrift, \* ms, the Ignore action's limit
    WaitBudget,             \* sleeps that fit in maxGenerateWaitBudget
    ClockValues,            \* values the wall clock may show
    MaxCalls                \* bound on the calls of one behaviour

ASSUME ConfigAssumption ==
    /\ MaxSequence \in Nat \ {0}
    /\ CacheSizes \subseteq 0 .. MaxSequence + 1
    /\ ClockDriftActions \subseteq {"wait", "error", "ignore"}

ASSUME BoundsAssumption ==
    /\ {MaxClockDrift, MaxClockBackwardWait, MaxIgnoreBackwardDrift,
        WaitBudget, MaxCalls} \subseteq Nat
    /\ ClockValues \subseteq Nat

VARIABLES
    config,          \* the GeneratorConfig, fixed when the generator is built
    now,             \* the wall clock in ms
    lastTimestamp,
    sequence,
    sequenceCache,
    cacheIndex,
    cacheValidCount,
    workerID,
    isShuttingDown,
    clockBackwardSeen, \* clockBackwardCount > 0
    pc,              \* where each caller is in GenerateID
    budget,          \* sleeps left before each caller's deadline
    result,          \* what each caller's last call returned
    calls,           \* calls started so far
    issued,          \* history: the IDs returned, oldest first
    overflowed       \* history: milliseconds that ran out of sequence numbers

clockVars  == <<config, now>>
idVars     == <<lastTimestamp, sequence, sequenceCache, cacheIndex,
                cacheValidCount, issued, overflowed>>
ownerVars  == <<workerID, isShuttingDown>>
callVars   == <<pc, budget, result, calls>>
vars == <<clockVars, idVars, ownerVars, clockBackwardSeen, callVars>>

Config == [clockDriftAction           : ClockDriftActions,
           enableClockDriftProtection : BOOLEAN,
           cacheSize                  : CacheSizes]

Outcomes == {"none", "id", "shutting_down", "drift", "budget"}

ID == [ts : Nat, worker : WorkerIDs, seq : 0 .. MaxSequence, at : ClockValues]

Init ==
    /\ config \in Config
    /\ now \in ClockValues
    /\ lastTimestamp = -1
    /\ sequence = 0
    /\ sequenceCache = [i \in 0 .. config.cacheSize - 1 |-> 0]
    /\ cacheIndex = 0
    /\ cacheValidCount = 0
    /\ workerID \in WorkerIDs
    /\ isShuttingDown = FALSE
    /\ clockBackwardSeen = FALSE
    /\ pc = [c \in Callers |-> "idle"]
    /\ budget = [c \in Callers |-> WaitBudget]
    /\ result = [c \in Callers |-> "none"]
    /\ calls = 0
    /\ issued = << >>
    /\ overflowed = {}

-----------------------------------------------------------------------------
(* The data of tryGenerateID.                                               *)

Backward == now < lastTimestamp
DriftMs  == lastTimestamp - now

\* Mutant of IgnoreMode: the limit on the artificial drift is not checked.
IgnoreModeUnlimited == Backward /\ config.clockDriftAction = "ignore"

\* Backward drift that the Ignore action absorbs: the local ignoreMode.
IgnoreMode ==
    /\ Backward
    /\ config.clockDriftAction = "ignore"
    /\ DriftMs <= MaxIgnoreBackwardDrift

\* checkClockDriftNoSleep returns an error.
ForwardDriftRejected ==
    /\ config.enableClockDriftProtection
    /\ config.clockDriftAction = "error"
    /\ lastTimestamp # -1
    /\ now - lastTimestamp > MaxClockDrift

BackwardDriftRejected ==
    /\ Backward
    /\ \/ config.clockDriftAction = "error"
       \/ config.clockDriftAction = "wait" /\ DriftMs > MaxClockBackwardWait
       \/ config.clockDriftAction = "ignore" /\ DriftMs > MaxIgnoreBackwardDrift

BackwardDriftWaits ==
    /\ Backward
    /\ config.clockDriftAction = "wait"
    /\ DriftMs <= MaxClockBackwardWait

\* The attempt reaches the sequence logic on the last issued millisecond.
SameMillisecond ==
    /\ ~ForwardDriftRejected
    /\ now = lastTimestamp \/ IgnoreMode

NewMillisecond == now > lastTimestamp /\ ~ForwardDriftRejected

CacheRead == cacheIndex < cacheValidCount

\* Mutant of NextSequence: the increment is not masked with maxSequence.
NextSequenceUnmasked == sequence + 1

\* Mutant of NextSequence: the mask is one short, as 1 << bits - 1 would parse.
NextSequenceShortMask == (sequence + 1) % MaxSequence

\* The cached number when it is usable, otherwise sequence + 1 with wraparound.
NextSequence ==
    IF CacheRead /\ sequenceCache[cacheIndex] \in 1 .. MaxSequence
    THEN sequenceCache[cacheIndex]
    ELSE (sequence + 1) % (MaxSequence + 1)

\* Mutant of ConsumeCache: cacheIndex++ is forgotten.
ConsumeCacheInPlace == UNCHANGED <<cacheIndex, sequenceCache, cacheValidCount>>

ConsumeCache ==
    /\ cacheIndex' = IF CacheRead THEN cacheIndex + 1 ELSE cacheIndex
    /\ UNCHANGED <<sequenceCache, cacheValidCount>>

ValidCount == IF config.cacheSize > MaxSequence THEN MaxSequence
                                                ELSE config.cacheSize

\* Mutant of RefillSequenceCache: cacheIndex is not reset.
RefillKeepsIndex ==
    /\ sequenceCache' = [i \in 0 .. config.cacheSize - 1 |->
                            IF i < ValidCount THEN i + 1 ELSE 0]
    /\ cacheValidCount' = ValidCount
    /\ UNCHANGED cacheIndex

RefillSequenceCache ==
    /\ sequenceCache' = [i \in 0 .. config.cacheSize - 1 |->
                            IF i < ValidCount THEN i + 1 ELSE 0]
    /\ cacheValidCount' = ValidCount
    /\ cacheIndex' = 0

Return(c, outcome) ==
    /\ pc' = [pc EXCEPT ![c] = "idle"]
    /\ result' = [result EXCEPT ![c] = outcome]
    /\ UNCHANGED <<budget, calls>>

GoTo(c, label) ==
    /\ pc' = [pc EXCEPT ![c] = label]
    /\ UNCHANGED <<budget, result, calls>>

\* tryGenerateID's last lines: remember the timestamp, compose the ID.
Emit(c, timestamp, seq) ==
    /\ lastTimestamp' = timestamp
    /\ sequence' = seq
    /\ issued' = Append(issued, [ts |-> timestamp, worker |-> workerID,
                                 seq |-> seq, at |-> now])
    /\ Return(c, "id")
    /\ UNCHANGED <<clockVars, ownerVars, overflowed>>

ObserveBackward == clockBackwardSeen' = (clockBackwardSeen \/ Backward)

-----------------------------------------------------------------------------
(* GenerateID, one action per way through an iteration of its loop.         *)

Call(c) ==
    /\ pc[c] = "idle"
    /\ calls < MaxCalls
    /\ calls' = calls + 1
    /\ pc' = [pc EXCEPT ![c] = "check"]
    /\ budget' = [budget EXCEPT ![c] = WaitBudget]
    /\ result' = [result EXCEPT ![c] = "none"]
    /\ UNCHANGED <<clockVars, idVars, ownerVars, clockBackwardSeen>>

\* The lock-free load of isShuttingDownAtomic at the top of the loop.
CheckShutdown(c) ==
    /\ pc[c] = "check"
    /\ IF isShuttingDown THEN Return(c, "shutting_down") ELSE GoTo(c, "try")
    /\ UNCHANGED <<clockVars, idVars, ownerVars, clockBackwardSeen>>

\* The same question asked again under the lock.
RefuseAfterShutdown(c) ==
    /\ pc[c] = "try"
    /\ isShuttingDown
    /\ Return(c, "shutting_down")
    /\ UNCHANGED <<clockVars, idVars, ownerVars, clockBackwardSeen>>

\* Mutant of Attempts: tryGenerateID trusts the lock-free check.
AttemptsUnchecked(c) == pc[c] = "try"

Attempts(c) == pc[c] = "try" /\ ~isShuttingDown

RejectDrift(c) ==
    /\ Attempts(c)
    /\ ForwardDriftRejected \/ BackwardDriftRejected
    /\ ObserveBackward
    /\ Return(c, "drift")
    /\ UNCHANGED <<clockVars, idVars, ownerVars>>

WaitForClock(c) ==
    /\ Attempts(c)
    /\ BackwardDriftWaits
    /\ ObserveBackward
    /\ GoTo(c, "wait")
    /\ UNCHANGED <<clockVars, idVars, ownerVars>>

IssueInSameMillisecond(c) ==
    /\ Attempts(c)
    /\ SameMillisecond
    /\ NextSequence # 0
    /\ ObserveBackward
    /\ ConsumeCache
    /\ Emit(c, lastTimestamp, NextSequence)

IssueInNewMillisecond(c) ==
    /\ Attempts(c)
    /\ NewMillisecond
    /\ RefillSequenceCache
    /\ Emit(c, now, 0)
    /\ UNCHANGED clockBackwardSeen

\* handleSequenceOverflow while absorbing backward drift: the clock cannot
\* help, so the timestamp is advanced by hand.
AdvanceSyntheticTimestamp(c) ==
    /\ Attempts(c)
    /\ SameMillisecond
    /\ NextSequence = 0
    /\ IgnoreMode
    /\ ObserveBackward
    /\ RefillSequenceCache
    /\ Emit(c, lastTimestamp + 1, 0)

\* The other overflow: tryGenerateID has already stored the wrapped sequence
\* when it tells its caller to wait, and lastTimestamp stays as it was.
WaitForNextMillisecond(c) ==
    /\ Attempts(c)
    /\ SameMillisecond
    /\ NextSequence = 0
    /\ ~IgnoreMode
    /\ sequence' = 0
    /\ ConsumeCache
    /\ overflowed' = overflowed \union {lastTimestamp}
    /\ GoTo(c, "wait")
    /\ UNCHANGED <<clockVars, ownerVars, clockBackwardSeen,
                   lastTimestamp, issued>>

\* After needWait, outside the lock: the shutdown flag, then the deadline.
GiveUp(c) ==
    /\ pc[c] = "wait"
    /\ isShuttingDown \/ budget[c] = 0
    /\ Return(c, IF isShuttingDown THEN "shutting_down" ELSE "budget")
    /\ UNCHANGED <<clockVars, idVars, ownerVars, clockBackwardSeen>>

\* Mutant of Sleep: the deadline is computed anew in every iteration.
SleepForFree(c) ==
    /\ pc[c] = "wait"
    /\ ~isShuttingDown
    /\ budget[c] > 0
    /\ pc' = [pc EXCEPT ![c] = "check"]
    /\ UNCHANGED <<clockVars, idVars, ownerVars, clockBackwardSeen,
                   budget, result, calls>>

\* A sleep, of 50us or of the drift, eats some of the budget.
Sleep(c) ==
    /\ pc[c] = "wait"
    /\ ~isShuttingDown
    /\ \E left \in 0 .. budget[c] - 1 : budget' = [budget EXCEPT ![c] = left]
    /\ pc' = [pc EXCEPT ![c] = "check"]
    /\ UNCHANGED <<clockVars, idVars, ownerVars, clockBackwardSeen,
                   result, calls>>

-----------------------------------------------------------------------------
(* The rest of the generator's world.                                       *)

\* An out-of-range argument is ignored, so only WorkerIDs matter.
SetWorkerID ==
    /\ workerID' \in WorkerIDs
    /\ UNCHANGED <<clockVars, idVars, isShuttingDown, clockBackwardSeen, callVars>>

Shutdown ==
    /\ ~isShuttingDown
    /\ isShuttingDown' = TRUE
    /\ UNCHANGED <<clockVars, idVars, workerID, clockBackwardSeen, callVars>>

\* The wall clock advances, or an operator or NTP steps it.
ClockStep ==
    /\ now' \in ClockValues \ {now}
    /\ UNCHANGED <<config, idVars, ownerVars, clockBackwardSeen, callVars>>

CallerStep(c) ==
    \/ CheckShutdown(c)
    \/ RefuseAfterShutdown(c)
    \/ RejectDrift(c)
    \/ WaitForClock(c)
    \/ IssueInSameMillisecond(c)
    \/ IssueInNewMillisecond(c)
    \/ AdvanceSyntheticTimestamp(c)
    \/ WaitForNextMillisecond(c)
    \/ GiveUp(c)
    \/ Sleep(c)

Next ==
    \/ \E c \in Callers : Call(c) \/ CallerStep(c)
    \/ SetWorkerID
    \/ Shutdown
    \/ ClockStep

Spec == Init /\ [][Next]_vars

\* A goroutine inside GenerateID is scheduled again and its sleeps end; nobody
\* owes a call, a shutdown or a clock that moves.
FairSpec == Spec /\ \A c \in Callers : WF_vars(CallerStep(c))

-----------------------------------------------------------------------------
(* Properties.                                                              *)

\* Every variable of the generator keeps its type (types.go, Generator).
TypeOK ==
    /\ config \in Config
    /\ now \in ClockValues
    /\ lastTimestamp \in Nat \union {-1}
    /\ sequence \in 0 .. MaxSequence
    /\ sequenceCache \in [0 .. config.cacheSize - 1 -> 0 .. MaxSequence]
    /\ cacheIndex \in 0 .. config.cacheSize
    /\ cacheValidCount \in 0 .. config.cacheSize
    /\ workerID \in WorkerIDs
    /\ isShuttingDown \in BOOLEAN
    /\ clockBackwardSeen \in BOOLEAN
    /\ pc \in [Callers -> {"idle", "check", "try", "wait"}]
    /\ budget \in [Callers -> 0 .. WaitBudget]
    /\ result \in [Callers -> Outcomes]
    /\ calls \in 0 .. MaxCalls
    /\ issued \in Seq(ID)
    /\ overflowed \subseteq Nat

\* x sorts strictly before y, whatever their worker IDs.
Before(x, y) == x.ts < y.ts \/ (x.ts = y.ts /\ x.seq < y.seq)

\* What GenerateID promises with the sequence cache, the Wait, Error and Ignore
\* actions, a clock that jumps and any interleaving of callers: IDs come out in
\* increasing (timestamp, sequence) order, hence without duplicates, as long as
\* no millisecond ran out of sequence numbers in normal mode.
OrderedUnlessOverflowed ==
    \A i, j \in DOMAIN issued :
        i < j => \/ Before(issued[i], issued[j])
                 \/ /\ issued[i].ts = issued[j].ts
                    /\ issued[i].ts \in overflowed

\* A millisecond's sequence numbers are handed out without a gap: a number is
\* issued only after all the smaller ones of its millisecond, whether they come
\* from refillSequenceCache or from the increment.
NoSequenceGaps ==
    \A j \in DOMAIN issued : \A s \in 0 .. issued[j].seq - 1 :
        \E i \in 1 .. j - 1 : issued[i].ts = issued[j].ts /\ issued[i].seq = s

\* handleSequenceOverflow's promise: the synthetic timestamp "only advances when
\* a full millisecond's sequence space is genuinely exhausted", and then by 1.
SyntheticAdvanceOnlyWhenExhausted ==
    [][ (lastTimestamp' # lastTimestamp /\ lastTimestamp' # now) =>
            /\ lastTimestamp' = lastTimestamp + 1
            /\ \A s \in 0 .. MaxSequence : \E i \in DOMAIN issued :
                   issued[i].ts = lastTimestamp /\ issued[i].seq = s ]_vars

\* How far an ID may lie from the wall clock at its issue: never behind it, and
\* ahead of it only under the Ignore action, by at most the configured limit
\* and the one millisecond that an overflow adds after the limit was checked.
IssuedNearClock ==
    \A i \in DOMAIN issued :
        LET ahead == issued[i].ts - issued[i].at IN
        /\ ahead >= 0
        /\ config.clockDriftAction # "ignore" => ahead = 0
        /\ ahead <= MaxIgnoreBackwardDrift + 1

\* A call that passed the lock-free check before Shutdown still issues nothing
\* after it: Shutdown takes g.mu and tryGenerateID asks again.
NoIDAfterShutdown == [][isShuttingDown => issued' = issued]_vars

\* GenerateID never blocks for good: its wait budget bounds the retries.
CallsReturn == \A c \in Callers : pc[c] # "idle" ~> pc[c] = "idle"

\* What the package promises without the proviso about overflow: no two IDs
\* are equal (README.md, stability_test.go TestConcurrentUniqueness).
UniqueIDs ==
    \A i, j \in DOMAIN issued :
        i # j => <<issued[i].ts, issued[i].worker, issued[i].seq>>
                   # <<issued[j].ts, issued[j].worker, issued[j].seq>>

\* What README.md says of the Error action: it is backward drift that is
\* refused.
DriftErrorMeansBackwardClock ==
    \A c \in Callers : result[c] = "drift" => clockBackwardSeen

\* The IDs without the clock reading that the history keeps beside them.
Stamps == [i \in DOMAIN issued |-> [ts |-> issued[i].ts,
                                   worker |-> issued[i].worker,
                                   seq |-> issued[i].seq]]

Source == INSTANCE IdSource WITH issued <- Stamps

\* Clock, cache, drift handling, waiting and callers are invisible in the IDs:
\* tryGenerateID moves a cursor that never skips or repeats a number, except
\* that a used-up millisecond is rewound.
ImplementsIdSource == Source!Spec

-----------------------------------------------------------------------------
(* The inductive invariant behind the safety properties.                    *)

\* The numbers still in the cache continue the sequence of lastTimestamp.
CacheContinuesSequence ==
    /\ cacheValidCount <= MaxSequence
    /\ cacheIndex <= cacheValidCount
    /\ cacheIndex < cacheValidCount => sequence = cacheIndex
    /\ \A i \in 0 .. cacheValidCount - 1 : sequenceCache[i] = i + 1

\* lastTimestamp and sequence dominate the history.
LastIsLatest ==
    \A i \in DOMAIN issued :
        /\ issued[i].ts <= lastTimestamp
        /\ issued[i].ts = lastTimestamp =>
               issued[i].seq <= sequence \/ lastTimestamp \in overflowed

\* All numbers up to sequence have been issued at lastTimestamp.
PrefixIssued ==
    lastTimestamp # -1 =>
        \A s \in 0 .. sequence : \E i \in DOMAIN issued :
            issued[i].ts = lastTimestamp /\ issued[i].seq = s

\* Inductive together with TypeOK.
IdInv ==
    /\ CacheContinuesSequence
    /\ LastIsLatest
    /\ PrefixIssued
    /\ OrderedUnlessOverflowed
    /\ NoSequenceGaps

IInv == TypeOK /\ IdInv
=============================================================================
