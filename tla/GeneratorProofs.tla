-------------------------- MODULE GeneratorProofs --------------------------
(* What GenerateID promises for every configuration, clock and interleaving. *)
EXTENDS Generator, TLAPS

\* Masking the incremented sequence: the next number, or 0 at the end.
LEMMA MaskedIncrement ==
    ASSUME NEW s \in 0 .. MaxSequence
    PROVE  (s + 1) % (MaxSequence + 1) = IF s = MaxSequence THEN 0 ELSE s + 1
<1>1. MaxSequence \in Nat \ {0}
  BY ConfigAssumption
<1>2. CASE s = MaxSequence
  BY <1>1, <1>2
<1>3. CASE s # MaxSequence
  BY <1>1, <1>3
<1> QED
  BY <1>2, <1>3

\* The next number is a number of the millisecond.
LEMMA NextSequenceType ==
    ASSUME TypeOK
    PROVE  NextSequence \in 0 .. MaxSequence
<1>1. MaxSequence \in Nat
  BY ConfigAssumption
<1>2. (sequence + 1) % (MaxSequence + 1) \in 0 .. MaxSequence
  BY <1>1, MaskedIncrement DEF TypeOK
<1> QED
  BY <1>1, <1>2 DEF NextSequence

\* The cache's length is a number.
LEMMA CacheSizeType ==
    ASSUME config \in Config
    PROVE  config.cacheSize \in Nat /\ config.cacheSize <= MaxSequence + 1
<1>1. config.cacheSize \in CacheSizes
  BY DEF Config
<1>2. config.cacheSize \in 0 .. MaxSequence + 1 /\ MaxSequence \in Nat
  BY <1>1, ConfigAssumption
<1> QED
  BY <1>2

\* A refill leaves a well typed cache.
LEMMA RefillType ==
    ASSUME TypeOK, RefillSequenceCache, config' = config
    PROVE  /\ sequenceCache' \in [0 .. config.cacheSize - 1 -> 0 .. MaxSequence]
           /\ cacheIndex' \in 0 .. config.cacheSize
           /\ cacheValidCount' \in 0 .. config.cacheSize
<1>1. MaxSequence \in Nat /\ config.cacheSize \in Nat
  BY ConfigAssumption, CacheSizeType DEF TypeOK
<1>2. ValidCount \in 0 .. config.cacheSize /\ ValidCount <= MaxSequence
  BY <1>1 DEF ValidCount
<1> QED
  BY <1>1, <1>2 DEF RefillSequenceCache

\* Consuming a cached number leaves a well typed cache.
LEMMA ConsumeCacheType ==
    ASSUME TypeOK, ConsumeCache
    PROVE  /\ sequenceCache' = sequenceCache
           /\ cacheIndex' \in 0 .. config.cacheSize
           /\ cacheValidCount' = cacheValidCount
<1>1. config.cacheSize \in Nat
  BY CacheSizeType DEF TypeOK
<1>2. cacheIndex \in 0 .. config.cacheSize /\ cacheValidCount \in 0 .. config.cacheSize
  BY DEF TypeOK
<1> QED
  <2>1. sequenceCache' = sequenceCache /\ cacheValidCount' = cacheValidCount
    BY DEF ConsumeCache
  <2>2. CASE CacheRead
    BY <1>1, <1>2, <2>2 DEF ConsumeCache, CacheRead
  <2>3. CASE ~CacheRead
    BY <1>2, <2>3 DEF ConsumeCache
  <2> QED
    BY <2>1, <2>2, <2>3

\* Issuing an ID keeps the types of everything but the cache and the flag.
LEMMA EmitType ==
    ASSUME TypeOK, NEW c \in Callers, NEW t \in Nat, NEW s \in 0 .. MaxSequence,
           Emit(c, t, s),
           sequenceCache' \in [0 .. config.cacheSize - 1 -> 0 .. MaxSequence],
           cacheIndex' \in 0 .. config.cacheSize,
           cacheValidCount' \in 0 .. config.cacheSize,
           clockBackwardSeen' \in BOOLEAN
    PROVE  TypeOK'
<1>1. /\ config' = config /\ now' = now /\ workerID' = workerID
      /\ isShuttingDown' = isShuttingDown /\ overflowed' = overflowed
      /\ budget' = budget /\ calls' = calls
  BY DEF Emit, Return, clockVars, ownerVars
<1>2. issued' \in Seq(ID)
  <2>1. [ts |-> t, worker |-> workerID, seq |-> s, at |-> now] \in ID
    BY DEF TypeOK, ID
  <2> QED
    BY <2>1 DEF Emit, TypeOK
<1>3. /\ pc' \in [Callers -> {"idle", "check", "try", "wait"}]
      /\ result' \in [Callers -> Outcomes]
  BY DEF Emit, Return, TypeOK, Outcomes
<1>4. lastTimestamp' = t /\ sequence' = s
  BY DEF Emit
<1> QED
  BY <1>1, <1>2, <1>3, <1>4 DEF TypeOK

\* Every step keeps the types.
LEMMA TypeStep ==
    ASSUME TypeOK, [Next]_vars
    PROVE  TypeOK'
<1> USE BoundsAssumption
<1>1. ASSUME NEW c \in Callers, Call(c)
      PROVE  TypeOK'
  BY <1>1 DEF Call, TypeOK, clockVars, idVars, ownerVars, Outcomes
<1>2. ASSUME NEW c \in Callers, CheckShutdown(c)
      PROVE  TypeOK'
  BY <1>2 DEF CheckShutdown, Return, GoTo, TypeOK, clockVars, idVars,
              ownerVars, Outcomes
<1>3. ASSUME NEW c \in Callers, RefuseAfterShutdown(c)
      PROVE  TypeOK'
  BY <1>3 DEF RefuseAfterShutdown, Return, TypeOK, clockVars, idVars,
              ownerVars, Outcomes
<1>4. ASSUME NEW c \in Callers, RejectDrift(c)
      PROVE  TypeOK'
  <2>1. clockBackwardSeen' \in BOOLEAN
    BY <1>4, Zenon DEF RejectDrift, ObserveBackward, Backward, TypeOK
  <2> QED
    BY <1>4, <2>1 DEF RejectDrift, Return, TypeOK, clockVars, idVars,
                      ownerVars, Outcomes
<1>5. ASSUME NEW c \in Callers, WaitForClock(c)
      PROVE  TypeOK'
  <2>1. clockBackwardSeen' \in BOOLEAN
    BY <1>5, Zenon DEF WaitForClock, ObserveBackward, Backward, TypeOK
  <2> QED
    BY <1>5, <2>1 DEF WaitForClock, GoTo, TypeOK, clockVars, idVars,
                      ownerVars, Outcomes
<1>6. ASSUME NEW c \in Callers, IssueInSameMillisecond(c)
      PROVE  TypeOK'
  <2>1. clockBackwardSeen' \in BOOLEAN
    BY <1>6, Zenon DEF IssueInSameMillisecond, ObserveBackward, Backward, TypeOK
  <2>2. lastTimestamp \in Nat
    BY <1>6 DEF IssueInSameMillisecond, SameMillisecond, IgnoreMode, Backward,
                TypeOK
  <2>3. NextSequence \in 0 .. MaxSequence
    BY NextSequenceType
  <2>4. /\ sequenceCache' = sequenceCache
        /\ cacheIndex' \in 0 .. config.cacheSize
        /\ cacheValidCount' = cacheValidCount
    BY <1>6, ConsumeCacheType DEF IssueInSameMillisecond
  <2>5. Emit(c, lastTimestamp, NextSequence)
    BY <1>6 DEF IssueInSameMillisecond
  <2> QED
    BY <2>1, <2>2, <2>3, <2>4, <2>5, EmitType DEF TypeOK
<1>7. ASSUME NEW c \in Callers, IssueInNewMillisecond(c)
      PROVE  TypeOK'
  <2>1. Emit(c, now, 0) /\ RefillSequenceCache /\ clockBackwardSeen' \in BOOLEAN
    BY <1>7 DEF IssueInNewMillisecond, TypeOK
  <2>2. config' = config
    BY <2>1 DEF Emit, clockVars
  <2>3. now \in Nat /\ 0 \in 0 .. MaxSequence
    BY ConfigAssumption DEF TypeOK
  <2> QED
    BY <2>1, <2>2, <2>3, RefillType, EmitType
<1>8. ASSUME NEW c \in Callers, AdvanceSyntheticTimestamp(c)
      PROVE  TypeOK'
  <2>1. Emit(c, lastTimestamp + 1, 0) /\ RefillSequenceCache
    BY <1>8 DEF AdvanceSyntheticTimestamp
  <2>2. config' = config
    BY <2>1 DEF Emit, clockVars
  <2>3. lastTimestamp + 1 \in Nat /\ 0 \in 0 .. MaxSequence
    BY ConfigAssumption DEF TypeOK
  <2>4. clockBackwardSeen' \in BOOLEAN
    BY <1>8, Zenon DEF AdvanceSyntheticTimestamp, ObserveBackward, Backward, TypeOK
  <2> QED
    BY <2>1, <2>2, <2>3, <2>4, RefillType, EmitType
<1>9. ASSUME NEW c \in Callers, WaitForNextMillisecond(c)
      PROVE  TypeOK'
  <2>1. lastTimestamp \in Nat
    BY <1>9 DEF WaitForNextMillisecond, SameMillisecond, IgnoreMode, Backward,
                TypeOK
  <2>2. /\ sequenceCache' = sequenceCache
        /\ cacheIndex' \in 0 .. config.cacheSize
        /\ cacheValidCount' = cacheValidCount
    BY <1>9, ConsumeCacheType DEF WaitForNextMillisecond
  <2>3. sequence' \in 0 .. MaxSequence
    BY <1>9, ConfigAssumption DEF WaitForNextMillisecond
  <2> QED
    BY <1>9, <2>1, <2>2, <2>3 DEF WaitForNextMillisecond, GoTo, TypeOK,
       clockVars, ownerVars
<1>10. ASSUME NEW c \in Callers, GiveUp(c)
       PROVE  TypeOK'
  BY <1>10, Zenon DEF GiveUp, Return, TypeOK, clockVars, idVars, ownerVars, Outcomes
<1>11. ASSUME NEW c \in Callers, Sleep(c)
       PROVE  TypeOK'
  BY <1>11 DEF Sleep, TypeOK, clockVars, idVars, ownerVars
<1>12. CASE SetWorkerID
  BY <1>12 DEF SetWorkerID, TypeOK, clockVars, idVars, callVars
<1>13. CASE Shutdown
  BY <1>13 DEF Shutdown, TypeOK, clockVars, idVars, callVars
<1>14. CASE ClockStep
  BY <1>14 DEF ClockStep, TypeOK, idVars, ownerVars, callVars
<1>15. CASE UNCHANGED vars
  BY <1>15 DEF TypeOK, vars, clockVars, idVars, ownerVars, callVars
<1> QED
  BY <1>1, <1>2, <1>3, <1>4, <1>5, <1>6, <1>7, <1>8, <1>9, <1>10, <1>11,
     <1>12, <1>13, <1>14, <1>15 DEF Next, CallerStep

\* The generator's fields keep their types in every behaviour.
THEOREM TypeCorrect == Spec => []TypeOK
<1>1. ASSUME Init
      PROVE  TypeOK
  <2>1. config.cacheSize \in Nat /\ MaxSequence \in Nat
    BY <1>1, CacheSizeType, ConfigAssumption DEF Init
  <2>2. sequenceCache \in [0 .. config.cacheSize - 1 -> 0 .. MaxSequence]
    BY <1>1, <2>1 DEF Init
  <2>3. issued \in Seq(ID)
    BY <1>1 DEF Init
  <2>4. /\ pc \in [Callers -> {"idle", "check", "try", "wait"}]
        /\ result \in [Callers -> Outcomes]
        /\ budget \in [Callers -> 0 .. WaitBudget]
        /\ calls \in 0 .. MaxCalls
    BY <1>1, BoundsAssumption DEF Init, Outcomes
  <2>5. /\ sequence \in 0 .. MaxSequence
        /\ cacheIndex \in 0 .. config.cacheSize
        /\ cacheValidCount \in 0 .. config.cacheSize
    BY <1>1, <2>1 DEF Init
  <2> QED
    BY <1>1, <2>2, <2>3, <2>4, <2>5 DEF Init, TypeOK
<1>2. TypeOK /\ [Next]_vars => TypeOK'
  BY TypeStep
<1> QED
  BY <1>1, <1>2, PTL DEF Spec

-----------------------------------------------------------------------------
(* The safety properties.                                                   *)

\* The cache never skips, repeats or outruns the plain increment.
LEMMA NextIsSuccessor ==
    ASSUME TypeOK, CacheContinuesSequence
    PROVE  /\ NextSequence = IF sequence = MaxSequence THEN 0 ELSE sequence + 1
           /\ CacheRead => sequence = cacheIndex /\ sequence < MaxSequence
<1>1. MaxSequence \in Nat /\ sequence \in 0 .. MaxSequence
  BY ConfigAssumption DEF TypeOK
<1>2. cacheIndex \in Nat /\ cacheValidCount \in Nat
  BY CacheSizeType DEF TypeOK
<1>3. CASE CacheRead
  <2>1. sequenceCache[cacheIndex] = cacheIndex + 1 /\ sequence = cacheIndex
    BY <1>2, <1>3 DEF CacheRead, CacheContinuesSequence
  <2>2. sequence < MaxSequence
    BY <1>1, <1>2, <1>3, <2>1 DEF CacheRead, CacheContinuesSequence
  <2> QED
    BY <1>1, <1>3, <2>1, <2>2 DEF NextSequence
<1>4. CASE ~CacheRead
  BY <1>1, <1>4, MaskedIncrement DEF NextSequence
<1> QED
  BY <1>3, <1>4

\* Appending an ID keeps the older ones where they are.
LEMMA AppendIssued ==
    ASSUME TypeOK, NEW x \in ID, issued' = Append(issued, x)
    PROVE  /\ Len(issued) \in Nat
           /\ DOMAIN issued = 1 .. Len(issued)
           /\ DOMAIN issued' = 1 .. Len(issued) + 1
           /\ issued'[Len(issued) + 1] = x
           /\ \A i \in 1 .. Len(issued) : issued'[i] = issued[i] /\ issued[i] \in ID
BY DEF TypeOK

\* An ID that opens a later millisecond, or takes the number after the last
\* one of its own, keeps the history in order and without gaps.
LEMMA EmitKeepsOrder ==
    ASSUME TypeOK, IdInv, NEW c \in Callers, NEW t \in Nat,
           NEW s \in 0 .. MaxSequence, Emit(c, t, s),
           \/ t > lastTimestamp /\ s = 0
           \/ t = lastTimestamp /\ s = sequence + 1
    PROVE  /\ LastIsLatest'
           /\ PrefixIssued'
           /\ OrderedUnlessOverflowed'
           /\ NoSequenceGaps'
<1> DEFINE x == [ts |-> t, worker |-> workerID, seq |-> s, at |-> now]
           n == Len(issued)
<1>1. x \in ID /\ x.ts = t /\ x.seq = s
  BY DEF TypeOK, ID
<1>2. issued' = Append(issued, x) /\ lastTimestamp' = t /\ sequence' = s
      /\ overflowed' = overflowed
  BY DEF Emit
<1>3. /\ n \in Nat
      /\ DOMAIN issued = 1 .. n
      /\ DOMAIN issued' = 1 .. n + 1
      /\ issued'[n + 1] = x
      /\ \A i \in 1 .. n : issued'[i] = issued[i] /\ issued[i] \in ID
  BY <1>1, <1>2, AppendIssued
<1>4. \A i \in 1 .. n : issued[i].ts \in Nat /\ issued[i].seq \in Nat
  BY <1>3, ConfigAssumption DEF ID
<1>5. sequence \in Nat /\ lastTimestamp \in Int /\ MaxSequence \in Nat
  BY ConfigAssumption DEF TypeOK
<1> HIDE DEF x, n
<1>5a. t = lastTimestamp => \A k \in 0 .. sequence :
          \E i \in 1 .. n : issued[i].ts = t /\ issued[i].seq = k
  <2>1. t # -1
    OBVIOUS
  <2> QED
    BY <2>1, <1>3 DEF IdInv, PrefixIssued
<1>6. ASSUME NEW i \in 1 .. n
      PROVE  \/ issued[i].ts < t
             \/ /\ issued[i].ts = t
                /\ t = lastTimestamp
                /\ issued[i].seq < s \/ t \in overflowed
  <2>1. /\ issued[i].ts <= lastTimestamp
        /\ issued[i].ts = lastTimestamp =>
               issued[i].seq <= sequence \/ lastTimestamp \in overflowed
    BY <1>3 DEF IdInv, LastIsLatest
  <2> QED
    BY <2>1, <1>4, <1>5
<1>7. LastIsLatest'
  <2> SUFFICES ASSUME NEW i \in 1 .. n + 1
               PROVE  /\ issued'[i].ts <= t
                      /\ issued'[i].ts = t => issued'[i].seq <= s \/ t \in overflowed
    BY <1>2, <1>3 DEF LastIsLatest
  <2>1. CASE i = n + 1
    BY <2>1, <1>1, <1>3
  <2>2. CASE i \in 1 .. n
    BY <2>2, <1>3, <1>4, <1>6
  <2> QED
    BY <2>1, <2>2, <1>3
<1>8. PrefixIssued'
  <2> SUFFICES ASSUME NEW k \in 0 .. s
               PROVE  \E i \in 1 .. n + 1 : issued'[i].ts = t /\ issued'[i].seq = k
    BY <1>2, <1>3 DEF PrefixIssued
  <2>1. CASE k = s
    BY <2>1, <1>1, <1>3
  <2>2. CASE k # s
    <3>1. t = lastTimestamp /\ k \in 0 .. sequence
      BY <2>2, <1>5
    <3>2. PICK i \in 1 .. n : issued[i].ts = t /\ issued[i].seq = k
      BY <3>1, <1>5a
    <3> QED
      BY <3>2, <1>3
  <2> QED
    BY <2>1, <2>2
<1>9. OrderedUnlessOverflowed'
  <2> SUFFICES ASSUME NEW i \in 1 .. n + 1, NEW j \in 1 .. n + 1, i < j
               PROVE  \/ Before(issued'[i], issued'[j])
                      \/ issued'[i].ts = issued'[j].ts /\ issued'[i].ts \in overflowed
    BY <1>2, <1>3 DEF OrderedUnlessOverflowed, Before
  <2>1. i \in 1 .. n
    BY <1>3
  <2>2. CASE j = n + 1
    BY <2>1, <2>2, <1>1, <1>3, <1>6 DEF Before
  <2>3. CASE j \in 1 .. n
    BY <2>1, <2>3, <1>3 DEF IdInv, OrderedUnlessOverflowed
  <2> QED
    BY <2>2, <2>3, <1>3
<1>10. NoSequenceGaps'
  <2> SUFFICES ASSUME NEW j \in 1 .. n + 1, NEW k \in 0 .. issued'[j].seq - 1
               PROVE  \E i \in 1 .. j - 1 : /\ issued'[i].ts = issued'[j].ts
                                            /\ issued'[i].seq = k
    BY <1>3 DEF NoSequenceGaps
  <2>1. CASE j = n + 1
    <3>1. t = lastTimestamp /\ k \in 0 .. sequence
      BY <2>1, <1>1, <1>3, <1>5
    <3>2. PICK i \in 1 .. n : issued[i].ts = t /\ issued[i].seq = k
      BY <3>1, <1>5a
    <3> QED
      BY <3>2, <2>1, <1>1, <1>3
  <2>2. CASE j \in 1 .. n
    <3>1. k \in 0 .. issued[j].seq - 1
      BY <2>2, <1>3
    <3>2. PICK i \in 1 .. j - 1 : issued[i].ts = issued[j].ts /\ issued[i].seq = k
      BY <3>1, <2>2, <1>3 DEF IdInv, NoSequenceGaps
    <3>3. i \in 1 .. n
      BY <2>2, <1>3
    <3> QED
      BY <3>2, <3>3, <2>2, <1>3
  <2> QED
    BY <2>1, <2>2, <1>3
<1> QED
  BY <1>7, <1>8, <1>9, <1>10

\* A refill for the millisecond that sequence 0 has just opened.
LEMMA RefillKeepsCache ==
    ASSUME TypeOK, RefillSequenceCache, sequence' = 0
    PROVE  CacheContinuesSequence'
<1>1. MaxSequence \in Nat /\ config.cacheSize \in Nat
  BY ConfigAssumption, CacheSizeType DEF TypeOK
<1>2. /\ ValidCount \in Nat
      /\ ValidCount <= MaxSequence
      /\ ValidCount <= config.cacheSize
  BY <1>1 DEF ValidCount
<1>3. cacheIndex' = 0 /\ cacheValidCount' = ValidCount
  BY DEF RefillSequenceCache
<1>4. \A i \in 0 .. ValidCount - 1 : sequenceCache'[i] = i + 1
  BY <1>1, <1>2 DEF RefillSequenceCache
<1> QED
  BY <1>2, <1>3, <1>4 DEF CacheContinuesSequence

\* A step that touches neither the cursor nor the history.
LEMMA IdStutter ==
    ASSUME IdInv, UNCHANGED idVars
    PROVE  IdInv'
BY DEF IdInv, idVars, CacheContinuesSequence, LastIsLatest, PrefixIssued,
       OrderedUnlessOverflowed, Before, NoSequenceGaps

\* An ID of the same millisecond keeps the inductive invariant.
LEMMA SameMillisecondStep ==
    ASSUME TypeOK, IdInv, NEW c \in Callers, IssueInSameMillisecond(c)
    PROVE  IdInv'
<1>a. lastTimestamp \in Nat
  BY BoundsAssumption DEF IssueInSameMillisecond, SameMillisecond, IgnoreMode,
                          Backward, TypeOK
<1>1. /\ Emit(c, lastTimestamp, NextSequence)
      /\ ConsumeCache
      /\ NextSequence # 0
  BY DEF IssueInSameMillisecond
<1>2. NextSequence = sequence + 1 /\ NextSequence \in 0 .. MaxSequence
  BY <1>1, NextIsSuccessor, NextSequenceType DEF IdInv
<1>3. /\ LastIsLatest'
      /\ PrefixIssued'
      /\ OrderedUnlessOverflowed'
      /\ NoSequenceGaps'
  BY <1>a, <1>1, <1>2, EmitKeepsOrder
<1>4. CacheContinuesSequence'
  <2>1. sequence' = sequence + 1 /\ sequence \in Nat
    BY <1>1, <1>2, ConfigAssumption DEF Emit, TypeOK
  <2>2. cacheIndex \in Nat /\ cacheValidCount \in Nat
    BY CacheSizeType DEF TypeOK
  <2> QED
    BY <1>1, <2>1, <2>2 DEF ConsumeCache, CacheRead, IdInv, CacheContinuesSequence
<1> QED
  BY <1>3, <1>4 DEF IdInv

\* So does the first ID of a later millisecond.
LEMMA NewMillisecondStep ==
    ASSUME TypeOK, IdInv, NEW c \in Callers,
           IssueInNewMillisecond(c) \/ AdvanceSyntheticTimestamp(c)
    PROVE  IdInv'
<1>1. PICK t \in Nat : /\ t > lastTimestamp
                       /\ Emit(c, t, 0)
                       /\ RefillSequenceCache
  <2>1. lastTimestamp + 1 \in Nat /\ now \in Nat
    BY BoundsAssumption DEF TypeOK
  <2>2. lastTimestamp + 1 > lastTimestamp
    BY DEF TypeOK
  <2> QED
    BY <2>1, <2>2 DEF IssueInNewMillisecond, NewMillisecond, AdvanceSyntheticTimestamp
<1>2. 0 \in 0 .. MaxSequence /\ sequence' = 0
  BY <1>1, ConfigAssumption DEF Emit
<1>3. /\ LastIsLatest'
      /\ PrefixIssued'
      /\ OrderedUnlessOverflowed'
      /\ NoSequenceGaps'
  BY <1>1, <1>2, EmitKeepsOrder
<1>4. CacheContinuesSequence'
  BY <1>1, <1>2, RefillKeepsCache
<1> QED
  BY <1>3, <1>4 DEF IdInv

\* The overflow that waits: the millisecond enters overflowed, and from then on
\* nothing is claimed of its order.
LEMMA OverflowStep ==
    ASSUME TypeOK, IdInv, NEW c \in Callers, WaitForNextMillisecond(c)
    PROVE  IdInv'
<1>1. /\ sequence' = 0
      /\ overflowed' = overflowed \union {lastTimestamp}
      /\ ConsumeCache /\ NextSequence = 0
      /\ issued' = issued /\ lastTimestamp' = lastTimestamp
  BY DEF WaitForNextMillisecond
<1>2. sequence = MaxSequence /\ sequence \in Nat
  BY <1>1, NextIsSuccessor, ConfigAssumption DEF IdInv, TypeOK
<1>3. ~CacheRead
  BY <1>2, NextIsSuccessor DEF IdInv
<1>4. CacheContinuesSequence'
  BY <1>1, <1>3 DEF ConsumeCache, CacheRead, IdInv, CacheContinuesSequence
<1>5. LastIsLatest'
  BY <1>1 DEF IdInv, LastIsLatest
<1>6. PrefixIssued'
  BY <1>1, <1>2 DEF IdInv, PrefixIssued
<1>7. OrderedUnlessOverflowed' /\ NoSequenceGaps'
  BY <1>1 DEF IdInv, OrderedUnlessOverflowed, Before, NoSequenceGaps
<1> QED
  BY <1>4, <1>5, <1>6, <1>7 DEF IdInv

\* Every step keeps the inductive invariant.
LEMMA IInvStep ==
    ASSUME IInv, [Next]_vars
    PROVE  IInv'
<1>1. TypeOK'
  BY TypeStep DEF IInv
<1>2. ASSUME UNCHANGED idVars
      PROVE  IdInv'
  BY <1>2, IdStutter DEF IInv
<1>3. ASSUME NEW c \in Callers, Call(c) \/ CallerStep(c)
      PROVE  IdInv'
  <2>1. CASE Call(c)
    BY <2>1, <1>2 DEF Call
  <2>2. CASE CheckShutdown(c)
    BY <2>2, <1>2 DEF CheckShutdown
  <2>3. CASE RefuseAfterShutdown(c)
    BY <2>3, <1>2 DEF RefuseAfterShutdown
  <2>4. CASE RejectDrift(c)
    BY <2>4, <1>2 DEF RejectDrift
  <2>5. CASE WaitForClock(c)
    BY <2>5, <1>2 DEF WaitForClock
  <2>6. CASE IssueInSameMillisecond(c)
    BY <2>6, SameMillisecondStep DEF IInv
  <2>7. CASE IssueInNewMillisecond(c) \/ AdvanceSyntheticTimestamp(c)
    BY <2>7, NewMillisecondStep DEF IInv
  <2>8. CASE WaitForNextMillisecond(c)
    BY <2>8, OverflowStep DEF IInv
  <2>9. CASE GiveUp(c) \/ Sleep(c)
    BY <2>9, <1>2 DEF GiveUp, Sleep
  <2> QED
    BY <1>3, <2>1, <2>2, <2>3, <2>4, <2>5, <2>6, <2>7, <2>8, <2>9 DEF CallerStep
<1>4. CASE SetWorkerID
  BY <1>1, <1>4, <1>2 DEF SetWorkerID, IInv
<1>5. CASE Shutdown
  BY <1>1, <1>5, <1>2 DEF Shutdown, IInv
<1>6. CASE ClockStep
  BY <1>1, <1>6, <1>2 DEF ClockStep, IInv
<1>7. CASE UNCHANGED vars
  BY <1>1, <1>7, <1>2 DEF vars, IInv
<1> QED
  BY <1>1, <1>3, <1>4, <1>5, <1>6, <1>7 DEF Next, IInv

\* The inductive invariant holds in every behaviour.
THEOREM InductiveInvariant == Spec => []IInv
<1>1. ASSUME Init
      PROVE  IdInv
  <2>1. issued = << >> /\ lastTimestamp = -1 /\ cacheIndex = 0 /\ cacheValidCount = 0
    BY <1>1 DEF Init
  <2>2. CacheContinuesSequence
    BY <2>1, ConfigAssumption DEF CacheContinuesSequence
  <2> QED
    BY <2>1, <2>2 DEF IdInv, LastIsLatest, PrefixIssued, OrderedUnlessOverflowed,
                      NoSequenceGaps
<1>2. IInv /\ [Next]_vars => IInv'
  BY IInvStep
<1>3. Init /\ TypeOK => IInv
  BY <1>1 DEF IInv
<1> QED
  BY <1>2, <1>3, TypeCorrect, PTL DEF Spec

\* IDs come out in order, hence without duplicates, unless a millisecond's
\* numbers ran out in normal mode.
THEOREM IDsOrdered == Spec => []OrderedUnlessOverflowed
<1>1. IInv => OrderedUnlessOverflowed
  BY DEF IInv, IdInv
<1> QED
  BY <1>1, InductiveInvariant, PTL

\* A millisecond's numbers are issued without gaps.
THEOREM SequencesGapless == Spec => []NoSequenceGaps
<1>1. IInv => NoSequenceGaps
  BY DEF IInv, IdInv
<1> QED
  BY <1>1, InductiveInvariant, PTL

\* The timestamp leaves the clock only after a millisecond is really used up.
THEOREM SyntheticAdvanceJustified == Spec => SyntheticAdvanceOnlyWhenExhausted
<1> DEFINE Exhausted == \A s \in 0 .. MaxSequence : \E i \in DOMAIN issued :
                            issued[i].ts = lastTimestamp /\ issued[i].seq = s
           Justified == (lastTimestamp' # lastTimestamp /\ lastTimestamp' # now) =>
                            lastTimestamp' = lastTimestamp + 1 /\ Exhausted
<1>1. ASSUME IInv, [Next]_vars
      PROVE  Justified
  <2>1. ASSUME UNCHANGED idVars
        PROVE  Justified
    BY <2>1 DEF idVars
  <2>2. ASSUME NEW c \in Callers, Call(c) \/ CallerStep(c)
        PROVE  Justified
    <3>1. CASE IssueInSameMillisecond(c) \/ IssueInNewMillisecond(c)
               \/ WaitForNextMillisecond(c)
      BY <3>1 DEF IssueInSameMillisecond, IssueInNewMillisecond,
                  WaitForNextMillisecond, Emit
    <3>2. CASE AdvanceSyntheticTimestamp(c)
      <4>1. lastTimestamp' = lastTimestamp + 1 /\ NextSequence = 0
        BY <3>2 DEF AdvanceSyntheticTimestamp, Emit
      <4>2. sequence = MaxSequence
        BY <1>1, <4>1, NextIsSuccessor, ConfigAssumption DEF IInv, IdInv, TypeOK
      <4>3. lastTimestamp # -1
        BY <1>1, <3>2, BoundsAssumption
           DEF AdvanceSyntheticTimestamp, IgnoreMode, Backward, IInv, TypeOK
      <4>4. Exhausted
        BY <1>1, <4>2, <4>3 DEF IInv, IdInv, PrefixIssued
      <4> QED
        BY <4>1, <4>4
    <3>3. CASE Call(c) \/ CheckShutdown(c) \/ RefuseAfterShutdown(c)
               \/ RejectDrift(c) \/ WaitForClock(c) \/ GiveUp(c) \/ Sleep(c)
      BY <3>3, <2>1 DEF Call, CheckShutdown, RefuseAfterShutdown, RejectDrift,
                        WaitForClock, GiveUp, Sleep
    <3> QED
      BY <2>2, <3>1, <3>2, <3>3 DEF CallerStep
  <2>3. CASE SetWorkerID \/ Shutdown \/ ClockStep \/ UNCHANGED vars
    BY <2>3, <2>1 DEF SetWorkerID, Shutdown, ClockStep, vars
  <2> QED
    BY <1>1, <2>2, <2>3 DEF Next
<1>2. IInv /\ [Next]_vars => [Justified]_vars
  BY <1>1
<1> QED
  BY <1>2, InductiveInvariant, PTL DEF Spec, SyntheticAdvanceOnlyWhenExhausted

\* The absorbed drift bounds how far ahead of the clock an ID is stamped.
THEOREM IDsNearClock == Spec => []IssuedNearClock
<1>1. Init => IssuedNearClock
  BY DEF Init, IssuedNearClock
<1>2. ASSUME TypeOK, IssuedNearClock, [Next]_vars
      PROVE  IssuedNearClock'
  <2>1. ASSUME issued' = issued, config' = config
        PROVE  IssuedNearClock'
    BY <1>2, <2>1 DEF IssuedNearClock
  <2>2. ASSUME NEW c \in Callers, NEW t \in Nat, NEW s \in 0 .. MaxSequence,
               Emit(c, t, s), t - now >= 0, t - now <= MaxIgnoreBackwardDrift + 1,
               config.clockDriftAction # "ignore" => t - now = 0
        PROVE  IssuedNearClock'
    <3> DEFINE x == [ts |-> t, worker |-> workerID, seq |-> s, at |-> now]
    <3>1. x \in ID /\ x.ts = t /\ x.at = now
      BY <1>2 DEF TypeOK, ID
    <3>2. issued' = Append(issued, x) /\ config' = config
      BY <2>2 DEF Emit, clockVars
    <3> HIDE DEF x
    <3>3. /\ DOMAIN issued = 1 .. Len(issued)
          /\ DOMAIN issued' = 1 .. Len(issued) + 1
          /\ Len(issued) \in Nat
          /\ issued'[Len(issued) + 1] = x
          /\ \A i \in 1 .. Len(issued) : issued'[i] = issued[i]
      BY <1>2, <3>1, <3>2, AppendIssued
    <3>4. ASSUME NEW i \in DOMAIN issued'
          PROVE  LET ahead == issued'[i].ts - issued'[i].at IN
                 /\ ahead >= 0
                 /\ config.clockDriftAction # "ignore" => ahead = 0
                 /\ ahead <= MaxIgnoreBackwardDrift + 1
      <4>1. CASE i = Len(issued) + 1
        BY <2>2, <3>1, <3>3, <4>1
      <4>2. CASE i \in DOMAIN issued
        BY <1>2, <3>3, <4>2 DEF IssuedNearClock
      <4> QED
        BY <3>3, <3>4, <4>1, <4>2
    <3> QED
      BY <3>2, <3>4 DEF IssuedNearClock
  <2>3. /\ now \in Nat /\ lastTimestamp \in Int /\ MaxIgnoreBackwardDrift \in Nat
        /\ 0 \in 0 .. MaxSequence /\ NextSequence \in 0 .. MaxSequence
    BY <1>2, BoundsAssumption, ConfigAssumption, NextSequenceType DEF TypeOK
  <2>4. ASSUME NEW c \in Callers, Call(c) \/ CallerStep(c)
        PROVE  IssuedNearClock'
    <3>1. CASE IssueInSameMillisecond(c)
      BY <3>1, <2>2, <2>3
         DEF IssueInSameMillisecond, SameMillisecond, IgnoreMode, Backward, DriftMs
    <3>2. CASE IssueInNewMillisecond(c)
      BY <3>2, <2>2, <2>3 DEF IssueInNewMillisecond
    <3>3. CASE AdvanceSyntheticTimestamp(c)
      BY <3>3, <2>2, <2>3
         DEF AdvanceSyntheticTimestamp, IgnoreMode, Backward, DriftMs
    <3>4. CASE Call(c) \/ CheckShutdown(c) \/ RefuseAfterShutdown(c)
               \/ RejectDrift(c) \/ WaitForClock(c) \/ GiveUp(c) \/ Sleep(c)
               \/ WaitForNextMillisecond(c)
      BY <3>4, <2>1
         DEF Call, CheckShutdown, RefuseAfterShutdown, RejectDrift, WaitForClock,
             GiveUp, Sleep, WaitForNextMillisecond, idVars, clockVars
    <3> QED
      BY <2>4, <3>1, <3>2, <3>3, <3>4 DEF CallerStep
  <2>5. CASE SetWorkerID \/ Shutdown \/ ClockStep \/ UNCHANGED vars
    BY <2>5, <2>1 DEF SetWorkerID, Shutdown, ClockStep, vars, idVars, clockVars
  <2> QED
    BY <1>2, <2>4, <2>5 DEF Next
<1> QED
  BY <1>1, <1>2, TypeCorrect, PTL DEF Spec

\* Whoever raced past the lock-free check issues nothing after Shutdown.
THEOREM ShutdownIsFinal == Spec => NoIDAfterShutdown
<1>1. ASSUME [Next]_vars, isShuttingDown
      PROVE  issued' = issued
  <2>1. ASSUME NEW c \in Callers, Call(c) \/ CallerStep(c)
        PROVE  issued' = issued
    BY <1>1, <2>1
       DEF CallerStep, Call, CheckShutdown, RefuseAfterShutdown, RejectDrift,
           WaitForClock, IssueInSameMillisecond, IssueInNewMillisecond,
           AdvanceSyntheticTimestamp, WaitForNextMillisecond, GiveUp, Sleep,
           Attempts, idVars
  <2>2. CASE SetWorkerID \/ Shutdown \/ ClockStep \/ UNCHANGED vars
    BY <2>2 DEF SetWorkerID, Shutdown, ClockStep, vars, idVars
  <2> QED
    BY <1>1, <2>1, <2>2 DEF Next
<1> QED
  BY <1>1, PTL DEF Spec, NoIDAfterShutdown

-----------------------------------------------------------------------------
(* The generator implements IdSource.                                       *)

\* As long as no ID is issued the source sees no stamp.
LEMMA StampsStutter ==
    ASSUME UNCHANGED idVars
    PROVE  UNCHANGED Source!vars
BY DEF idVars, Source!vars, Stamps

\* Appending an ID appends its stamp.
LEMMA StampsAppend ==
    ASSUME TypeOK, NEW c \in Callers, NEW t \in Nat, NEW s \in 0 .. MaxSequence,
           Emit(c, t, s)
    PROVE  \E w \in WorkerIDs :
               Stamps' = Append(Stamps, [ts |-> lastTimestamp', worker |-> w,
                                         seq |-> sequence'])
<1> DEFINE x == [ts |-> t, worker |-> workerID, seq |-> s, at |-> now]
           n == Len(issued)
           y == [ts |-> t, worker |-> workerID, seq |-> s]
<1>1. x \in ID /\ x.ts = t /\ x.worker = workerID /\ x.seq = s
  BY DEF TypeOK, ID
<1>2. issued' = Append(issued, x) /\ lastTimestamp' = t /\ sequence' = s
  BY DEF Emit
<1> HIDE DEF x
<1>3. /\ n \in Nat
      /\ DOMAIN issued = 1 .. n
      /\ DOMAIN issued' = 1 .. n + 1
      /\ issued'[n + 1] = x
      /\ \A i \in 1 .. n : issued'[i] = issued[i]
  BY <1>1, <1>2, AppendIssued
<1>4. Stamps = [i \in 1 .. n |-> [ts |-> issued[i].ts, worker |-> issued[i].worker,
                                  seq |-> issued[i].seq]]
  BY <1>3 DEF Stamps
<1>5. Stamps' = [i \in 1 .. n + 1 |-> IF i = n + 1 THEN y ELSE Stamps[i]]
  BY <1>1, <1>3, <1>4 DEF Stamps
<1>6. Len(Stamps) = n
  BY <1>3, <1>4
<1>7. Stamps' = Append(Stamps, y)
  BY <1>3, <1>4, <1>5, <1>6
<1>8. workerID \in WorkerIDs
  BY DEF TypeOK
<1> QED
  BY <1>2, <1>7, <1>8

\* Every step is a step of the source or invisible to it.
THEOREM GeneratorImplementsIdSource == Spec => ImplementsIdSource
<1>1. Init => Source!Init
  BY DEF Init, Source!Init, Stamps
<1>2. ASSUME IInv, [Next]_vars
      PROVE  [Source!Next]_Source!vars
  <2>0. TypeOK /\ IdInv
    BY <1>2 DEF IInv
  <2>1. ASSUME UNCHANGED idVars
        PROVE  [Source!Next]_Source!vars
    BY <2>1, StampsStutter
  <2>2. ASSUME NEW c \in Callers, Call(c) \/ CallerStep(c)
        PROVE  [Source!Next]_Source!vars
    <3>1. CASE IssueInSameMillisecond(c)
      <4>1. lastTimestamp \in Nat /\ Emit(c, lastTimestamp, NextSequence)
        BY <2>0, <3>1, BoundsAssumption
           DEF IssueInSameMillisecond, SameMillisecond, IgnoreMode, Backward, TypeOK
      <4>2. NextSequence = sequence + 1 /\ NextSequence \in 0 .. MaxSequence
        BY <2>0, <3>1, NextIsSuccessor, NextSequenceType
           DEF IssueInSameMillisecond, IdInv
      <4>3. Source!NextNumber
        BY <2>0, <4>1, <4>2, ConfigAssumption DEF Source!NextNumber, Emit, TypeOK
      <4> QED
        BY <2>0, <4>1, <4>2, <4>3, StampsAppend DEF Source!Next, Source!Issue
    <3>2. CASE IssueInNewMillisecond(c) \/ AdvanceSyntheticTimestamp(c)
      <4>1. PICK t \in Nat : t > lastTimestamp /\ Emit(c, t, 0)
        <5>1. /\ lastTimestamp + 1 \in Nat /\ now \in Nat
              /\ lastTimestamp + 1 > lastTimestamp
          BY <2>0, BoundsAssumption DEF TypeOK
        <5> QED
          BY <3>2, <5>1
             DEF IssueInNewMillisecond, NewMillisecond, AdvanceSyntheticTimestamp
      <4>2. Source!LaterMillisecond /\ 0 \in 0 .. MaxSequence
        BY <4>1, ConfigAssumption DEF Source!LaterMillisecond, Emit
      <4> QED
        BY <2>0, <4>1, <4>2, StampsAppend DEF Source!Next, Source!Issue
    <3>3. CASE WaitForNextMillisecond(c)
      <4>1. sequence = MaxSequence
        BY <2>0, <3>3, NextIsSuccessor, ConfigAssumption
           DEF WaitForNextMillisecond, IdInv, TypeOK
      <4> QED
        BY <3>3, <4>1 DEF WaitForNextMillisecond, Source!Next, Source!Rewind, Stamps
    <3>4. CASE Call(c) \/ CheckShutdown(c) \/ RefuseAfterShutdown(c)
               \/ RejectDrift(c) \/ WaitForClock(c) \/ GiveUp(c) \/ Sleep(c)
      BY <3>4, <2>1 DEF Call, CheckShutdown, RefuseAfterShutdown, RejectDrift,
                        WaitForClock, GiveUp, Sleep
    <3> QED
      BY <2>2, <3>1, <3>2, <3>3, <3>4 DEF CallerStep
  <2>3. CASE SetWorkerID \/ Shutdown \/ ClockStep \/ UNCHANGED vars
    BY <2>3, <2>1 DEF SetWorkerID, Shutdown, ClockStep, vars
  <2> QED
    BY <1>2, <2>2, <2>3 DEF Next
<1> QED
  BY <1>1, <1>2, InductiveInvariant, PTL DEF Spec, ImplementsIdSource, Source!Spec
=============================================================================
