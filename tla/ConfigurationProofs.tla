------------------------ MODULE ConfigurationProofs ------------------------
(***************************************************************************)
(* Theorems about Configuration, for any values of the settings: the worker *)
(* ID that the generator stamps is the one that is leased, the lease and    *)
(* the beats stay within the key, IDs give back what they were composed     *)
(* from, and the two validators and the two searches for a Redis client     *)
(* agree as far as they are meant to.                                       *)
(***************************************************************************)
EXTENDS Configuration, TLAPS

-----------------------------------------------------------------------------
(* Powers of two and division.                                              *)

\* Powers of two up to the 22 bits that an ID leaves beside its timestamp: the
\* arithmetic of the provers knows a power only of a given number.
LEMMA Power ==
  ASSUME NEW n \in 0 .. 22
  PROVE  /\ 2^n \in Nat /\ 2^n >= 1 /\ (n >= 1 => 2^n >= 2)
         /\ 2^(n + 1) = 2 * 2^n
<1>1. CASE n = 0
  BY <1>1
<1>2. CASE n = 1
  BY <1>2
<1>3. CASE n = 2
  BY <1>3
<1>4. CASE n = 3
  BY <1>4
<1>5. CASE n = 4
  BY <1>5
<1>6. CASE n = 5
  BY <1>6
<1>7. CASE n = 6
  BY <1>7
<1>8. CASE n = 7
  BY <1>8
<1>9. CASE n = 8
  BY <1>9
<1>10. CASE n = 9
  BY <1>10
<1>11. CASE n = 10
  BY <1>11
<1>12. CASE n = 11
  BY <1>12
<1>13. CASE n = 12
  BY <1>13
<1>14. CASE n = 13
  BY <1>14
<1>15. CASE n = 14
  BY <1>15
<1>16. CASE n = 15
  BY <1>16
<1>17. CASE n = 16
  BY <1>17
<1>18. CASE n = 17
  BY <1>18
<1>19. CASE n = 18
  BY <1>19
<1>20. CASE n = 19
  BY <1>20
<1>21. CASE n = 20
  BY <1>21
<1>22. CASE n = 21
  BY <1>22
<1>23. CASE n = 22
  BY <1>23
<1> QED
  BY <1>1, <1>2, <1>3, <1>4, <1>5, <1>6, <1>7, <1>8, <1>9, <1>10, <1>11, <1>12,
     <1>13, <1>14, <1>15, <1>16, <1>17, <1>18, <1>19, <1>20, <1>21, <1>22, <1>23

LEMMA PowerOfSum ==
  ASSUME NEW m \in 0 .. 22, NEW k \in 0 .. 16, m + k <= 22
  PROVE  2^(m + k) = 2^m * 2^k
<1> DEFINE P(j) == m + j <= 22 => 2^(m + j) = 2^m * 2^j
<1>1. ASSUME NEW j \in 0 .. 15, P(j)
      PROVE  P(j + 1)
  <2>1. CASE m + j + 1 <= 22
    <3>1. 2^(m + j) = 2^m * 2^j
      BY <1>1, <2>1
    <3>2. 2^(j + 1) = 2 * 2^j /\ 2^j \in Nat
      BY Power, j \in 0 .. 22, Zenon
    <3>3. 2^((m + j) + 1) = 2 * 2^(m + j) /\ 2^m \in Nat
      <4>1. m + j \in 0 .. 22
        BY <2>1
      <4> QED
        BY <4>1, Power, Zenon
    <3>4. (m + j) + 1 = m + (j + 1)
      OBVIOUS
    <3> HIDE DEF P
    <3>5. 2^(m + (j + 1)) = 2^m * 2^(j + 1)
      BY <3>1, <3>2, <3>3, <3>4
    <3> QED
      BY <3>5 DEF P
  <2> QED
    BY <2>1
<1>2. P(0)
  BY Power
<1> HIDE DEF P
<1>3. P(1) /\ P(2) /\ P(3) /\ P(4)
  BY <1>1, <1>2
<1>4. P(5) /\ P(6) /\ P(7) /\ P(8)
  BY <1>1, <1>3
<1>5. P(9) /\ P(10) /\ P(11) /\ P(12)
  BY <1>1, <1>4
<1>6. P(13) /\ P(14) /\ P(15) /\ P(16)
  BY <1>1, <1>5
<1>7. P(k)
  <2>1.
        \/ k = 0 \/ k = 1 \/ k = 2 \/ k = 3 \/ k = 4 \/ k = 5 \/ k = 6 \/ k = 7
        \/ k = 8 \/ k = 9 \/ k = 10 \/ k = 11 \/ k = 12 \/ k = 13 \/ k = 14
        \/ k = 15 \/ k = 16
    OBVIOUS
  <2> QED
    BY <1>2, <1>3, <1>4, <1>5, <1>6, <2>1
<1> QED
  BY <1>7 DEF P

\* A quotient and a remainder are found back.
LEMMA DivMod ==
  ASSUME NEW b \in Nat \ {0}, NEW q \in Nat, NEW r \in 0 .. b - 1
  PROVE  (q * b + r) \div b = q /\ (q * b + r) % b = r
OBVIOUS

-----------------------------------------------------------------------------
(* The inductive invariant.                                                 *)

\* The settings are read once and never written.
SettingsKnown ==
    /\ conf \in EonId \union {Fallback}
    /\ redis \in RedisConf
    /\ resources \in Resources

\* How far the plugin has come says whether there is a generator, with which
\* layout, and whether registration is on.
StageKnown ==
    /\ auto \in BOOLEAN
    /\ phase \in {"created", "initialized", "started", "failed", "standalone"}
    /\ phase \in {"created", "standalone", "failed"} => gen = NoGenerator
    /\ phase = "created" => auto = conf.AutoRegisterWorkerId
    /\ phase = "failed" => ~Constructs(conf)
    /\ phase \in {"initialized", "started"} =>
          /\ Constructs(conf) /\ gen = Layout(GeneratorConfig(conf))
          /\ auto = (conf.AutoRegisterWorkerId /\ ResolvesClient)

\* A worker ID is leased exactly where there is a range to draw from, and a
\* generator follows it.
RegistrationKnown ==
    /\ range # Unset <=> leased # Unset
    /\ phase \in {"created", "initialized", "failed"} => range = Unset
    /\ range # Unset =>
          /\ conf.AutoRegisterWorkerId
          /\ range = IF phase = "standalone" THEN 1023 ELSE RegistrationRange
          /\ phase = "standalone" => leased \in Nat
          /\ phase = "started" => leased = workerID
    /\ range = Unset => workerID = conf.WorkerId
    /\ phase = "standalone" => workerID \in Nat
    /\ phase = "started" => workerID \in 0 .. gen.maxWorkerID

\* A key was written at registration with the TTL or by a beat with the whole
\* seconds of it, and each beat lost since adds its interval to the silence.
KeyKnown ==
    /\ key \in [life : Nat, silence : Nat, lost : 0 .. MaxLostBeats]
    /\ leased # Unset =>
          /\ \/ key.life = NewKey(Ttl).life
             \/ key.life = RenewedFor /\ RenewedFor > 0
          /\ key.lost = 0 => key.silence = 0
          /\ key.lost = 1 => key.silence = Interval

IInv == SettingsKnown /\ StageKnown /\ RegistrationKnown /\ KeyKnown

\* Numbers are numbers, whichever message was scanned.
LEMMA SettingsType ==
  ASSUME SettingsKnown
  PROVE  /\ conf.DatacenterId \in Nat /\ conf.WorkerId \in Nat
         /\ conf.WorkerIdBits \in Nat /\ conf.SequenceBits \in Nat
         /\ conf.SequenceCacheSize \in Nat
         /\ conf.MaxClockDrift \in Nat \union {Unset}
         /\ conf.EpochAge \in Nat \union {Unset, Future}
         /\ conf.AutoRegisterWorkerId \in BOOLEAN
         /\ conf.EnableSequenceCache \in BOOLEAN
         /\ conf.EnableClockDriftProtection \in BOOLEAN
         /\ redis.WorkerIdTtl \in Nat \union {Unset}
         /\ redis.HeartbeatInterval \in Nat \union {Unset}
<1>1. /\ redis.WorkerIdTtl \in Nat \union {Unset}
      /\ redis.HeartbeatInterval \in Nat \union {Unset}
  BY InputAssumption DEF SettingsKnown, RedisConf
<1>2. CASE conf \in EonId
  BY <1>1, <1>2, InputAssumption DEF EonId
<1>3. CASE conf = Fallback
  BY <1>1, <1>3 DEF Fallback, DefaultWorkerBits, DefaultSequenceBits, DefaultCacheSize
<1> QED
  BY <1>2, <1>3 DEF SettingsKnown

LEMMA TtlType ==
  ASSUME SettingsKnown
  PROVE  Ttl \in Nat /\ Interval \in Nat /\ RenewedFor \in Nat /\ NewKey(Ttl).life \in Nat
<1>1. Ttl \in Nat /\ Interval \in Nat
  BY SettingsType DEF Ttl, Interval, Effective, OrDefault, Unset, DefaultTtl,
     DefaultInterval
<1> QED
  BY <1>1 DEF RenewedFor, NewKey, Forever, Hour

\* A constructed generator has at least one bit for its worker ID, and its
\* configured worker ID fits in.
LEMMA ConstructedBits ==
  ASSUME SettingsKnown, Constructs(conf)
  PROVE  LET g == GeneratorConfig(conf) IN
         /\ g.DatacenterIDBits = 5
         /\ g.WorkerIDBits \in 1 .. 10 /\ g.SequenceBits \in 7 .. 16
         /\ 5 + g.WorkerIDBits + g.SequenceBits <= 22
         /\ conf.DatacenterId \in 0 .. 2^5 - 1
         /\ conf.WorkerId \in 0 .. 2^g.WorkerIDBits - 1
         /\ g.WorkerIDBits = OrDefault(conf.WorkerIdBits, 0, DefaultWorkerBits)
         /\ g.SequenceBits = OrDefault(conf.SequenceBits, 0, DefaultSequenceBits)
<1>1. /\ GeneratorConfig(conf).WorkerIDBits \in Nat
      /\ GeneratorConfig(conf).SequenceBits \in Nat
  BY SettingsType DEF GeneratorConfig, OrDefault, DefaultWorkerBits, DefaultSequenceBits
<1>2. GeneratorConfig(conf).DatacenterIDBits = 5
  BY DEF GeneratorConfig, DefaultDatacenterBits
<1>3. BitsFit(5, GeneratorConfig(conf).WorkerIDBits, GeneratorConfig(conf).SequenceBits)
  BY <1>2 DEF Constructs, Validate
<1>4. /\ conf.DatacenterId \in 0 .. 2^5 - 1
      /\ conf.WorkerId \in 0 .. 2^GeneratorConfig(conf).WorkerIDBits - 1
  BY <1>2 DEF Constructs
<1>5. /\ GeneratorConfig(conf).WorkerIDBits = OrDefault(conf.WorkerIdBits, 0, DefaultWorkerBits)
      /\ GeneratorConfig(conf).SequenceBits = OrDefault(conf.SequenceBits, 0, DefaultSequenceBits)
  BY DEF GeneratorConfig
<1> QED
  BY <1>1, <1>2, <1>3, <1>4, <1>5 DEF BitsFit

\* The range of registration, computed from the message, is the generator's.
LEMMA RangeIsGenerators ==
  ASSUME SettingsKnown, Constructs(conf)
  PROVE  /\ RegistrationRange = Layout(GeneratorConfig(conf)).maxWorkerID
         /\ RegistrationRange \in Nat
<1> DEFINE bits == GeneratorConfig(conf).WorkerIDBits
<1>1. Layout(GeneratorConfig(conf)).maxWorkerID = 2^bits - 1
  BY DEF Layout
<1>2. bits = OrDefault(conf.WorkerIdBits, 0, DefaultWorkerBits) /\ bits \in 1 .. 10
  BY ConstructedBits
<1>3. CASE conf.WorkerIdBits = 0
  <2>1. bits = 5
    BY <1>2, <1>3 DEF OrDefault, DefaultWorkerBits
  <2>2. RegistrationRange = 31
    BY <1>3 DEF RegistrationRange
  <2> QED
    BY <1>1, <2>1, <2>2
<1>4. CASE conf.WorkerIdBits # 0
  <2>1. bits = conf.WorkerIdBits
    BY <1>2, <1>4 DEF OrDefault
  <2>2. 2^bits \in Nat /\ 2^bits >= 2
    <3>1. bits \in 0 .. 22 /\ bits >= 1
      BY <1>2
    <3> HIDE DEF bits
    <3> QED
      BY <3>1, Power, Zenon
  <2>3. RegistrationRange = 2^bits - 1
    BY <2>1, <2>2 DEF RegistrationRange
  <2> QED
    BY <1>1, <2>2, <2>3
<1> QED
  BY <1>3, <1>4

LEMMA InvariantInit ==
  ASSUME Init
  PROVE  IInv
<1>1. Only("redis") \in Resources /\ Only("none") \in Resources
  BY DEF Only, Resources
<1>2. FallbackRedis \in RedisConf
  BY DEF FallbackRedis, RedisConf
<1>3. \A name \in {"", "redis", "redis.client", "mine"} :
          [FallbackRedis EXCEPT !.RedisPluginName = name] \in RedisConf
  BY DEF FallbackRedis, RedisConf
<1>4. SettingsKnown
  BY <1>1, <1>2, <1>3 DEF Init, SettingsKnown
<1>5. StageKnown
  BY <1>4, SettingsType DEF Init, StageKnown
<1>6. RegistrationKnown
  BY DEF Init, RegistrationKnown
<1>7. KeyKnown
  <2>1. key = NoKey /\ leased = Unset
    BY DEF Init
  <2>2. MaxLostBeats \in Nat
    BY InputAssumption
  <2> QED
    BY <2>1, <2>2 DEF KeyKnown, NoKey
<1> QED
  BY <1>4, <1>5, <1>6, <1>7 DEF IInv

\* What is computed from the settings alone stays; the TTL and the interval
\* change only where a plugin becomes a standalone one.
LEMMA SettingsFrame ==
  ASSUME UNCHANGED settings
  PROVE  /\ RegistrationRange' = RegistrationRange
         /\ ResolvesClient' = ResolvesClient
         /\ phase' = "standalone" <=> phase = "standalone" =>
               /\ Ttl' = Ttl /\ Interval' = Interval /\ RenewedFor' = RenewedFor
<1>1. conf' = conf /\ redis' = redis /\ resources' = resources
  BY DEF settings
<1>2. RegistrationRange' = RegistrationRange
  BY <1>1 DEF RegistrationRange
<1>3. ResolvesClient' = ResolvesClient
  BY <1>1 DEF ResolvesClient
<1>4. ASSUME phase' = "standalone" <=> phase = "standalone"
      PROVE  Ttl' = Ttl /\ Interval' = Interval
  BY <1>1, <1>4 DEF Ttl, Interval, Effective
<1> QED
  BY <1>2, <1>3, <1>4 DEF RenewedFor

\* A worker ID is registered with a new key.
LEMMA NewKeyKnown ==
  ASSUME IInv, UNCHANGED settings, key' = NewKey(Ttl'), Ttl' \in Nat
  PROVE  KeyKnown'
<1>1. NewKey(Ttl').life \in Nat
  BY DEF NewKey, Forever, Hour
<1>2. /\ key' = [life |-> NewKey(Ttl').life, silence |-> 0, lost |-> 0]
      /\ MaxLostBeats \in Nat
  BY InputAssumption DEF NewKey
<1> QED
  BY <1>1, <1>2 DEF KeyKnown

LEMMA InitializeKeeps ==
  ASSUME IInv, InitializeResources
  PROVE  IInv'
<1>1. /\ UNCHANGED settings /\ UNCHANGED <<range, leased, workerID, key>>
      /\ phase = "created" /\ auto' = (auto /\ ResolvesClient)
      /\ phase' = IF Constructs(conf) THEN "initialized" ELSE "failed"
      /\ gen' = IF Constructs(conf) THEN Layout(GeneratorConfig(conf)) ELSE gen
  BY DEF InitializeResources
<1>2. conf' = conf /\ redis' = redis /\ resources' = resources
  BY <1>1 DEF settings
<1>3. range = Unset /\ leased = Unset /\ gen = NoGenerator
      /\ auto = conf.AutoRegisterWorkerId
  BY <1>1 DEF IInv, StageKnown, RegistrationKnown
<1>4. SettingsKnown' /\ KeyKnown'
  BY <1>1, <1>2, <1>3 DEF IInv, SettingsKnown, KeyKnown
<1>5. ResolvesClient' = ResolvesClient /\ ResolvesClient \in BOOLEAN
  BY <1>1, SettingsFrame DEF ResolvesClient
<1>6. StageKnown'
  BY <1>1, <1>2, <1>3, <1>5 DEF IInv, StageKnown
<1>7. RegistrationKnown'
  BY <1>1, <1>2, <1>3 DEF IInv, RegistrationKnown
<1> QED
  BY <1>4, <1>6, <1>7 DEF IInv

LEMMA StartKeeps ==
  ASSUME IInv, StartWithoutRedis \/ StartWithSpecificID \/ StartWithAnyID
  PROVE  IInv'
<1>1. /\ UNCHANGED settings /\ UNCHANGED <<auto, gen>>
      /\ phase = "initialized" /\ phase' = "started"
  BY DEF StartWithoutRedis, StartWithSpecificID, StartWithAnyID
<1>2. conf' = conf /\ redis' = redis /\ resources' = resources
  BY <1>1 DEF settings
<1>3. /\ range = Unset /\ leased = Unset /\ workerID = conf.WorkerId
      /\ Constructs(conf) /\ gen = Layout(GeneratorConfig(conf))
  BY <1>1 DEF IInv, StageKnown, RegistrationKnown
<1>4. /\ RegistrationRange' = RegistrationRange /\ ResolvesClient' = ResolvesClient
      /\ Ttl' = Ttl /\ Ttl \in Nat
  BY <1>1, SettingsFrame, TtlType DEF IInv
<1>5. SettingsKnown'
  BY <1>2 DEF IInv, SettingsKnown
<1>6. StageKnown'
  BY <1>1, <1>2, <1>4 DEF IInv, StageKnown
<1>7. /\ RegistrationRange = gen.maxWorkerID /\ RegistrationRange \in Nat
      /\ conf.WorkerId \in 0 .. gen.maxWorkerID /\ gen' = gen
  <2>1. gen.maxWorkerID = 2^GeneratorConfig(conf).WorkerIDBits - 1
    BY <1>3 DEF Layout
  <2> QED
    BY <1>1, <1>3, <2>1, ConstructedBits, RangeIsGenerators DEF IInv
<1>8. KeyKnown'
  <2>1. CASE StartWithoutRedis
    BY <1>3, <2>1 DEF IInv, StartWithoutRedis, KeyKnown
  <2>2. CASE StartWithSpecificID \/ StartWithAnyID
    BY <1>1, <1>4, <2>2, NewKeyKnown DEF StartWithSpecificID, StartWithAnyID
  <2> QED
    BY <2>1, <2>2
<1>9. auto => conf.AutoRegisterWorkerId
  BY <1>1 DEF IInv, StageKnown
<1>10. RegistrationKnown'
  <2>1. CASE StartWithoutRedis
    BY <1>1, <1>2, <1>3, <1>7, <2>1 DEF StartWithoutRedis, RegistrationKnown
  <2>2. CASE StartWithSpecificID
    BY <1>1, <1>2, <1>3, <1>4, <1>7, <1>9, <2>2
       DEF StartWithSpecificID, RegistrationKnown, Unset
  <2>3. CASE StartWithAnyID
    BY <1>1, <1>2, <1>3, <1>4, <1>7, <1>9, <2>3
       DEF StartWithAnyID, RegistrationKnown, Unset
  <2> QED
    BY <2>1, <2>2, <2>3
<1> QED
  BY <1>5, <1>6, <1>8, <1>10 DEF IInv

LEMMA StandaloneKeeps ==
  ASSUME IInv, StartStandalone
  PROVE  IInv'
<1>1. /\ UNCHANGED settings /\ UNCHANGED <<auto, gen, workerID>>
      /\ phase = "created" /\ phase' = "standalone"
      /\ IF conf.AutoRegisterWorkerId
           THEN range' = 1023 /\ leased' \in {0, 1023}
           ELSE UNCHANGED <<range, leased>>
      /\ key' = IF conf.AutoRegisterWorkerId
                  THEN NewKey(Effective(phase', redis.WorkerIdTtl, DefaultTtl)) ELSE key
  BY DEF StartStandalone
<1>2. conf' = conf /\ redis' = redis /\ resources' = resources
  BY <1>1 DEF settings
<1>3. range = Unset /\ leased = Unset /\ gen = NoGenerator /\ workerID = conf.WorkerId
  BY <1>1 DEF IInv, StageKnown, RegistrationKnown
<1>4. SettingsKnown' /\ workerID' \in Nat
  BY <1>1, <1>2, <1>3, SettingsType DEF IInv, SettingsKnown
<1>5. StageKnown'
  BY <1>1, <1>2, <1>3 DEF IInv, StageKnown
<1>6. RegistrationKnown'
  BY <1>1, <1>2, <1>3, <1>4 DEF RegistrationKnown, Unset
<1>7. KeyKnown'
  <2>1. CASE conf.AutoRegisterWorkerId
    <3>1. Ttl' = Effective(phase', redis.WorkerIdTtl, DefaultTtl)
      BY <1>2 DEF Ttl
    <3>2. Ttl' \in Nat
      BY <1>1, <3>1, SettingsType DEF IInv, Effective, DefaultTtl, Unset
    <3> QED
      BY <1>1, <2>1, <3>1, <3>2, NewKeyKnown
  <2>2. CASE ~conf.AutoRegisterWorkerId
    BY <1>1, <1>3, <2>2 DEF IInv, KeyKnown
  <2> QED
    BY <2>1, <2>2
<1> QED
  BY <1>4, <1>5, <1>6, <1>7 DEF IInv

LEMMA ReregisterKeeps ==
  ASSUME IInv, Reregister
  PROVE  IInv'
<1>1. /\ UNCHANGED settings /\ UNCHANGED <<auto, phase, gen, range>>
      /\ range # Unset /\ leased' \in {0, range} /\ key' = NewKey(Ttl)
      /\ workerID' = IF gen.built /\ leased' \in 0 .. gen.maxWorkerID
                       THEN leased' ELSE workerID
  BY DEF Reregister
<1>2. conf' = conf /\ redis' = redis /\ resources' = resources
  BY <1>1 DEF settings
<1>3. /\ RegistrationRange' = RegistrationRange /\ ResolvesClient' = ResolvesClient
      /\ Ttl' = Ttl /\ Ttl \in Nat
  BY <1>1, SettingsFrame, TtlType DEF IInv
<1>4. SettingsKnown' /\ StageKnown'
  BY <1>1, <1>2, <1>3 DEF IInv, SettingsKnown, StageKnown
<1>5. KeyKnown'
  BY <1>1, <1>3, NewKeyKnown
<1>6. CASE phase = "started"
  <2>1. Constructs(conf) /\ gen = Layout(GeneratorConfig(conf))
    BY <1>6 DEF IInv, StageKnown
  <2>2. RegistrationRange = gen.maxWorkerID /\ RegistrationRange \in Nat
    BY <2>1, RangeIsGenerators DEF IInv
  <2>3. gen.built
    BY <2>1 DEF Layout
  <2>4. range = RegistrationRange
    BY <1>1, <1>6 DEF IInv, RegistrationKnown
  <2>5. workerID' = leased' /\ leased' \in 0 .. gen.maxWorkerID
    BY <1>1, <2>2, <2>3, <2>4
  <2> QED
    BY <1>1, <1>2, <1>3, <1>4, <1>5, <1>6, <2>2, <2>4, <2>5 DEF IInv, RegistrationKnown, Unset
<1>7. CASE phase = "standalone"
  <2>1. ~gen.built
    BY <1>7 DEF IInv, StageKnown, NoGenerator
  <2>2. workerID' = workerID /\ range = 1023
    BY <1>1, <1>7, <2>1 DEF IInv, RegistrationKnown
  <2> QED
    BY <1>1, <1>2, <1>3, <1>4, <1>5, <1>7, <2>2 DEF IInv, RegistrationKnown, Unset
<1> QED
  BY <1>1, <1>6, <1>7 DEF IInv, StageKnown, RegistrationKnown

LEMMA BeatKeeps ==
  ASSUME IInv, Heartbeat \/ LoseHeartbeat
  PROVE  IInv'
<1>1. /\ UNCHANGED settings /\ UNCHANGED <<auto, phase, gen, range, leased, workerID>>
      /\ leased # Unset /\ Interval > 0
  BY DEF Heartbeat, LoseHeartbeat, Beating
<1>2. conf' = conf /\ redis' = redis /\ resources' = resources
  BY <1>1 DEF settings
<1>3. /\ RegistrationRange' = RegistrationRange /\ ResolvesClient' = ResolvesClient
      /\ Ttl' = Ttl /\ Interval' = Interval /\ RenewedFor' = RenewedFor
      /\ Ttl \in Nat /\ Interval \in Nat /\ RenewedFor \in Nat
  BY <1>1, SettingsFrame, TtlType DEF IInv
<1>4. SettingsKnown' /\ StageKnown'
  BY <1>1, <1>2, <1>3 DEF IInv, SettingsKnown, StageKnown
<1>5. RegistrationKnown'
  BY <1>1, <1>2, <1>3 DEF IInv, RegistrationKnown
<1>6. MaxLostBeats \in Nat
  BY InputAssumption
<1>7. CASE Heartbeat
  <2>1. key' = [life |-> RenewedFor, silence |-> 0, lost |-> 0] /\ RenewedFor > 0
    BY <1>7 DEF Heartbeat
  <2>2. KeyKnown'
    BY <1>1, <1>3, <1>6, <2>1 DEF KeyKnown
  <2> QED
    BY <1>4, <1>5, <2>2 DEF IInv
<1>8. CASE LoseHeartbeat
  <2>1. /\ key \in [life : Nat, silence : Nat, lost : 0 .. MaxLostBeats]
        /\ key.lost = 0 => key.silence = 0
        /\ \/ key.life = NewKey(Ttl).life
           \/ key.life = RenewedFor /\ RenewedFor > 0
    BY <1>1 DEF IInv, KeyKnown
  <2>2. /\ key' = [key EXCEPT !.silence = key.silence + Interval, !.lost = key.lost + 1]
        /\ key.lost < MaxLostBeats
    BY <1>8 DEF LoseHeartbeat, NextBeat
  <2>3. /\ key'.life = key.life /\ key'.silence = key.silence + Interval
        /\ key'.lost = key.lost + 1
        /\ key' = [life |-> key.life, silence |-> key.silence + Interval,
                  lost |-> key.lost + 1]
    BY <2>1, <2>2
  <2>4. /\ key.lost \in Nat /\ key.lost + 1 \in 0 .. MaxLostBeats
        /\ key.silence + Interval \in Nat /\ key.life \in Nat
    BY <1>3, <1>6, <2>1, <2>2
  <2>5. KeyKnown'
    BY <1>1, <1>3, <2>1, <2>3, <2>4 DEF KeyKnown
  <2> QED
    BY <1>4, <1>5, <2>5 DEF IInv
<1> QED
  BY <1>7, <1>8

LEMMA InvariantStep ==
  ASSUME IInv, [Next]_vars
  PROVE  IInv'
<1>1. CASE UNCHANGED vars
  <2>1. UNCHANGED settings /\ UNCHANGED <<auto, phase, gen, range, leased, workerID, key>>
    BY <1>1 DEF vars
  <2>2. conf' = conf /\ redis' = redis /\ resources' = resources
    BY <2>1 DEF settings
  <2>3. /\ RegistrationRange' = RegistrationRange /\ ResolvesClient' = ResolvesClient
        /\ Ttl' = Ttl /\ Interval' = Interval /\ RenewedFor' = RenewedFor
    BY <2>1, SettingsFrame
  <2> QED
    BY <2>1, <2>2, <2>3 DEF IInv, SettingsKnown, StageKnown, RegistrationKnown, KeyKnown
<1> QED
  BY <1>1, InitializeKeeps, StartKeeps, StandaloneKeeps, ReregisterKeeps, BeatKeeps
     DEF Next


-----------------------------------------------------------------------------
(* IDs.                                                                     *)

\* id has s below w below d below t, in fields of S, W and 32 values; A and B are
\* what d and t count in.
Placed(S, W, A, B, t, d, w, q, id) ==
    /\ S \in Nat \ {0} /\ W \in Nat \ {0} /\ A \in Nat /\ B \in Nat
    /\ A = W * S /\ B = 32 * A
    /\ t \in Nat /\ d \in 0 .. 31 /\ w \in 0 .. W - 1 /\ q \in 0 .. S - 1
    /\ id = t * B + d * A + w * S + q

\* Each field is found back, and the ID counts as its timestamp does.
FoundBack(S, W, A, B, t, d, w, q, id) ==
    /\ id \div B = t /\ (id \div A) % 32 = d /\ (id \div S) % W = w /\ id % S = q
    /\ id \in Nat /\ t * B <= id /\ id < (t + 1) * B

LEMMA FieldsFoundBack ==
  ASSUME NEW S, NEW W, NEW A, NEW B, NEW t, NEW d, NEW w, NEW q, NEW id,
         Placed(S, W, A, B, t, d, w, q, id)
  PROVE  FoundBack(S, W, A, B, t, d, w, q, id)
<1> USE DEF Placed
<1> DEFINE c == t * 32 + d
<1>1. c \in Nat /\ A \in Nat \ {0} /\ B \in Nat \ {0}
  <2>1. W * S >= 1
    OBVIOUS
  <2> QED
    BY <2>1
<1>2. w * S + q \in 0 .. A - 1
  <2>1. w * S \in Nat /\ (w + 1) * S <= W * S
    OBVIOUS
  <2>2. (w + 1) * S = w * S + S
    OBVIOUS
  <2> QED
    BY <2>1, <2>2
<1>3. d * A + (w * S + q) \in 0 .. B - 1
  <2>1. d * A \in Nat /\ (d + 1) * A <= 32 * A
    BY <1>1
  <2>2. (d + 1) * A = d * A + A
    BY <1>1
  <2> QED
    BY <1>2, <2>1, <2>2
<1>4. id = t * B + (d * A + (w * S + q))
  BY <1>1
<1>5. t * B \in Nat /\ (t + 1) * B = t * B + B
  BY <1>1
<1>6. id \div B = t
  BY <1>1, <1>3, <1>4, DivMod
<1>7. id \in Nat /\ t * B <= id /\ id < (t + 1) * B
  <2> HIDE DEF c
  <2> DEFINE rest == d * A + (w * S + q)
  <2>1. rest \in Nat /\ rest < B
    BY <1>1, <1>3
  <2>2. id = t * B + rest
    BY <1>4
  <2> HIDE DEF rest
  <2> QED
    BY <1>5, <2>1, <2>2
<1>8. (id \div A) % 32 = d
  <2>1. id = c * A + (w * S + q)
    <3>1. c * A = t * B + d * A
      BY <1>1
    <3>2. t * B \in Nat /\ d * A \in Nat /\ w * S + q \in Nat /\ c * A \in Nat
      BY <1>1, <1>2, <1>5
    <3> QED
      BY <1>4, <3>1, <3>2
  <2>2. id \div A = c
    BY <1>1, <1>2, <2>1, DivMod
  <2> QED
    BY <2>2, DivMod
<1> DEFINE e == c * W + w
<1>9. e \in Nat /\ c * W \in Nat
  BY <1>1
<1>10. id = e * S + q
  <2>1. t * B + d * A = c * A
    BY <1>1
  <2>2. c * A = (c * W) * S
    BY <1>1
  <2>3. e * S = (c * W) * S + w * S
    BY <1>1, <1>9
  <2>4. /\ t * B \in Nat /\ d * A \in Nat /\ w * S \in Nat /\ e * S \in Nat
        /\ (c * W) * S \in Nat
    BY <1>1, <1>5, <1>9
  <2> QED
    BY <1>4, <2>1, <2>2, <2>3, <2>4
<1>11. e % W = w
  <2> HIDE DEF c
  <2> QED
    BY <1>1, DivMod
<1>12. (id \div S) % W = w /\ id % S = q
  <2> HIDE DEF e
  <2>1. id \div S = e /\ id % S = q
    BY <1>9, <1>10, DivMod
  <2> QED
    BY <1>11, <2>1
<1> QED
  BY <1>6, <1>7, <1>8, <1>12 DEF FoundBack

\* The fields of an ID lie side by side: each shift is the width of what is below.
LEMMA LayoutPowers ==
  ASSUME SettingsKnown, Constructs(conf), gen = Layout(GeneratorConfig(conf))
  PROVE  \E S \in Nat \ {0, 1}, W \in Nat \ {0} :
            /\ 2^gen.workerShift = S /\ gen.maxSequence = S - 1
            /\ 2^gen.datacenterShift = W * S /\ gen.maxWorkerID = W - 1
            /\ 2^gen.timestampShift = 32 * (W * S) /\ gen.maxDatacenterID = 31
            /\ conf.DatacenterId \in 0 .. 31
<1> DEFINE w == GeneratorConfig(conf).WorkerIDBits
           s == GeneratorConfig(conf).SequenceBits
<1>1. /\ GeneratorConfig(conf).DatacenterIDBits = 5
      /\ w \in 1 .. 10 /\ s \in 7 .. 16 /\ 5 + w + s <= 22
      /\ conf.DatacenterId \in 0 .. 2^5 - 1
  BY ConstructedBits
<1>2. /\ gen.workerShift = s /\ gen.maxSequence = 2^s - 1
      /\ gen.datacenterShift = w + s /\ gen.maxWorkerID = 2^w - 1
      /\ gen.timestampShift = 5 + w + s /\ gen.maxDatacenterID = 2^5 - 1
  BY <1>1 DEF Layout
<1> HIDE DEF w, s
<1>3. 2^s \in Nat /\ 2^s >= 2
  <2>1. s \in 0 .. 22 /\ s >= 1
    BY <1>1
  <2> QED
    BY <2>1, Power, Zenon
<1>4. 2^w \in Nat /\ 2^w >= 2
  <2>1. w \in 0 .. 22 /\ w >= 1
    BY <1>1
  <2> QED
    BY <2>1, Power, Zenon
<1>5. 2^(s + w) = 2^s * 2^w
  <2>1. s \in 0 .. 22 /\ w \in 0 .. 16 /\ s + w <= 22
    BY <1>1
  <2> QED
    BY <2>1, PowerOfSum, Zenon
<1>6. 2^((s + w) + 5) = 2^(s + w) * 2^5
  <2>1. s + w \in 0 .. 22 /\ 5 \in 0 .. 16 /\ (s + w) + 5 <= 22
    BY <1>1
  <2> QED
    BY <2>1, PowerOfSum, Zenon
<1>7. w + s = s + w /\ 5 + w + s = (s + w) + 5 /\ 2^5 = 32
  BY <1>1
<1> DEFINE S == 2^s
           W == 2^w
<1>8. 2^(w + s) = W * S /\ 2^(5 + w + s) = 32 * (W * S)
  <2>1. 2^(w + s) = S * W /\ 2^(5 + w + s) = (S * W) * 32
    BY <1>5, <1>6, <1>7
  <2>2. S \in Nat /\ W \in Nat
    BY <1>3, <1>4
  <2> HIDE DEF S, W
  <2> QED
    BY <2>1, <2>2
<1>9. /\ 2^gen.workerShift = S /\ gen.maxSequence = S - 1
      /\ 2^gen.datacenterShift = W * S /\ gen.maxWorkerID = W - 1
      /\ 2^gen.timestampShift = 32 * (W * S)
  BY <1>2, <1>8
<1>10. gen.maxDatacenterID = 31 /\ conf.DatacenterId \in 0 .. 31
  BY <1>1, <1>2, <1>7
<1>11. S \in Nat \ {0, 1} /\ W \in Nat \ {0}
  BY <1>3, <1>4
<1> HIDE DEF S, W
<1> QED
  BY <1>9, <1>10, <1>11

-----------------------------------------------------------------------------
(* The theorems.                                                            *)

LEMMA InvariantHolds == Spec => []IInv
<1>1. Init => IInv
  BY InvariantInit
<1>2. IInv /\ [Next]_vars => IInv'
  BY InvariantStep
<1> QED
  BY <1>1, <1>2, PTL DEF Spec

\* InitializeResources, Start, a recovery and the heartbeats keep the types, and
\* the worker ID in the generator below its maxWorkerID.
THEOREM ConfigurationTypes == Spec => []TypeOK
<1>1. IInv => TypeOK
  <2> SUFFICES ASSUME IInv
               PROVE  TypeOK
    OBVIOUS
  <2>1. conf \in EonId \union {Fallback} /\ redis \in RedisConf /\ resources \in Resources
    BY DEF IInv, SettingsKnown
  <2>2. /\ auto \in BOOLEAN
        /\ phase \in {"created", "initialized", "started", "failed", "standalone"}
    BY DEF IInv, StageKnown
  <2>3. key \in [life : Nat, silence : Nat, lost : 0 .. MaxLostBeats]
    BY DEF IInv, KeyKnown
  <2>4. conf.WorkerId \in Nat
    BY SettingsType DEF IInv
  <2>5. CASE phase \in {"initialized", "started"}
    <3>1. Constructs(conf) /\ gen = Layout(GeneratorConfig(conf))
      BY <2>5 DEF IInv, StageKnown
    <3>2. /\ gen.built /\ gen.maxWorkerID = 2^GeneratorConfig(conf).WorkerIDBits - 1
          /\ gen.maxWorkerID = RegistrationRange /\ RegistrationRange \in Nat
      BY <3>1, RangeIsGenerators DEF IInv, Layout
    <3>3. range \in Nat \union {Unset}
      BY <2>5, <3>2 DEF IInv, RegistrationKnown
    <3>4. workerID \in 0 .. gen.maxWorkerID /\ leased \in Nat \union {Unset}
      BY <2>5, <3>1, <3>2, ConstructedBits DEF IInv, RegistrationKnown
    <3> QED
      BY <2>1, <2>2, <2>3, <3>2, <3>3, <3>4 DEF TypeOK
  <2>6. CASE phase \notin {"initialized", "started"}
    <3>1. ~gen.built
      BY <2>2, <2>6 DEF IInv, StageKnown, NoGenerator
    <3>2. /\ workerID \in Nat /\ range \in Nat \union {Unset}
          /\ leased \in Nat \union {Unset}
      BY <2>2, <2>4, <2>6 DEF IInv, RegistrationKnown
    <3> QED
      BY <2>1, <2>2, <2>3, <3>1, <3>2 DEF TypeOK
  <2> QED
    BY <2>5, <2>6
<1> QED
  BY <1>1, InvariantHolds, PTL

\* Whatever worker_id_bits says or leaves out, the plugin registers worker IDs of
\* the generator's own range, so SetWorkerID never drops one and the generator
\* stamps the worker ID that is leased.
THEOREM GeneratorStampsLeasedID == Spec => []StampsLeasedID
<1>1. IInv => StampsLeasedID
  BY DEF IInv, StageKnown, RegistrationKnown, NoGenerator, StampsLeasedID
<1> QED
  BY <1>1, InvariantHolds, PTL

\* The second that the script's whole seconds may take from a lease is the most
\* by which the manager's deadline outlives the key, and there is none when the
\* TTL is in whole seconds.
THEOREM LeasesEndWithTheirKeys == Spec => []LeaseWithinKey
<1>1. IInv => LeaseWithinKey
  <2> SUFFICES ASSUME IInv, leased # Unset
               PROVE  /\ Ttl < key.life + 1000
                      /\ Ttl % 1000 = 0 => Ttl <= key.life
    BY DEF LeaseWithinKey
  <2>1. Ttl \in Nat
    BY TtlType DEF IInv
  <2>2. CASE key.life = NewKey(Ttl).life
    BY <2>1, <2>2 DEF NewKey, Forever, Hour
  <2>3. CASE key.life = RenewedFor
    BY <2>1, <2>3 DEF RenewedFor
  <2> QED
    BY <2>2, <2>3 DEF IInv, KeyKnown
<1> QED
  BY <1>1, InvariantHolds, PTL

\* A TTL of three intervals leaves room for one beat to be lost, whole seconds
\* or not: this is what the rule of the validator is for.
THEOREM OneBeatMayBeLost ==
  ASSUME MaxLostBeats <= 1
  PROVE  Spec => []BeatsInTime
<1>1. IInv => BeatsInTime
  <2> SUFFICES ASSUME IInv, leased # Unset, ValidateRedisIntegrationConfig(conf),
                      redis.WorkerIdTtl = Unset <=> redis.HeartbeatInterval = Unset
               PROVE  Beating /\ NextBeat < Ttl /\ NextBeat < key.life
    BY DEF BeatsInTime
  <2>1. Ttl \in Nat /\ Interval \in Nat
    BY TtlType DEF IInv
  <2>2. key \in [life : Nat, silence : Nat, lost : 0 .. MaxLostBeats]
    BY DEF IInv, KeyKnown
  <2>3. /\ key.life = NewKey(Ttl).life \/ key.life = RenewedFor
        /\ key.lost = 0 => key.silence = 0
        /\ key.lost = 1 => key.silence = Interval
    BY DEF IInv, KeyKnown
  <2>4. key.lost = 0 \/ key.lost = 1
    BY <2>2, InputAssumption
  <2>5. Interval >= 1000 /\ Ttl >= 3 * Interval
    <3>1. conf.AutoRegisterWorkerId
      BY DEF IInv, RegistrationKnown
    <3>2. CASE redis.WorkerIdTtl = Unset
      BY <3>2 DEF Ttl, Interval, Effective, OrDefault, DefaultTtl, DefaultInterval, Unset
    <3>3. CASE redis.WorkerIdTtl # Unset
      <4>1. /\ IntervalFits(redis.HeartbeatInterval)
            /\ redis.WorkerIdTtl >= 3 * redis.HeartbeatInterval
        BY <3>1, <3>3 DEF ValidateRedisIntegrationConfig
      <4>2. Ttl = redis.WorkerIdTtl /\ Interval = redis.HeartbeatInterval
        <5>1. redis.WorkerIdTtl \in Nat /\ redis.HeartbeatInterval \in Nat
          BY <3>3, SettingsType DEF IInv
        <5>2. redis.HeartbeatInterval > 0 /\ redis.WorkerIdTtl > 0
          BY <4>1, <5>1 DEF IntervalFits
        <5> QED
          BY <3>3, <5>1, <5>2 DEF Ttl, Interval, Effective, OrDefault
      <4> QED
        BY <4>1, <4>2 DEF IntervalFits
    <3> QED
      BY <3>2, <3>3
  <2>6. key.life > Ttl - 1000
    BY <2>1, <2>3, <2>5 DEF NewKey, RenewedFor
  <2> QED
    BY <2>1, <2>2, <2>3, <2>4, <2>5, <2>6 DEF Beating, NextBeat
<1> QED
  BY <1>1, InvariantHolds, PTL

\* IDsFaithful for every sequence number and every time since the epoch, as far
\* as 63 bits reach.
EveryIDFaithful ==
    phase = "started" =>
        \A t \in Nat, s \in 0 .. gen.maxSequence :
            /\ ParseID(Compose(t, workerID, s)) =
                   <<t, conf.DatacenterId, workerID, s>>
            /\ \A u \in Nat, r \in 0 .. gen.maxSequence :
                  t < u \/ (t = u /\ s < r) =>
                      Compose(t, workerID, s) < Compose(u, workerID, r)

\* Every layout that Validate lets through is one whose IDs give back their
\* timestamp, datacenter, worker ID and sequence number, and are ordered like
\* their timestamps and sequence numbers.
THEOREM EveryIDIsFaithful == Spec => []EveryIDFaithful
<1>1. IInv => EveryIDFaithful
  <2> SUFFICES ASSUME IInv, phase = "started"
               PROVE  EveryIDFaithful
    BY DEF EveryIDFaithful
  <2>1. /\ SettingsKnown /\ Constructs(conf) /\ gen = Layout(GeneratorConfig(conf))
        /\ workerID \in 0 .. gen.maxWorkerID
    BY DEF IInv, StageKnown, RegistrationKnown
  <2>2. PICK S \in Nat \ {0, 1}, W \in Nat \ {0} :
            /\ 2^gen.workerShift = S /\ gen.maxSequence = S - 1
            /\ 2^gen.datacenterShift = W * S /\ gen.maxWorkerID = W - 1
            /\ 2^gen.timestampShift = 32 * (W * S) /\ gen.maxDatacenterID = 31
            /\ conf.DatacenterId \in 0 .. 31
    BY <2>1, LayoutPowers
  <2>3. PICK A \in Nat : A = W * S
    OBVIOUS
  <2>4. PICK B \in Nat : B = 32 * A
    OBVIOUS
  <2> DEFINE Sequences == 0 .. gen.maxSequence
             ID(t, s) == t * B + conf.DatacenterId * A + workerID * S + s
  <2>5. \A t, s : Compose(t, workerID, s) = ID(t, s)
    BY <2>2, <2>3, <2>4 DEF Compose
  <2>6. S \in Nat \ {0} /\ workerID \in 0 .. W - 1 /\ Sequences \subseteq 0 .. S - 1
    BY <2>1, <2>2
  <2>7. ASSUME NEW t \in Nat, NEW s \in Sequences
        PROVE  /\ ParseID(ID(t, s)) = <<t, conf.DatacenterId, workerID, s>>
               /\ ID(t, s) \in Nat /\ t * B <= ID(t, s) /\ ID(t, s) < (t + 1) * B
    <3> DEFINE id == ID(t, s)
    <3>1. /\ id \div B = t /\ (id \div A) % 32 = conf.DatacenterId
          /\ (id \div S) % W = workerID /\ id % S = s
          /\ id \in Nat /\ t * B <= id /\ id < (t + 1) * B
      <4>1. t \in Nat /\ s \in 0 .. S - 1 /\ conf.DatacenterId \in 0 .. 31
        BY <2>2, <2>6
      <4>2. Placed(S, W, A, B, t, conf.DatacenterId, workerID, s, id)
        BY <2>3, <2>4, <2>6, <4>1 DEF Placed
      <4> HIDE DEF id
      <4>3. FoundBack(S, W, A, B, t, conf.DatacenterId, workerID, s, id)
        BY <4>2, FieldsFoundBack
      <4> QED
        BY <4>3 DEF FoundBack
    <3> HIDE DEF id
    <3>2. /\ gen.maxDatacenterID + 1 = 32 /\ gen.maxWorkerID + 1 = W
          /\ gen.maxSequence + 1 = S
      BY <2>2
    <3>3. id \div 2^0 = id
      BY <3>1
    <3>4. /\ id \div 2^gen.timestampShift = t
          /\ Field(id, gen.datacenterShift, gen.maxDatacenterID) = conf.DatacenterId
          /\ Field(id, gen.workerShift, gen.maxWorkerID) = workerID
          /\ Field(id, 0, gen.maxSequence) = s
      BY <2>2, <2>3, <2>4, <3>1, <3>2, <3>3 DEF Field
    <3>5. ParseID(id) = <<t, conf.DatacenterId, workerID, s>>
      BY <3>4 DEF ParseID
    <3> QED
      BY <3>1, <3>5 DEF id
  <2>8. ASSUME NEW t \in Nat, NEW s \in Sequences,
               NEW u \in Nat, NEW r \in Sequences, t < u \/ (t = u /\ s < r)
        PROVE  ID(t, s) < ID(u, r)
    <3>1. t \in Nat /\ u \in Nat /\ s \in Nat /\ r \in Nat
      BY <2>6
    <3>2. CASE t < u
      <4>1. ID(t, s) < (t + 1) * B /\ u * B <= ID(u, r)
        BY <2>7
      <4>2. ID(t, s) \in Nat /\ ID(u, r) \in Nat
        BY <2>7
      <4>3. (t + 1) * B <= u * B /\ (t + 1) * B \in Nat /\ u * B \in Nat
        BY <3>1, <3>2
      <4> HIDE DEF ID
      <4> QED
        BY <4>1, <4>2, <4>3
    <3>3. CASE t = u /\ s < r
      <4>1. t * B \in Nat /\ conf.DatacenterId * A \in Nat /\ workerID * S \in Nat
        BY <2>2, <2>6, <3>1
      <4> QED
        BY <3>1, <3>3, <4>1
    <3> QED
      BY <3>2, <3>3, <2>8
  <2> HIDE DEF ID, Sequences
  <2>9. \A t \in Nat, s \in Sequences :
            /\ ParseID(ID(t, s)) = <<t, conf.DatacenterId, workerID, s>>
            /\ \A u \in Nat, r \in Sequences :
                  t < u \/ (t = u /\ s < r) => ID(t, s) < ID(u, r)
    BY <2>7, <2>8
  <2> QED
    BY <2>5, <2>9 DEF EveryIDFaithful, Sequences
<1> QED
  BY <1>1, InvariantHolds, PTL

\* The times and sequence numbers of IDsFaithful are some of them.
THEOREM IDsAreFaithful == Spec => []IDsFaithful
<1>1. IInv /\ EveryIDFaithful => IDsFaithful
  <2> SUFFICES ASSUME IInv, EveryIDFaithful, phase = "started"
               PROVE  IDsFaithful
    BY DEF IDsFaithful
  <2>1. SettingsKnown /\ Constructs(conf) /\ gen = Layout(GeneratorConfig(conf))
    BY DEF IInv, StageKnown
  <2>2. PICK S \in Nat \ {0, 1} : gen.maxSequence = S - 1
    BY <2>1, LayoutPowers
  <2>3. {0, 1, gen.maxSequence} \subseteq 0 .. gen.maxSequence
    BY <2>2
  <2>4. Timestamps \subseteq Nat
    BY InputAssumption
  <2> QED
    BY <2>3, <2>4 DEF EveryIDFaithful, IDsFaithful
<1> QED
  BY <1>1, InvariantHolds, EveryIDIsFaithful, PTL

-----------------------------------------------------------------------------
(* The two validators.                                                      *)

\* Outside the known differences each part of ValidateSnowflakeConfig is a part of
\* what NewSnowflakeGeneratorCore checks, and nothing is left over.
LEMMA ValidatorsMatch ==
  ASSUME SettingsKnown, ~KnownDifference(conf)
  PROVE  ValidateSnowflakeConfig(conf) <=> Constructs(conf)
<1> DEFINE g == GeneratorConfig(conf)
           w == conf.WorkerIdBits
           s == OrDefault(conf.SequenceBits, 0, DefaultSequenceBits)
<1>1. /\ w # 0
      /\ ~(conf.EnableSequenceCache /\ conf.SequenceCacheSize = 0)
      /\ conf.EnableClockDriftProtection \/ g.Action \in KnownActions
      /\ ~(conf.AutoRegisterWorkerId /\ conf.WorkerId > 2^g.WorkerIDBits - 1)
      /\ ValidateRedisIntegrationConfig(conf)
  BY DEF KnownDifference
<1>2. /\ g.DatacenterIDBits = 5 /\ g.WorkerIDBits = w /\ g.SequenceBits = s
      /\ g.Protection = conf.EnableClockDriftProtection
      /\ g.MaxClockDrift = OrDefault(conf.MaxClockDrift, Unset, DefaultMaxClockDrift)
      /\ g.Action = OrDefault(conf.ClockDriftAction, "", "wait")
      /\ g.Cache = conf.EnableSequenceCache
      /\ g.CacheSize = OrDefault(conf.SequenceCacheSize, 0, DefaultCacheSize)
      /\ g.EpochAge = OrDefault(conf.EpochAge, Unset, DefaultEpochAge)
  BY <1>1 DEF GeneratorConfig, OrDefault, DefaultDatacenterBits
<1>3. w \in Nat /\ s \in Nat
  BY SettingsType DEF OrDefault, DefaultSequenceBits
<1> HIDE DEF g
<1>4. ValidateBasicConfig(conf) <=>
          conf.DatacenterId \in 0 .. 2^5 - 1 /\ conf.WorkerId \in 0 .. 2^w - 1
  <2>1. 2^w \in Int
    BY <1>3
  <2>2. OrDefault(w, 0, 10) = w
    BY <1>1 DEF OrDefault
  <2>3. 2^5 - 1 = 31
    OBVIOUS
  <2>4. conf.AutoRegisterWorkerId => conf.WorkerId \in 0 .. 2^w - 1
    <3>1. conf.AutoRegisterWorkerId => ~(conf.WorkerId > 2^w - 1)
      BY <1>1, <1>2
    <3>2. conf.WorkerId \in Nat
      BY SettingsType
    <3> DEFINE p == 2^w
    <3>3. p \in Int
      BY <2>1
    <3> HIDE DEF p
    <3>4. ~(conf.WorkerId > p - 1) => conf.WorkerId \in 0 .. p - 1
      BY <3>2, <3>3
    <3> QED
      BY <3>1, <3>4 DEF p
  <2> QED
    BY <2>2, <2>3, <2>4 DEF ValidateBasicConfig
<1>5. ValidateClockDriftConfig(conf) <=>
          g.Action \in KnownActions /\ (g.Protection => DriftFits(g.MaxClockDrift))
  <2>1. DriftFits(DefaultMaxClockDrift)
    <3>1. /\ DefaultMaxClockDrift \in Int /\ Hour \in Int
          /\ 100 <= DefaultMaxClockDrift /\ DefaultMaxClockDrift <= Hour
      BY SMT DEF DefaultMaxClockDrift, Hour
    <3> QED
      BY <3>1 DEF DriftFits
  <2>2. (conf.MaxClockDrift # Unset => DriftFits(conf.MaxClockDrift))
            <=> DriftFits(g.MaxClockDrift)
    BY <1>2, <2>1 DEF OrDefault
  <2>3. (conf.ClockDriftAction # "" => conf.ClockDriftAction \in KnownActions)
            <=> g.Action \in KnownActions
    BY <1>2 DEF OrDefault, KnownActions
  <2> QED
    BY <1>1, <1>2, <2>2, <2>3 DEF ValidateClockDriftConfig
<1>6. ValidatePerformanceConfig(conf) <=> (g.Cache => CacheFits(g.CacheSize, s))
  BY <1>1, <1>2 DEF ValidatePerformanceConfig, OrDefault
<1>7. ValidateAdvancedConfig(conf) <=> EpochFits(g.EpochAge) /\ BitsFit(5, w, s)
  <2>1. EpochFits(DefaultEpochAge)
    BY DEF EpochFits, DefaultEpochAge
  <2>2. OrDefault(w, 0, 10) = w
    BY <1>1 DEF OrDefault
  <2>3. (conf.EpochAge # Unset => EpochFits(conf.EpochAge)) <=> EpochFits(g.EpochAge)
    BY <1>2, <2>1 DEF OrDefault
  <2> QED
    BY <2>2, <2>3 DEF ValidateAdvancedConfig, DefaultDatacenterBits
<1>8. BitsFit(5, w, s) => s >= (5 + w + s) \div 3
  BY <1>3 DEF BitsFit
<1>9. Constructs(conf) <=>
          /\ BitsFit(5, w, s) /\ EpochFits(g.EpochAge)
          /\ g.Action \in KnownActions /\ (g.Protection => DriftFits(g.MaxClockDrift))
          /\ g.Cache => CacheFits(g.CacheSize, s)
          /\ conf.DatacenterId \in 0 .. 2^5 - 1 /\ conf.WorkerId \in 0 .. 2^w - 1
  BY <1>2, <1>8 DEF Constructs, Validate, g
<1> QED
  BY <1>1, <1>4, <1>5, <1>6, <1>7, <1>9 DEF ValidateSnowflakeConfig

\* Start fails with a configuration that ValidateSnowflakeConfig passes, or the
\* other way round, only for the reasons that KnownDifference lists.
THEOREM ValidatorsDifferAsListed == Spec => []ValidatorsAgree
<1>1. IInv => ValidatorsAgree
  BY ValidatorsMatch DEF IInv, StageKnown, NoGenerator, Layout, ValidatorsAgree
<1> QED
  BY <1>1, InvariantHolds, PTL

-----------------------------------------------------------------------------
(* The two searches for a Redis client.                                     *)

LEMMA CandidateNames ==
  /\ Candidates("redis") =
         <<"redis", "redis.provider", "redis.client.provider", "redis.client">>
  /\ Candidates("redis.client") =
         <<"redis.client", "redis.provider", "redis.client.provider", "redis">>
  /\ Candidates("mine") = <<"mine", "redis.provider", "redis.client.provider">>
<1>1. Candidates("redis") =
          <<"redis", "redis.provider", "redis.client.provider">> \o <<"redis.client">>
  BY DEF Candidates
<1>2. Candidates("redis.client") =
          <<"redis.client", "redis.provider", "redis.client.provider">> \o <<"redis">>
  BY DEF Candidates
<1>3. Candidates("mine") =
          <<"mine", "redis.provider", "redis.client.provider">> \o << >>
  BY DEF Candidates
<1> QED
  BY <1>1, <1>2, <1>3

LEMMA UpToFour ==
  /\ {1, 2, 3, 4} \subseteq 1 .. 4
  /\ \A i \in 1 .. 4 :
        /\ i = 1 \/ i = 2 \/ i = 3 \/ i = 4
        /\ \A j \in 1 .. i - 1 : j \in 1 .. 4
OBVIOUS

\* The first of four resources that is there.
LEMMA FirstOfFour ==
  ASSUME NEW f, \A i \in 1 .. 4 : f[i] \in {"absent", "client"},
         \E i \in 1 .. 4 : f[i] = "client"
  PROVE  \E i \in 1 .. 4 : f[i] = "client" /\ \A j \in 1 .. i - 1 : f[j] = "absent"
<1>1. CASE f[1] = "client"
  BY <1>1
<1>2. CASE f[1] # "client" /\ f[2] = "client"
  <2>1. \A j \in 1 .. 2 - 1 : j = 1
    OBVIOUS
  <2> QED
    BY <1>2, <2>1
<1>3. CASE f[1] # "client" /\ f[2] # "client" /\ f[3] = "client"
  <2>1. \A j \in 1 .. 3 - 1 : j = 1 \/ j = 2
    OBVIOUS
  <2> QED
    BY <1>3, <2>1
<1>4. CASE f[1] # "client" /\ f[2] # "client" /\ f[3] # "client"
  <2>1. \A j \in 1 .. 4 - 1 : j = 1 \/ j = 2 \/ j = 3
    OBVIOUS
  <2>2. \A i \in 1 .. 4 : i = 1 \/ i = 2 \/ i = 3 \/ i = 4
    OBVIOUS
  <2>3. f[4] = "client"
    BY <1>4, <2>2
  <2> QED
    BY <1>4, <2>1, <2>3
<1> QED
  BY <1>1, <1>2, <1>3, <1>4

LEMMA ResolversMatch ==
  ASSUME SettingsKnown, redis.RedisPluginName # ""
  PROVE  /\ ResolvesClient => StandaloneResolvesClient
         /\ /\ StandaloneResolvesClient
            /\ \A name \in DOMAIN resources : resources[name] # "useless"
            /\ redis.RedisPluginName \in {"redis", "redis.client"}
            => ResolvesClient
<1> DEFINE mine == redis.RedisPluginName
<1>1. mine \in {"redis", "redis.client", "mine"}
  BY DEF SettingsKnown, RedisConf
<1>2. /\ DOMAIN resources = {"redis", "redis.client", "mine", "redis.provider",
                             "redis.client.provider"}
      /\ \A name \in DOMAIN resources : resources[name] \in {"absent", "client", "useless"}
  BY DEF SettingsKnown, Resources
<1>3. ASSUME ResolvesClient
      PROVE  StandaloneResolvesClient
  <2> DEFINE tried == Candidates(mine)
  <2>1. PICK i \in DOMAIN tried : resources[tried[i]] = "client"
    BY <1>3 DEF ResolvesClient
  <2>2. tried[i] \in {mine, "redis.client", "redis", "redis.provider",
                      "redis.client.provider"}
    <3>1. CASE mine = "redis"
      <4>1. i = 1 \/ i = 2 \/ i = 3 \/ i = 4
        BY <2>1, <3>1, CandidateNames
      <4> QED
        BY <3>1, <4>1, CandidateNames
    <3>2. CASE mine = "redis.client"
      <4>1. i = 1 \/ i = 2 \/ i = 3 \/ i = 4
        BY <2>1, <3>2, CandidateNames
      <4> QED
        BY <3>2, <4>1, CandidateNames
    <3>3. CASE mine = "mine"
      <4>1. i = 1 \/ i = 2 \/ i = 3
        BY <2>1, <3>3, CandidateNames
      <4> QED
        BY <3>3, <4>1, CandidateNames
    <3> QED
      BY <1>1, <3>1, <3>2, <3>3
  <2> QED
    BY <2>1, <2>2 DEF StandaloneResolvesClient
<1>4. ASSUME StandaloneResolvesClient, mine \in {"redis", "redis.client"},
             \A name \in DOMAIN resources : resources[name] # "useless"
      PROVE  ResolvesClient
  <2> DEFINE tried == Candidates(mine)
             f     == [i \in 1 .. 4 |-> resources[tried[i]]]
  <2>1. /\ DOMAIN tried = 1 .. 4
        /\ {tried[1], tried[2], tried[3], tried[4]} =
               {"redis", "redis.client", "redis.provider", "redis.client.provider"}
    <3>1. CASE mine = "redis"
      BY <3>1, CandidateNames
    <3>2. CASE mine = "redis.client"
      BY <3>2, CandidateNames
    <3> QED
      BY <1>4, <3>1, <3>2
  <2> HIDE DEF tried
  <2>2. \A i \in 1 .. 4 : f[i] \in {"absent", "client"}
    <3>1. ASSUME NEW i \in 1 .. 4
          PROVE  tried[i] \in DOMAIN resources
      BY <1>2, <2>1, UpToFour
    <3> QED
      BY <1>2, <1>4, <3>1
  <2>3. \E i \in 1 .. 4 : f[i] = "client"
    <3>1. PICK name \in {"redis", "redis.client", "redis.provider",
                         "redis.client.provider"} : resources[name] = "client"
      BY <1>4 DEF StandaloneResolvesClient
    <3>2. name = tried[1] \/ name = tried[2] \/ name = tried[3] \/ name = tried[4]
      BY <2>1, <3>1
    <3>3. \A i \in 1 .. 4 : f[i] = resources[tried[i]]
      OBVIOUS
    <3>4. 1 \in 1 .. 4 /\ 2 \in 1 .. 4 /\ 3 \in 1 .. 4 /\ 4 \in 1 .. 4
      BY UpToFour
    <3>5. \E i \in 1 .. 4 : tried[i] = name
      BY <3>2, <3>4, Zenon
    <3> HIDE DEF f
    <3> QED
      BY <3>1, <3>3, <3>5, Zenon
  <2>4. PICK i \in 1 .. 4 : f[i] = "client" /\ \A j \in 1 .. i - 1 : f[j] = "absent"
    <3> HIDE DEF f
    <3> QED
      BY <2>2, <2>3, FirstOfFour
  <2>5. /\ resources[tried[i]] = "client"
        /\ \A j \in 1 .. i - 1 : resources[tried[j]] = "absent"
    <3>1. \A j \in 1 .. i - 1 : j \in 1 .. 4
      BY <2>4, UpToFour
    <3> QED
      BY <2>4, <3>1
  <2> QED
    BY <2>1, <2>4, <2>5 DEF ResolvesClient, tried
<1> QED
  BY <1>3, <1>4

\* Two searches in different orders and with different patience: what the plugin
\* finds the standalone plugin finds, and the plugin switches registration off
\* only where it met something useless, or was told a name of its own.
THEOREM ResolversDifferAsListed == Spec => []ResolversAgree
<1>1. IInv => ResolversAgree
  BY ResolversMatch DEF IInv, StageKnown, ResolversAgree
<1> QED
  BY <1>1, InvariantHolds, PTL
=============================================================================
