--------------------------- MODULE Configuration ---------------------------
(***************************************************************************)
(* From the configuration to the first ID: InitializeResources fills in the *)
(* defaults, looks for a Redis client and builds the generator,             *)
(* startupTasksContext decides which worker IDs may be registered, the      *)
(* heartbeat keeps them, and the IDs are composed from what came out of it. *)
(* Beside it stand ValidateSnowflakeConfig, a second judge of the same      *)
(* configuration with defaults of its own, and NewRedisSnowflakePlugin, a   *)
(* second way to wire the worker manager.                                   *)
(*                                                                          *)
(* Durations are in ms and the epoch is its age in years, for the bounds on *)
(* it are 0 and 50 years.  An ID's timestamp counts from the epoch.         *)
(***************************************************************************)
EXTENDS Integers, Sequences

CONSTANTS
    DatacenterIDs, ConfWorkerIDs, WorkerIDBits, SequenceBits, CacheSizes,
    ClockDriftActions,      \* values to try, 0 and "" for not set
    MaxClockDrifts,
    EpochAges,              \* values to try, beside Unset
    Timestamps,             \* ms since the epoch at which IDs are composed
    WorkerIdTtls, HeartbeatIntervals,   \* values to try, beside Unset
    MaxLostBeats            \* heartbeats that fail one after the other

Unset  == -1
Future == -2                \* the age of an epoch that is still to come

DefaultDatacenterBits == 5
DefaultWorkerBits     == 5
DefaultSequenceBits   == 12
DefaultCacheSize      == 1000
DefaultMaxClockDrift  == 5000
DefaultEpochAge       == 5
DefaultTtl            == 30000
DefaultInterval       == 10000
KnownActions          == {"wait", "error", "ignore"}
Hour                  == 3600000
Forever               == 100 * Hour     \* longer than every TTL of the instance

ASSUME InputAssumption ==
    /\ DatacenterIDs \union ConfWorkerIDs \union WorkerIDBits \union
       SequenceBits \union CacheSizes \union MaxClockDrifts \union
       EpochAges \union Timestamps \union WorkerIdTtls \union
       HeartbeatIntervals \union {MaxLostBeats} \subseteq Nat

EonId == [DatacenterId : DatacenterIDs, WorkerId : ConfWorkerIDs,
          AutoRegisterWorkerId : BOOLEAN,
          WorkerIdBits : WorkerIDBits, SequenceBits : SequenceBits,
          EnableClockDriftProtection : BOOLEAN,
          MaxClockDrift : MaxClockDrifts \union {Unset},
          ClockDriftAction : ClockDriftActions,
          EnableSequenceCache : BOOLEAN, SequenceCacheSize : CacheSizes,
          EpochAge : EpochAges \union {Unset, Future}]

\* The message's part on Redis and the worker manager.
RedisConf == [RedisPluginName : {"", "redis", "redis.client", "mine"},
              WorkerIdTtl : WorkerIdTtls \union {Unset},
              HeartbeatInterval : HeartbeatIntervals \union {Unset}]

\* What InitializeResources falls back to when the message cannot be scanned.
Fallback == [DatacenterId |-> 0, WorkerId |-> 0, AutoRegisterWorkerId |-> TRUE,
             WorkerIdBits |-> DefaultWorkerBits,
             SequenceBits |-> DefaultSequenceBits,
             EnableClockDriftProtection |-> TRUE, MaxClockDrift |-> Unset,
             ClockDriftAction |-> "wait", EnableSequenceCache |-> TRUE,
             SequenceCacheSize |-> DefaultCacheSize, EpochAge |-> Unset]

FallbackRedis == [RedisPluginName |-> "redis", WorkerIdTtl |-> Unset,
                  HeartbeatInterval |-> Unset]

\* What GetSharedResource finds under a name: no resource, a client or a
\* provider that gives one, or something that gives none.
Resources == [{"redis", "redis.client", "mine", "redis.provider",
               "redis.client.provider"} -> {"absent", "client", "useless"}]
Only(name) == [n \in {"redis", "redis.client", "mine", "redis.provider",
                      "redis.client.provider"} |->
                  IF n = name THEN "client" ELSE "absent"]

VARIABLES
    conf,       \* the EonId message as it was scanned
    redis,      \* its part on Redis
    resources,  \* the shared resources of the runtime
    auto,       \* conf.AutoRegisterWorkerId after InitializeResources
    phase,      \* how far the plugin has come
    gen,        \* the generator's layout, NoGenerator before it is built
    range,      \* workerManager.maxWorkerID, Unset before registration
    leased,     \* the worker ID registered in Redis, Unset when there is none
    workerID,   \* generator.workerID
    key         \* the key of that worker ID in Redis: how long it lives after
                \* it was written, how long ago that is, the beats lost since

settings == <<conf, redis, resources>>
vars     == <<settings, auto, phase, gen, range, leased, workerID, key>>

NoGenerator == [built |-> FALSE]
NoKey       == [life |-> 0, silence |-> 0, lost |-> 0]

\* The layout, the timing and the resources are varied one at a time.
Init ==
    /\ \/ /\ conf \in EonId
          /\ redis = FallbackRedis
          /\ resources \in {Only("redis"), Only("none")}
       \/ /\ conf = Fallback
          /\ redis \in RedisConf
          /\ redis.RedisPluginName = "redis"
          /\ resources = Only("redis")
       \/ /\ conf = Fallback
          /\ \E name \in {"", "redis", "redis.client", "mine"} :
                redis = [FallbackRedis EXCEPT !.RedisPluginName = name]
          /\ resources \in Resources
    /\ auto = conf.AutoRegisterWorkerId
    /\ phase = "created"
    /\ gen = NoGenerator
    /\ range = Unset
    /\ leased = Unset
    /\ workerID = conf.WorkerId
    /\ key = NoKey

-----------------------------------------------------------------------------
(* InitializeResources and NewSnowflakeGeneratorCore.                       *)

OrDefault(value, unset, default) == IF value = unset THEN default ELSE value

\* The GeneratorConfig that InitializeResources derives from a message.
GeneratorConfig(c) ==
    [DatacenterIDBits |-> DefaultDatacenterBits,
     WorkerIDBits     |-> OrDefault(c.WorkerIdBits, 0, DefaultWorkerBits),
     SequenceBits     |-> OrDefault(c.SequenceBits, 0, DefaultSequenceBits),
     Protection       |-> c.EnableClockDriftProtection,
     MaxClockDrift    |-> OrDefault(c.MaxClockDrift, Unset, DefaultMaxClockDrift),
     Action           |-> OrDefault(c.ClockDriftAction, "", "wait"),
     Cache            |-> c.EnableSequenceCache,
     CacheSize        |-> OrDefault(c.SequenceCacheSize, 0, DefaultCacheSize),
     EpochAge         |-> OrDefault(c.EpochAge, Unset, DefaultEpochAge)]

\* Bounds that both validators put on the bits of an ID.
BitsFit(datacenterBits, workerBits, sequenceBits) ==
    /\ datacenterBits + workerBits + sequenceBits <= 22
    /\ datacenterBits \in 0 .. 10
    /\ workerBits \in 1 .. 16
    /\ sequenceBits \in 7 .. 20

DriftFits(drift)         == drift \in 100 .. Hour
CacheFits(size, seqBits) == size \in 10 .. 2^seqBits
EpochFits(age)           == age \in 0 .. 50
TtlFits(ttl)             == ttl \in 10000 .. 24 * Hour
IntervalFits(interval)   == interval \in 1000 .. Hour

\* GeneratorConfig.Validate.
Validate(g) ==
    /\ BitsFit(g.DatacenterIDBits, g.WorkerIDBits, g.SequenceBits)
    /\ g.SequenceBits >=
           (g.DatacenterIDBits + g.WorkerIDBits + g.SequenceBits) \div 3
    /\ EpochFits(g.EpochAge)
    /\ g.Action \in KnownActions
    /\ g.Protection => DriftFits(g.MaxClockDrift)
    /\ g.Cache => CacheFits(g.CacheSize, g.SequenceBits)

Constructs(c) ==
    LET g == GeneratorConfig(c) IN
    /\ Validate(g)
    /\ c.DatacenterId \in 0 .. 2^g.DatacenterIDBits - 1
    /\ c.WorkerId \in 0 .. 2^g.WorkerIDBits - 1

\* The fields of the generator that its IDs are composed with.
Layout(g) ==
    [built |-> TRUE,
     timestampShift  |-> g.DatacenterIDBits + g.WorkerIDBits + g.SequenceBits,
     datacenterShift |-> g.WorkerIDBits + g.SequenceBits,
     workerShift     |-> g.SequenceBits,
     maxDatacenterID |-> 2^g.DatacenterIDBits - 1,
     maxWorkerID     |-> 2^g.WorkerIDBits - 1,
     maxSequence     |-> 2^g.SequenceBits - 1]

\* Mutant: the resource's other name is forgotten.
CandidatesWithoutOther(name) ==
    <<IF name = "" THEN "redis" ELSE name,
      "redis.provider", "redis.client.provider">>

\* The resources that resolveRedisClientResource tries, in this order.
Candidates(name) ==
    LET preferred == IF name = "" THEN "redis" ELSE name
        Other     == CASE preferred = "redis"        -> <<"redis.client">>
                       [] preferred = "redis.client" -> <<"redis">>
                       [] OTHER                      -> << >>
    IN  <<preferred, "redis.provider", "redis.client.provider">> \o Other

\* It ends at the first resource there is, useful or not.
ResolvesClient ==
    LET tried == Candidates(redis.RedisPluginName) IN
    \E i \in DOMAIN tried :
        /\ resources[tried[i]] = "client"
        /\ \A j \in 1 .. i - 1 : resources[tried[j]] = "absent"

\* tryGetFromGlobalRegistry passes over what is of no use.  An empty name does
\* not get past RedisIntegrationConfig.Validate.
StandaloneResolvesClient ==
    /\ redis.RedisPluginName # ""
    /\ \E name \in {redis.RedisPluginName, "redis.client", "redis",
                    "redis.provider", "redis.client.provider"} :
          resources[name] = "client"

\* Automatic registration is switched off when there is no Redis client.
InitializeResources ==
    /\ phase = "created"
    /\ auto' = (auto /\ ResolvesClient)
    /\ phase' = IF Constructs(conf) THEN "initialized" ELSE "failed"
    /\ gen' = IF Constructs(conf) THEN Layout(GeneratorConfig(conf)) ELSE gen
    /\ UNCHANGED <<settings, range, leased, workerID, key>>

-----------------------------------------------------------------------------
(* startupTasksContext and the worker IDs that follow.                      *)

\* Mutant: the fallback follows the comment in eon-id.proto, ten bits.
RegistrationRangeOfTenBits ==
    IF conf.WorkerIdBits = 0 THEN 1023 ELSE 2^conf.WorkerIdBits - 1

\* The range is computed from the message, not from the generator: without
\* worker_id_bits the shift gives 0, and 31 is used instead.
RegistrationRange ==
    LET max == 2^conf.WorkerIdBits - 1 IN IF max <= 0 THEN 31 ELSE max

\* The plugin takes a TTL and an interval that are set as they are, the
\* standalone plugin's NewWorkerIDManager replaces what is not positive.
Effective(as, value, default) ==
    IF as = "standalone"
      THEN IF value <= 0 THEN default ELSE value
      ELSE OrDefault(value, Unset, default)
Ttl      == Effective(phase, redis.WorkerIdTtl, DefaultTtl)
Interval == Effective(phase, redis.HeartbeatInterval, DefaultInterval)

\* SetNX with a TTL of 0 makes a key that does not expire.
NewKey(ttl) ==
    [life |-> IF ttl = 0 THEN Forever ELSE ttl, silence |-> 0, lost |-> 0]

\* Nothing is registered.
StartWithoutRedis ==
    /\ phase = "initialized" /\ ~auto
    /\ phase' = "started"
    /\ UNCHANGED <<settings, auto, gen, range, leased, workerID, key>>

\* The configured worker ID is registered as it is.
StartWithSpecificID ==
    /\ phase = "initialized" /\ auto /\ conf.WorkerId > 0
    /\ range' = RegistrationRange
    /\ leased' = conf.WorkerId
    /\ key' = NewKey(Ttl)
    /\ phase' = "started"
    /\ UNCHANGED <<settings, auto, gen, workerID>>

\* Any worker ID of the range, the first and the last standing for all; it is
\* written into the generator without a look at its maxWorkerID.
StartWithAnyID ==
    /\ phase = "initialized" /\ auto
    /\ range' = RegistrationRange
    /\ leased' \in {0, RegistrationRange}
    /\ workerID' = leased'
    /\ key' = NewKey(Ttl)
    /\ phase' = "started"
    /\ UNCHANGED <<settings, auto, gen>>

\* NewRedisSnowflakePlugin: a range of ten bits whatever the message says, and
\* no generator.
StartStandalone ==
    /\ phase = "created" /\ StandaloneResolvesClient
    /\ IF conf.AutoRegisterWorkerId
         THEN /\ range' = 1023
              /\ leased' \in {0, 1023}
         ELSE UNCHANGED <<range, leased>>
    /\ phase' = "standalone"
    /\ key' = IF conf.AutoRegisterWorkerId
                THEN NewKey(Effective(phase', redis.WorkerIdTtl, DefaultTtl))
                ELSE key
    /\ UNCHANGED <<settings, auto, gen, workerID>>

\* A recovery registers anew in the recorded range and tells the generator,
\* if there is one; its SetWorkerID drops a worker ID beyond its maxWorkerID.
Reregister ==
    /\ range # Unset
    /\ leased' \in {0, range}
    /\ workerID' = IF gen.built /\ leased' \in 0 .. gen.maxWorkerID
                     THEN leased' ELSE workerID
    /\ key' = NewKey(Ttl)
    /\ UNCHANGED <<settings, auto, phase, gen, range>>

\* NewTicker panics with an interval of 0, and there is no beat.
Beating == leased # Unset /\ Interval > 0

NextBeat == key.silence + Interval

\* Mutant: the script is given the interval in place of the TTL.
RenewedForInterval == (Interval \div 1000) * 1000

\* The script takes the TTL in whole seconds.
RenewedFor == (Ttl \div 1000) * 1000

\* A heartbeat finds the key and renews it.  With 0 seconds the script fails.
Heartbeat ==
    /\ Beating /\ NextBeat < key.life /\ RenewedFor > 0
    /\ key' = [life |-> RenewedFor, silence |-> 0, lost |-> 0]
    /\ UNCHANGED <<settings, auto, phase, gen, range, leased, workerID>>

\* A heartbeat fails.
LoseHeartbeat ==
    /\ Beating /\ key.lost < MaxLostBeats
    /\ key' = [key EXCEPT !.silence = NextBeat, !.lost = @ + 1]
    /\ UNCHANGED <<settings, auto, phase, gen, range, leased, workerID>>

Next ==
    \/ InitializeResources
    \/ StartWithoutRedis
    \/ StartWithSpecificID
    \/ StartWithAnyID
    \/ StartStandalone
    \/ Reregister
    \/ Heartbeat
    \/ LoseHeartbeat

Spec == Init /\ [][Next]_vars

-----------------------------------------------------------------------------
(* IDs.                                                                     *)

\* Mutant: the worker ID is shifted as if the sequence had one bit less.
ComposeShort(t, w, s) ==
    t * 2^gen.timestampShift + conf.DatacenterId * 2^gen.datacenterShift
        + w * 2^(gen.workerShift - 1) + s

\* An ID as tryGenerateID composes it.  The fields do not overlap when each is
\* within its maximum; where they do, OR is not the sum, but no ID may be.
Compose(t, w, s) ==
    t * 2^gen.timestampShift + conf.DatacenterId * 2^gen.datacenterShift
        + w * 2^gen.workerShift + s

Field(id, shift, max) == (id \div 2^shift) % (max + 1)

\* ParseID.  Its check of the timestamp passes for whatever is left of the 63
\* bits.
ParseID(id) ==
    <<id \div 2^gen.timestampShift,
      Field(id, gen.datacenterShift, gen.maxDatacenterID),
      Field(id, gen.workerShift, gen.maxWorkerID),
      Field(id, 0, gen.maxSequence)>>

-----------------------------------------------------------------------------
(* ValidateSnowflakeConfig, which neither Initialize nor Start calls.       *)

ValidateBasicConfig(c) ==
    /\ c.DatacenterId \in 0 .. 31
    /\ ~c.AutoRegisterWorkerId =>
           c.WorkerId \in 0 .. 2^OrDefault(c.WorkerIdBits, 0, 10) - 1

\* Mutant: the TTL and the interval are each within bounds, and that is all.
ValidateTimesApart(c) ==
    c.AutoRegisterWorkerId =>
        /\ redis.RedisPluginName # ""
        /\ redis.WorkerIdTtl # Unset => TtlFits(redis.WorkerIdTtl)
        /\ redis.HeartbeatInterval # Unset => IntervalFits(redis.HeartbeatInterval)

\* The interval is held against the TTL only where both are set.
ValidateRedisIntegrationConfig(c) ==
    c.AutoRegisterWorkerId =>
        /\ redis.RedisPluginName # ""
        /\ redis.WorkerIdTtl # Unset => TtlFits(redis.WorkerIdTtl)
        /\ redis.HeartbeatInterval # Unset =>
               /\ IntervalFits(redis.HeartbeatInterval)
               /\ redis.WorkerIdTtl # Unset =>
                      redis.WorkerIdTtl >= 3 * redis.HeartbeatInterval

\* Mutant: max_clock_drift is forgotten.
ValidateActionOnly(c) ==
    c.EnableClockDriftProtection => c.ClockDriftAction \in KnownActions \union {""}

ValidateClockDriftConfig(c) ==
    c.EnableClockDriftProtection =>
        /\ c.MaxClockDrift # Unset => DriftFits(c.MaxClockDrift)
        /\ c.ClockDriftAction # "" => c.ClockDriftAction \in KnownActions

ValidatePerformanceConfig(c) ==
    c.EnableSequenceCache =>
        CacheFits(c.SequenceCacheSize,
                  OrDefault(c.SequenceBits, 0, DefaultSequenceBits))

ValidateAdvancedConfig(c) ==
    /\ c.EpochAge # Unset => EpochFits(c.EpochAge)
    /\ BitsFit(DefaultDatacenterBits, OrDefault(c.WorkerIdBits, 0, 10),
               OrDefault(c.SequenceBits, 0, DefaultSequenceBits))

ValidateSnowflakeConfig(c) ==
    /\ ValidateBasicConfig(c)
    /\ ValidateRedisIntegrationConfig(c)
    /\ ValidateClockDriftConfig(c)
    /\ ValidatePerformanceConfig(c)
    /\ ValidateAdvancedConfig(c)

-----------------------------------------------------------------------------
(* Properties.                                                              *)

\* The plugin's fields keep their types; once there is a generator, its worker
\* ID is one that SetWorkerID would have accepted.
TypeOK ==
    /\ conf \in EonId \union {Fallback} /\ redis \in RedisConf
    /\ resources \in Resources /\ auto \in BOOLEAN
    /\ phase \in {"created", "initialized", "started", "failed", "standalone"}
    /\ range \in Nat \union {Unset} /\ leased \in Nat \union {Unset}
    /\ workerID \in IF gen.built THEN 0 .. gen.maxWorkerID ELSE Nat
    /\ key \in [life : Nat, silence : Nat, lost : 0 .. MaxLostBeats]

\* The range of registration is computed apart from the generator's, and
\* SetWorkerID is silent when it drops a worker ID: still the generator stamps
\* the worker ID that the manager holds in Redis.
StampsLeasedID == gen.built /\ leased # Unset => workerID = leased

\* ParseID gets back what tryGenerateID put in, and IDs are ordered like their
\* timestamps and sequence numbers, for every layout Validate lets through.
IDsFaithful ==
    phase = "started" =>
        LET Sequences == {0, 1, gen.maxSequence} IN
        \A t \in Timestamps, s \in Sequences :
            /\ ParseID(Compose(t, workerID, s)) =
                   <<t, conf.DatacenterId, workerID, s>>
            /\ \A u \in Timestamps, r \in Sequences :
                   t < u \/ (t = u /\ s < r) =>
                       Compose(t, workerID, s) < Compose(u, workerID, r)

\* Where ValidateSnowflakeConfig and the constructor are known to differ: the
\* default of worker_id_bits is 10 or 5, a cache size of 0 is an error or 1000,
\* an action is not looked at while the protection is off, and neither is a
\* worker ID while registration is automatic; the constructor knows nothing of
\* Redis.
KnownDifference(c) ==
    LET g == GeneratorConfig(c) IN
    \/ c.WorkerIdBits = 0
    \/ c.EnableSequenceCache /\ c.SequenceCacheSize = 0
    \/ ~c.EnableClockDriftProtection /\ g.Action \notin KnownActions
    \/ c.AutoRegisterWorkerId /\ c.WorkerId > 2^g.WorkerIDBits - 1
    \/ ~ValidateRedisIntegrationConfig(c)

\* Everywhere else a configuration is valid exactly when it gives a generator.
ValidatorsAgree ==
    phase \notin {"created", "standalone"} /\ ~KnownDifference(conf) =>
        (ValidateSnowflakeConfig(conf) <=> gen.built)

\* A TTL and an interval that the validator accepts leave room for MaxLostBeats
\* heartbeats to fail: there is a loop, and its next beat finds the key and is
\* before the end of the lease, although renewals drop the fraction of a
\* second.  Not so when only one of the two is set, which the validator does
\* not hold against the other's default.
BeatsInTime ==
    /\ leased # Unset
    /\ ValidateRedisIntegrationConfig(conf)
    /\ redis.WorkerIdTtl = Unset <=> redis.HeartbeatInterval = Unset
    => /\ Beating
       /\ NextBeat < Ttl /\ NextBeat < key.life

\* setLeaseDeadline and the script measure the TTL differently.  The lease ends
\* with the key at the latest when the TTL is in whole seconds, and less than
\* a second after it in any case.
LeaseWithinKey ==
    leased # Unset =>
        /\ Ttl < key.life + 1000
        /\ Ttl % 1000 = 0 => Ttl <= key.life

\* There are two searches for a Redis client.  What the plugin finds, the
\* standalone plugin finds as well; and registration is not switched off where
\* that one finds a client, unless the plugin met something useless first or
\* was told a name of its own.
ResolversAgree ==
    /\ phase \in {"initialized", "started"}
    /\ conf.AutoRegisterWorkerId
    /\ redis.RedisPluginName # ""
    => /\ auto => StandaloneResolvesClient
       /\ /\ StandaloneResolvesClient
          /\ \A name \in DOMAIN resources : resources[name] # "useless"
          /\ redis.RedisPluginName \in {"redis", "redis.client"}
          => auto
=============================================================================
