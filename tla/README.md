# Eon-ID: a TLA+ verification project

This directory specifies the Eon-ID plugin (`github.com/go-lynx/lynx-eon-id`),
a Snowflake-style ID generator whose worker IDs are leased from Redis. The
specifications are written from the Go code; TLC checks them on small
instances, and TLAPS proves their safety properties for every value of the
constants: of the generator, the worker ID managers, the plugins that join the
two, the configuration and the rate limiter.

## The system

| component | state | operations | hard because | correct when |
|---|---|---|---|---|
| ID generator (`generator.go`) | `lastTimestamp`, `sequence`, sequence cache, worker ID, shutdown flag, all under `g.mu`; a lock-free copy of the flag | `GenerateID` (retry loop around `tryGenerateID`), `SetWorkerID`, `Shutdown`, `ParseID` | many goroutines; the wall clock jumps; waiting happens outside the lock; the cache must agree with the counter | IDs are unique and ordered, numbers are not skipped, timestamps stay near the clock, calls end, nothing is issued after shutdown |
| Worker ID manager (`worker_manager.go`) | registration, instance ID, `healthy`, `leaseDeadline`, `shuttingDown`, `recovering`, the heartbeat context | `RegisterWorkerID`, `RegisterSpecificWorkerID`, heartbeat loop, `tryReRegister`, `reacquireFreshWorkerID`, `backgroundRecover`, `UnregisterWorkerID`, `IsHealthy`, `GetRegisteredWorkers` | up to four goroutines; state read under `w.mu` is used after it; Redis calls are lost before or after they took effect; keys expire; instances die | no two healthy instances stamp the same worker ID; a lost lease is replaced; a stopped instance stays stopped |
| Redis (`lua_scripts.go`) | one key per worker ID with owner and TTL, a counter, a registry set | `INCR` with reset, heartbeat script, `SETNX`, `GET`, `DEL`, `SADD`, `SREM` | shared by all instances | scripts are atomic |
| Plugin (`types.go`, `lifecycle_context.go`) | configuration, status, once-guards, generator and manager | `InitializeResources`, `Start`, `Stop`, `GenerateID` gated by `IsHealthy` | the gate is passed before the generator waits; the manager gives the worker ID back before the generator stops | no ID is issued twice by any two processes; the generator carries the leased ID; a stopped plugin holds nothing |
| Configuration (`config_validator.go`, `GeneratorConfig.Validate`, the setup in `types.go`) | none | two validators, two sets of defaults, two searches for the Redis client | they must agree with each other and with what the manager does with the TTL and the interval | what is validated can be started, keeps its key alive, and gives IDs that parse back |
| Security (`security.go`) | token buckets, clean-up goroutine | `CheckRateLimit`, `Allow`, `consume`, `cleanup`, `Stop` | clean-up and `Stop` race with requests; a bucket may leave the map while a request holds it | the rate is what was configured; nobody starves; nothing leaks |
| Standalone Redis plugin (`redis_integration.go`) | a worker manager | constructor, `RegisterWorkerID`, `Shutdown` | wired differently from the plugin | resolves the same client, keeps its key alive |
| Metrics, health report, package helpers | counters; delegation | | | |

The manager pushes a fresh worker ID into the generator through
`onWorkerIDChange` (a call of `SetWorkerID` under `w.mu`). `PlugSnowflake.Start`
registers and then writes the worker ID into the generator itself.
`PlugSnowflake.GenerateID` asks `IsHealthy` and then calls the generator. `Stop`
unregisters and then shuts the generator down, both under `p.mu`.

## Modules

| module | what it is |
|---|---|
| `IdSource` | Abstract: a cursor (timestamp, number) that moves to the next number or to a later millisecond, and stamps IDs. |
| `Generator` | `generator.go`: callers, clock, cache, drift actions, overflow, waiting, shutdown. Implements `IdSource`. |
| `GeneratorProofs` | Its theorems. |
| `LeaseService` | Abstract: each worker ID's key is free, an instance's or a ghost's, and is lent to its owner; a loan ends before the key changes hands. |
| `LeaseServiceProofs` | That this keeps worker IDs apart. |
| `WorkerManager` | `worker_manager.go` with Redis and the `main` goroutine of Start and Stop, for several instances. Implements `LeaseService` when everybody keeps the deadlines. |
| `WorkerInvariants` | The inductive invariants of `WorkerManager`: what each goroutine remembers, the three modes of an instance, and how leases follow keys. |
| `WorkerManagerProofs` | Its theorems that need no deadline: types, and that a stop is final. |
| `WorkerTimelyProofs` | Its theorems for instances that keep their deadlines: modes, leases, ownership. |
| `WorkerLeaseProofs` | That it implements `LeaseService`. |
| `Plugin` | `types.go` and `lifecycle_context.go`: several processes with a plugin each, on one lease service and one clock, from initialisation to the issued IDs. |
| `PluginProofs` | Its theorems. |
| `Configuration` | From a configuration to the first ID and the heartbeats: defaults, resources, constructor, range of registration, layout and `ParseID`, TTL and interval, `ValidateSnowflakeConfig` and the standalone plugin beside them. |
| `ConfigurationProofs` | Its theorems. |
| `RateLimiter` | `security.go`: token buckets as objects, requests, the clean-up goroutine, `Stop`. |
| `RateLimiterProofs` | Its theorems. |
| `MC*` | The specifications for TLC, with symmetry where it is sound. |

The composition has two storeys. `Generator` and `WorkerManager` model the code in
detail and are each shown to implement an abstract specification. `Plugin` stands
on those: it takes `LeaseService` for Redis and the managers and `IdSource`'s cursor
for the generator, and models in detail the code that joins them.

A definition whose comment starts with "Mutant" is a plausible bug of the
definition near it. No specification uses it; `PROJECT.json` names for every
checked property one such variant that breaks it.

### How `Generator` corresponds to the code

`tryGenerateID` runs under `g.mu` from beginning to end, so every way through it
is one action: `RefuseAfterShutdown`, `RejectDrift`, `WaitForClock`,
`IssueInSameMillisecond`, `IssueInNewMillisecond`, `AdvanceSyntheticTimestamp`
and `WaitForNextMillisecond`. The loop of `GenerateID` around it is `Call`,
`CheckShutdown` (the lock-free load), `GiveUp` and `Sleep`. A caller's `pc` says
where it is: `check`, `try` or `wait`. `config` is chosen in `Init` among all
combinations of drift action, protection and cache size, and never changes.
`issued` and `overflowed` are history variables: no action reads them.

Abstracted: an ID is a record of the fields it packs, with the clock reading at
its issue for `IssuedNearClock`; the datacenter ID is constant and left out; the
two stores of `Shutdown` are one step, since whoever sees only the first is
turned away under the lock exactly as if it had seen both; metrics. The wait
budget of two seconds is a number of sleeps, and a sleep takes any part of what
is left, so short and long sleeps are both covered.

### How `WorkerManager` corresponds to the code

`mgr[i]` holds the fields of one `WorkerIDManager` and the worker ID of the
instance's generator. `proc[i]` has a record per goroutine: heartbeat loops
(`Loops`), `bg` (`backgroundRecover`) and `main` (`startupTasksContext`,
`doStopCleanupContext`). `pc` is the place in the code; while a Redis call is
under way `call`, `wid` and `tok` are its arguments, which are local copies as in
the code, and `ans` is its answer. A call has three steps: the caller sends it,
Redis executes it (`Execute`, or `CallFails` which may or may not execute it),
and the caller acts on the answer. Between them every other goroutine, instance
and the clock may move. `w.mu` is held over the calls of a registration
(`HoldsMu`) and released before the others, as in the code. `INCR` is executed in
the step that sends `SETNX`, and its failure is `DrawFails`.

Time is in ticks and relative: `ttl` and `lease` count down, `clk` counts up from
a goroutine's last send. With `Timely` the clock waits for goroutines that can
run, for a beat that is due and for a call at its timeout; without it everybody
may stall for ever, between any two steps. Instance IDs (`generateInstanceID`) are
tokens that are reused only when nothing mentions them any more.

`Leases` maps this to `LeaseService` by two functions. `Holders` gives each key its
owner, the instance whose manager or goroutines know its token (a key whose token
nobody knows is a ghost's). `Lent` gives each instance the worker ID its generator stamps
while `MayGenerate` holds, which is when `PlugSnowflake.GenerateID` gets through.

Abstracted: the branches for a nil client and invalid arguments; the JSON of the
key except its `instance_id`; the time of the back-offs (a sleeping recovery may
wake at any time); that `AutoRegisterWorkerId` may be off, when nothing happens.

### How `Plugin` corresponds to the code

`plugin[p].stage` follows `InitializeResources`, `startupTasksContext` and
`doStopCleanupContext`, whose critical sections under `p.mu` are `MuHeld`. A
registration is two steps, `Reserve` (`SETNX`) and `CommitRegistration`, and a third,
`SetGeneratorWorkerID`, for what Start writes into the generator after
`RegisterWorkerID` returned. A recovery reserves and commits likewise beside the
stages. `EnterGenerateID` is the check of `GenerateID`; `Issue` is what the generator
does later, with the worker ID and the shutdown flag of that moment. `Crash`
replaces the process and leaves its key to a ghost.

Every step that touches `key` or `lent` is one of `LeaseService`, or lets a key go:
a key that was deleted or expired is `gone` at once but taken anew only after the
next `Tick`.

Assumptions, which the code leaves to its surroundings:
- the framework calls a plugin's lifecycle methods one after the other, initialises
  once per process and starts no plugin it has stopped (`stopCleanupOnce` and
  `shuttingDown` are never reset);
- all processes read one clock, which does not go back;
- handing a worker ID to another process takes a millisecond or more: an
  unregistration or an expiry, then `INCR` and `SETNX` with their answers;
- the managers are timely, which is when `WorkerManager` implements `LeaseService`;
- no millisecond overflows outside the Ignore action (`GeneratorOverflow` shows what
  happens then), and the Ignore action's synthetic timestamps are left out;
- with `Prompt`, `GenerateID` returns within the millisecond of its health check.
  `PluginStaleGate` shows what happens without.

Abstracted: `UpdateConfiguration` between initialisation and start; a plugin that has
no Redis client issues IDs too, but nothing keeps its worker ID apart from
others', so `UniqueIDs` is about the IDs of plugins that lease.

### How `Configuration` corresponds to the code

`InitializeResources` is one action; it looks for a Redis client (`ResolvesClient`),
derives a `GeneratorConfig`, validates it and builds the generator, or fails.
`StartWithoutRedis`, `StartWithSpecificID` and `StartWithAnyID` are the ways through
`startupTasksContext` that succeed, and `Reregister` is a recovery's registration
followed by `SetWorkerID`. `StartStandalone` is `NewRedisSnowflakePlugin`. The
counter and the other instances are those of `WorkerManager`; here any worker ID of
the range may come out, the first and the last standing for all. `key` is the
lifetime of the leased key in ms, aged by `Heartbeat` (the script, which is given whole
seconds) and `LoseHeartbeat`.

Abstracted: the epoch is its age in years; the key prefix, the database number and
`clock_check_interval`, which nothing but a validator reads;
`NewSnowflakeGeneratorWithConfig`, which only a test of its nil argument calls. IDs
are numbers, composed by addition; timestamps are small, because TLC's integers have
32 bits. The layout, the times and the resources are varied one group at a time: none
of them enters the code that decides about another.

### How `RateLimiter` corresponds to the code

A request is `CheckRateLimit` (the first read of `sm.rateLimiter`, without the
manager's lock), `FindBucket` (`Allow` under `rl.mu`) and `Consume` (`consume` under the
bucket's lock). `NilLimiter` is the second read of `sm.rateLimiter` when `Stop` came in
between. Buckets are objects at addresses, since one that `cleanup` has removed lives on
in the requests that hold it while the client's next request makes another. Ages
replace times. `sinceGrant` and `credit` are history: the age of a client's last
admission, and an ideal bucket that gains its tokens in parts.

Abstracted: API keys, IP lists, encryption and audit log, which are library calls on data
and touch none of this.

## Runs

| run | question | bounds |
|---|---|---|
| `Generator` | types, the inductive invariant, order, gaps, distance from the clock, synthetic timestamps, shutdown, refinement of `IdSource`, every call returns | 2 callers, 5 calls, 3 clock values, 4 numbers per ms, caches of 0, 2 and 4, all drift actions |
| `WorkerTimely` | ownership, leases, somebody recovers, the inductive invariant, refinement of `LeaseService` | 2 instances, 1 worker ID, TTL 3, crashes, listing |
| `WorkerRestart` | a stop is final though Start is called again and goroutines stall | 1 instance, 1 worker ID, TTL 1, not timely |
| `WorkerRecovery` | a lost lease is replaced; a stopped instance's ID becomes free | 1 instance, 2 worker IDs, configured ID 1, TTL 2, fairness |
| `Plugin` | no ID is issued twice; the stamped ID is leased; a stopped plugin holds nothing; the inductive invariant of prompt plugins | 2 processes, 2 worker IDs, automatic or configured, 2 ms |
| `Configuration` | worker IDs fit the generator, IDs parse back in order, heartbeats come in time, a lease and its key differ by less than a second, the validators and the searches for Redis agree but where stated | every value of the cfg, by group: on both sides of most limits, and unset |
| `RateLimiter` | the rate, refusals, clean-up, the goroutine's end | 1 client, 2 requests at once, 3 buckets, rates 0 and 2, fairness |
| `GeneratorOverflow` | counterexample to `UniqueIDs` | 1 caller, 2 numbers per ms |
| `GeneratorIdleDrift` | counterexample to `DriftErrorMeansBackwardClock` | 1 caller, the error action |
| `WorkerUnregisterRace` | counterexample to `DeletesOnlyOwnKey` | 2 instances, 1 worker ID, timely, with stops |
| `WorkerRecoveryLost` | counterexample to `NeverBricked` | 1 instance, not timely |
| `PluginStaleGate` | counterexample to `UniqueIDs` of the plugins | 2 processes, 1 worker ID, not prompt |

Why the bounds are enough. In `Generator` everything interesting happens within
a few milliseconds: a millisecond that fills up (`MaxSequence` 3, so that the fifth
call overflows it), no cache, a cache that is refilled within the
millisecond and one as long as it, a clock that stays, advances, and goes back by
as much as each limit and by more (the limits are 1 ms, the clock has 3 values),
and a second caller between any two steps of the first. The run has one worker ID;
the theorems hold for any set, and remove the other bounds too, for all properties but
liveness.

In `WorkerManager` one contested worker ID and two instances give every way a key can
change hands; `TTL` 3 with `HeartbeatInterval` 1 leaves room for two lost beats as the
default 30s and 10s do, and `CallTimeout` 1 lets an answer arrive a beat late as
5s against 10s does. `MaxConsecutiveFailures` is 1 or 2 instead of 3 and
`SyncAttempts` 1 instead of 3: more of them repeat the same steps. Two loops are
what can exist at once: a new loop starts only when the old one has been
cancelled, and a cancelled one ends at its next look at its context. `WorkerRestart`
needs no lease, so a `TTL` of 1 will do; what matters there is that every goroutine may
stop between any two steps. In `Plugin` two milliseconds suffice for a hand-over: an
ID is issued, its worker ID goes, and the next owner's first ID either has another
timestamp or shows the collision; `MaxSequence` 0 makes every ID of a millisecond the
same one, so a collision cannot hide. In `RateLimiter` a second is two ticks, so that parts of
seconds are lost, `BucketTTL` is four ticks, the least that `RateBounded` allows for a rate of 2, and three
buckets are what two requests and the map can lead to at once.

`MaxCalls`, `MaxTokens`, `MaxTime`, `MaxAge`, `MaxLostBeats` and the number of `Loops`
bound the behaviours only; no property is about them (`MaxAge` is beyond every age the code
compares with). Deadlock is checked in all passing runs but `Configuration`, which ends
when the plugin has failed or generates without Redis.

## Fairness

`Generator!FairSpec`: weak fairness of each caller's own steps. The Go scheduler
runs a runnable goroutine, a sleep ends, and `g.mu` is held only within one
step. There is none on `Call`, `ClockStep`, `SetWorkerID` and `Shutdown`.

`WorkerManager!FairSpec`: weak fairness of each goroutine, of the second half of
`IsHealthy` once begun, and of `Stabilize`, from which on Redis answers: the
code's recovery is about outages that end. Strong fairness of `Tick`: the clock of a
timely system waits for running goroutines, and that time passes all the same
is not a matter of scheduling. There is none on `Stop`, `StartAgain`, `Crash`,
`SeeExpired`, or on a lost call.

`RateLimiter!FairSpec`: weak fairness of each request's own steps, of `Cleanup` and
`CleanerStops` (Go's `select` chooses between ready channels at random, so neither the
ticker nor the stop channel is passed over for ever) and of `Tick`. There is none on `CheckRateLimit`
and `Stop`.

## What is proved

`GeneratorProofs`, from `ConfigAssumption` and `BoundsAssumption` only
(positive `MaxSequence`, caches not longer than the sequence space as `Validate`
demands, known drift actions, natural numbers):

- `TypeCorrect`: `Spec => []TypeOK`.
- `InductiveInvariant`: `Spec => []IInv`.
- `IDsOrdered`, `SequencesGapless`: two of its conjuncts.
- `SyntheticAdvanceJustified`, `IDsNearClock`, `ShutdownIsFinal`: action
  properties and an invariant that follow step by step from it.
- `GeneratorImplementsIdSource`: the refinement, also step by step.

Order alone is not inductive: that a new ID is later than all issued ones needs
`LastIsLatest` (the cursor dominates the history), and that the number taken from
the cache is the cursor's successor needs `CacheContinuesSequence` (the unread
cache entries are the numbers after `sequence`). That an overflow happens only when
the millisecond is used up needs `PrefixIssued` (all numbers up to `sequence` have
been issued), which also carries `NoSequenceGaps`. `IInv` joins these to `TypeOK`; the
run `Generator` checks it too. The proof has one
step per action; the two actions that append an ID rest on lemmas about the
next number and the refilled cache.

`LeaseServiceProofs`: `LeasesExclusive`, that an instance stamps only what it owns and
that no two stamp the same, if `Nobody` is no instance.

`WorkerManagerProofs`, `WorkerTimelyProofs` and `WorkerLeaseProofs`, from `TimeAssumption` and
`NamesAssumption` (positive times and limits, distinct names) and the hypotheses named here:

- `WorkerManagerTypes`: `TypeOK` and `TypeInv`, which adds to the types what a goroutine
  remembers at each of its labels.
- `StoppedInstancesStayUnregistered`: a stop is final, however long any goroutine or answer
  takes, and even if Start is called again.
- `InstancesKeepStructure`, `NeverBrickedInTime`, if `Timely` and Start is not called on
  a running instance.
- `InstancesKeepDeadlines` (`PromptInv`), `LeasesAreBoundedByKeys`,
  `InstancesGenerateWithTheirOwnIDs`, `ManagersImplementLeaseService` and
  `NoTwoInstancesStampOneWorkerID`, if `Prompt`.

`Prompt` says that deadlines are kept, that nobody is stopped and Start is not called on a running
instance, and that the times fit: `HeartbeatInterval + CallTimeout < TTL` and
`2 * CallTimeout < TTL`. The defaults do, with 10s, 5s and 30s. The first is that a key
outlives the next beat and its answer; the second that it outlives the answer that made
it and the first beat's. Crashes, lost calls, expired keys, any number of instances and
worker IDs, and the recovery goroutine are all in these theorems. Stops are not:
an unregistration's `DEL` may hit a key that has passed to another instance
(`WorkerUnregisterRace`), which then stamps an ID it does not own. Without deadlines
`NeverBricked` is false too (`WorkerRecoveryLost`).

The argument has three layers. `TypeInv` and `StopInv` hold whatever time does: once
`UnregisterWorkerID` has left its critical section the mutex is free and `shuttingDown`
bars every later registration. `Structure` says that an instance that is up and not
stopping is in one of three modes. `Starting`: nothing is registered and only Start
runs. `Holding`: a worker ID is registered, the generator has it, its loop beats, and whoever
registered it is at most about to end. `Searching`: nothing is registered, and one
goroutine, a loop or the recovery, is after another ID. Each is needed for the others: that
a beat speaks of the registered ID with the registered token needs that nobody else
registers meanwhile. `Timing` then relates three clocks: a key's remaining life, the
lease, and the age of a call. An answer that says a key is one's own is no older than the call, so key
life and call age together make up at least `TTL` (`AnswerFresh`); a healthy manager
with a lease owns its key, and where the lease outlives the key, the next answer is due before
the key ends (`HolderOK`). That is what keeps a lease that `setLeaseDeadline` starts too late
from being used after its key. For the refinement every step is one of `Reserve`,
`Lend`, `Release` or a stutter of `LeaseService`; the release of a loan before its key needs
`PromptInv` before and after the step.

`PluginProofs`, from `PluginAssumption` (the names of nobody are no processes', natural
numbers):

- `TypeCorrect`, with and without `Prompt`.
- `PromptInvariant`, `PromptUniqueIDs`, `PromptStampsLeasedID`: `Prompt` and `Spec` imply the
  inductive invariant `IInv`, that no ID is issued twice by any number of processes, and
  that whoever the gate lets through stamps the ID its key holds.
- `TerminatedPluginsHoldNothing`, with and without `Prompt`.

Uniqueness needs that in one millisecond a worker ID has one stamper. The inductive
invariant says so: two processes that may stamp one worker ID now are one process; a
worker ID whose key is free has no IDs of this millisecond; a caller past the gate
stamps a worker ID whose key is its process's own, or a ghost's after it was stopped;
and the key of a worker ID that was let go is not free before the next `Tick`, which
when prompt has no callers to wait for. IDs of other milliseconds are older than every
cursor allows.

That a stopped plugin holds nothing has an invariant of its own, `KeysKnown`: a process
knows every key it owns, as its worker ID or as the one it is reserving, and never both. The
stop clears the one, and `shuttingDown` bars the other.

`ConfigurationProofs`, from `InputAssumption` (natural numbers) and, in `OneBeatMayBeLost`,
`MaxLostBeats <= 1`:

- `ConfigurationTypes`: `TypeOK`.
- `GeneratorStampsLeasedID`: whatever layout, defaults and range led to it, a generator
  whose plugin leases stamps the leased worker ID, unclipped.
- `LeasesEndWithTheirKeys`: a lease and its key differ by less than a second.
- `OneBeatMayBeLost`: if at most one beat in a row is lost, the key lives until the next
  beat, where the validator saw both times or neither. `TTL >= 3 * interval`
  leaves room for one lost beat even when the script rounds the TTL down to seconds; with
  two lost, the next beat may come when a TTL of three intervals ends.
- `EveryIDIsFaithful`: an ID gives back its timestamp, datacenter, worker ID and sequence, and
  IDs compare as their timestamps and sequences do, for every layout, every time since
  the epoch and every sequence number. `IDsAreFaithful` is the property the run checks, for a
  few of them. Both count in unbounded integers: the end of the 63 bits is left out.
- `ValidatorsDifferAsListed`, `ResolversDifferAsListed`: the exceptions in `ValidatorsAgree` and
  `ResolversAgree` are all there are.

The inductive invariant is that the stage determines the generator (`StageKnown`), that the range of a
registration is the generator's (`RegistrationKnown`), and that a key's life is the TTL, or
its whole seconds after a renewal, and its silence an interval for one lost beat (`KeyKnown`).
The provers know a power only of a given number, so that powers of two are positive and add up is
proved number by number, up to the 22 bits the layout may have; the fields are
then found back by the uniqueness of quotient and remainder.

`RateLimiterProofs`, from `RateLimiterAssumption` (positive times, integer rates, addresses
distinct from nil):

- `TypeCorrect`, for every rate, also one that is zero or negative.
- `RateBoundedAlways`: `Spec => []RateBounded`.
- `RefusedSoon`: `Spec => RefusedSoonAfterGrant`.

The bound is not inductive. `CreditCovers` is: the ideal bucket holds at least the tokens of
the bucket in the map and what its next refill may give; a client without a bucket is
owed a full one, which is what it will get. That survives a clean-up because a bucket
that nobody accessed for `BucketTTL` would have refilled by now (`AccessAfterRefill`), and
it survives `Consume` because no other client's requests take from the bucket
(`OneOwner`, over the map and the requests that hold a removed one). A refusal comes
soon after an admission because an empty bucket was emptied by one since its last
refill (`EmptiedByGrant`).

Every safety property of a passing run is a theorem. Only model-checked are the liveness
properties `CallsReturn`, `Recovers`, `FreesWorkerID`, `IdleClientsForgotten` and
`CleanupGoroutineEnds`: fairness and `ENABLED` are outside the prover.

## What the runs found

Five places where the code and what it says of itself disagree; each has a run
whose counterexample shows the steps, and an entry in `PROJECT.json`.

1. `GeneratorOverflow`: a sequence overflow outside the Ignore action stores the
   wrapped sequence but keeps the timestamp. The next attempt in the same
   millisecond continues with 1 and repeats IDs. `OrderedUnlessOverflowed` is the
   order with exactly this case excepted, and `Rewind` of `IdSource` is its trace in
   the abstract specification.
2. `GeneratorIdleDrift`: the Error action refuses after an idle period longer
   than `max_clock_drift`, and from then on always.
3. `WorkerUnregisterRace`: DEL may remove another instance's key.
4. `WorkerRecoveryLost`: a lease lost before the recovery goroutine has reset
   `recovering` is never recovered. A second `StartContext` can leave the same gap.
5. `PluginStaleGate`: a call that is slow between its health check and the generator is
   overtaken by a stop or a lost lease, and issues an ID that the worker ID's next owner
   issues as well.

More are written into properties that hold, or into the model:

- `LeaseBoundedByKey`: a heartbeat's lease is counted from its answer, so it
  outlives the key by the time the answer took, although `setLeaseDeadline` is
  meant to end it before. In `WorkerTimely` this does not lead to a shared worker ID:
  there the beat that fails clears `healthy` before the key expires. When beats
  stall, the lease is the only guard.
- `LeaseWithinKey`: the script is given whole seconds, so after a renewal a key may
  also expire up to a second before its lease.
- `BeatsInTime`: `ValidateRedisIntegrationConfig` holds the interval against the TTL only
  where both are set; a TTL of 10s with the default interval of 10s, or an interval of an
  hour with the default TTL, are accepted. The property lists this.
- `ValidatorsAgree`: `KnownDifference` lists where `ValidateSnowflakeConfig` and the
  constructor differ; the first of them is the default configuration, which starts
  but is not valid. Two examples of the repository's README are beyond
  both: a cache of 5000 with 12 sequence bits, and 8 + 14 bits beside 5 for the
  datacenter.
- `ResolversAgree`: where the plugin and the standalone plugin find different Redis
  clients.
- `RateBounded`: the buckets gain one token a second whatever the rate, though the comment
  on `RateLimit` says requests per second. A rate beyond the seconds of `BucketTTL` is refilled sooner by the
  clean-up, and a removed bucket still admits the requests that hold it; both are
  excepted.
- `NilLimiter`: a request that reads `sm.rateLimiter` twice around `Stop` panics.
- `StartContext`'s last write: `startupTasksContext` writes the worker ID that
  `RegisterWorkerID` returned, though a recovery may have replaced it since. `Plugin` rules
  it out for prompt plugins only (`LoseLease`).

## Not modelled

- Timestamps before the epoch and at the end of the 63 bits, which TLC's integers do not reach.
- A wall clock that is set back under a running lease, and clocks that differ between
  processes.
- Metrics and the health report, which nothing reads to decide.
- API keys, IP lists, encryption and audit log: library calls on data.
- The standalone plugin's delegating methods; registration with the framework;
  generated protobuf code.

`PROJECT.json` lists each with its reason, and the hazards no property covers yet.

## Plan

Done: `IdSource`, `Generator`, `LeaseService`, `WorkerManager`, `Plugin`, `Configuration`,
`RateLimiter`, and the proofs of all of them.

1. `WorkerManager` with stops: that ownership holds up to the first `DEL` of a key that has
   passed to another instance.
2. `Plugin` with a clock of its own for each process, set back under the lease.
3. Registrations that share the counter: how often one draws an ID twice.
4. `IdLayout`: signs, timestamps before the epoch and at the end of the 63 bits.
