------------------------------- MODULE Plugin ------------------------------
(***************************************************************************)
(* PlugSnowflake of types.go and lifecycle_context.go: processes that each   *)
(* run one plugin, made of a worker ID manager and a generator, on one       *)
(* Redis.  The managers appear as the lease service they implement           *)
(* (WorkerManager!ImplementsLeaseService) and the generator as its cursor    *)
(* (Generator!ImplementsIdSource, but for a Rewind after an overflow); what  *)
(* is detailed here is the plugin that joins them: initialisation, Start,    *)
(* Stop, and GenerateID, which asks the manager first and calls the          *)
(* generator afterwards.                                                    *)
(*                                                                          *)
(* The framework calls a plugin's lifecycle methods one after the other, and *)
(* the clock is one for all processes and never goes back.  With Prompt,     *)
(* GenerateID returns within the millisecond in which IsHealthy was asked.   *)
(***************************************************************************)
EXTENDS Integers

CONSTANTS
    Plugins,            \* processes with a plugin
    WorkerIDs,          \* what WorkerIdBits leaves room for
    ConfWorkerIDs,      \* values of conf.WorkerId to try, 0 for automatic
    Callers,            \* goroutines that call GenerateID
    MaxSequence,
    MaxTime,            \* last millisecond of a run
    Prompt,             \* whether GenerateID is fast
    Nobody, Ghost, NoID, NoPlugin

ASSUME PluginAssumption ==
    /\ WorkerIDs \subseteq Nat
    /\ ConfWorkerIDs \subseteq WorkerIDs \union {0}
    /\ {MaxSequence, MaxTime} \subseteq Nat
    /\ Prompt \in BOOLEAN
    /\ {Nobody, Ghost} \intersect Plugins = {} /\ Nobody # Ghost
    /\ NoID \notin WorkerIDs /\ NoPlugin \notin Plugins

VARIABLES
    key,        \* Redis: the owner of each worker ID's key
    gone,       \* keys that were deleted or expired in this millisecond
    lent,       \* the worker ID each manager's IsHealthy stands for
    plugin,     \* the plugins
    caller,     \* the callers, and whose generator they are about to call
    now,        \* the clock
    issued,     \* history: IDs stamped with leased worker IDs
    collided    \* history: those stamped more than once

vars == <<key, gone, lent, plugin, caller, now, issued, collided>>

Service == INSTANCE LeaseService WITH Instances <- Plugins

Stages == {"new", "inactive", "specific", "auto", "late", "active",
           "stopping", "shutdown", "terminated", "failed"}

Plugin == [stage        : Stages,
           workerId     : WorkerIDs \union {0},       \* conf.WorkerId
           leases       : BOOLEAN,    \* conf.AutoRegisterWorkerId, with Redis
           workerID     : WorkerIDs \union {NoID},    \* registered by the manager
           reserved     : WorkerIDs \union {NoID},    \* SETNX is done, w.mu held
           returned     : WorkerIDs \union {0},       \* by RegisterWorkerID, to Start
           recovering   : BOOLEAN,    \* the manager is after a fresh worker ID
           shuttingDown : BOOLEAN,
           stamps       : WorkerIDs \union {0},       \* generator.workerID
           last         : [time : -1 .. MaxTime, sequence : 0 .. MaxSequence],
           down         : BOOLEAN]    \* generator.shutdown

\* A process before InitializeResources.
Fresh(workerId) ==
    [stage |-> "new", workerId |-> workerId, leases |-> FALSE, workerID |-> NoID,
     reserved |-> NoID, returned |-> 0, recovering |-> FALSE,
     shuttingDown |-> FALSE,
     stamps |-> workerId, down |-> FALSE, last |-> [time |-> -1, sequence |-> 0]]

Init ==
    /\ Service!Init
    /\ gone = {}
    /\ \E workerId \in [Plugins -> ConfWorkerIDs] :
           plugin = [p \in Plugins |-> Fresh(workerId[p])]
    /\ caller = [c \in Callers |-> NoPlugin]
    /\ now = 0
    /\ issued = {}
    /\ collided = {}

history == <<issued, collided>>

At(p, stage) == plugin[p].stage = stage

GoTo(p, stage) == plugin' = [plugin EXCEPT ![p].stage = stage]

-----------------------------------------------------------------------------
(* InitializeResources and StartContext.                                    *)

\* The manager and the generator are built.  Without Redis the plugin works with
\* the configured worker ID and a manager that is healthy from the beginning.
InitializeResources(p) ==
    /\ At(p, "new")
    /\ \E leases \in BOOLEAN :
           plugin' = [plugin EXCEPT ![p].stage = "inactive", ![p].leases = leases]
    /\ UNCHANGED <<key, gone, lent, caller, now, history>>

\* A failed Start may be tried again; the framework starts no plugin that it has
\* stopped.
StartContext(p) ==
    /\ At(p, "inactive") \/ At(p, "failed")
    /\ ~plugin[p].shuttingDown
    /\ GoTo(p, IF ~plugin[p].leases         THEN "active"
               ELSE IF plugin[p].workerId > 0 THEN "specific" ELSE "auto")
    /\ UNCHANGED <<key, gone, lent, caller, now, history>>

Registering(p) == At(p, "specific") \/ At(p, "auto")

\* Mutant: RegisterWorkerID does not look at shuttingDown.
MayReserveStopped(p) ==
    /\ plugin[p].reserved = NoID /\ plugin[p].workerID = NoID
    /\ Registering(p) \/ plugin[p].recovering

\* w.mu is free and nothing is registered.
MayReserve(p) ==
    /\ plugin[p].reserved = NoID /\ plugin[p].workerID = NoID
    /\ Registering(p) \/ plugin[p].recovering
    /\ ~plugin[p].shuttingDown

\* SETNX succeeds, for the configured worker ID or for any that is drawn.
Reserve(p, w) ==
    /\ MayReserve(p)
    /\ At(p, "specific") => w = plugin[p].workerId
    /\ Service!Reserve(p, w)
    /\ plugin' = [plugin EXCEPT ![p].reserved = w]
    /\ UNCHANGED <<gone, caller, now, history>>

\* The answer of a SETNX is lost: nobody knows this instance_id.
LoseReservation(p, w) ==
    /\ MayReserve(p)
    /\ At(p, "specific") => w = plugin[p].workerId
    /\ key[w] = Nobody
    /\ Service!Release({}, {}, {w})
    /\ UNCHANGED <<gone, plugin, caller, now, history>>

\* A registration fails: Start goes on to the automatic one or gives up.
RegistrationFails(p) ==
    /\ Registering(p)
    /\ plugin[p].reserved = NoID
    /\ GoTo(p, IF At(p, "specific") THEN "auto" ELSE "failed")
    /\ UNCHANGED <<key, gone, lent, caller, now, history>>

\* Mutant: onWorkerIDChange is not called.
StampsAfterKept(p) == plugin[p].stamps

\* RegisterWorkerID calls onWorkerIDChange, RegisterSpecificWorkerID does not.
StampsAfter(p) ==
    IF At(p, "specific") THEN plugin[p].stamps ELSE plugin[p].reserved

\* RegisterSpecificWorkerID ends startupTasksContext; a recovery is not part of it.
StageAfter(p) ==
    IF At(p, "specific") THEN "active"
    ELSE IF At(p, "auto") THEN "late" ELSE plugin[p].stage

\* Everything is set under w.mu, healthy last.
CommitRegistration(p) ==
    /\ plugin[p].reserved # NoID
    /\ Service!Lend(p, plugin[p].reserved)
    /\ plugin' = [plugin EXCEPT ![p] = [@ EXCEPT
           !.workerID = plugin[p].reserved, !.reserved = NoID,
           !.recovering = FALSE, !.stamps = StampsAfter(p),
           !.returned = IF At(p, "auto") THEN plugin[p].reserved
                        ELSE plugin[p].returned,
           !.stage = StageAfter(p)]]
    /\ UNCHANGED <<gone, caller, now, history>>

\* startupTasksContext writes what RegisterWorkerID returned into the generator.
SetGeneratorWorkerID(p) ==
    /\ At(p, "late")
    /\ plugin' = [plugin EXCEPT ![p] = [@ EXCEPT !.stage = "active",
                                 !.stamps = plugin[p].returned, !.returned = 0]]
    /\ UNCHANGED <<key, gone, lent, caller, now, history>>

-----------------------------------------------------------------------------
(* StopContext: UnregisterWorkerID, then generator.Shutdown.                *)

\* Only an active plugin is stopped.
StopContext(p) ==
    /\ At(p, "active")
    /\ plugin' = [plugin EXCEPT ![p].stage = "stopping", ![p].shuttingDown = TRUE]
    /\ UNCHANGED <<key, gone, lent, caller, now, history>>

\* The key is deleted, or it is left to expire because GET or DEL failed.
UnregisterWorkerID(p) ==
    /\ At(p, "stopping")
    /\ plugin[p].reserved = NoID
    /\ lent' = [lent EXCEPT ![p] = NoID]
    /\ plugin' = [plugin EXCEPT ![p].stage = "shutdown", ![p].workerID = NoID]
    /\ LET mine == {w \in {plugin[p].workerID} \intersect WorkerIDs : key[w] = p} IN
       \/ gone' = gone \union mine /\ UNCHANGED key
       \/ /\ key' = [w \in WorkerIDs |-> IF w \in mine THEN Ghost ELSE key[w]]
          /\ UNCHANGED gone
    /\ UNCHANGED <<caller, now, history>>

\* The stage depends on whether the unregistration returned an error.
ShutdownGenerator(p) ==
    /\ At(p, "shutdown")
    /\ \E stage \in {"terminated", "failed"} :
           plugin' = [plugin EXCEPT ![p].stage = stage, ![p].down = TRUE]
    /\ UNCHANGED <<key, gone, lent, caller, now, history>>

-----------------------------------------------------------------------------
(* What happens to loans and keys meanwhile.                                *)

\* A beat fails or the lease deadline passes, which takes a prompt plugin longer
\* than the write of the generator's worker ID.
LoseLease(p) ==
    /\ lent[p] # NoID
    /\ Prompt => ~At(p, "late")
    /\ Service!Release({p}, {}, {})
    /\ UNCHANGED <<gone, plugin, caller, now, history>>

\* A heartbeat or a re-registration finds the key still its own.
RegainLease(p) ==
    LET w == plugin[p].workerID IN
    /\ w # NoID /\ w \notin gone
    /\ Service!Lend(p, w)
    /\ UNCHANGED <<gone, plugin, caller, now, history>>

\* reacquireFreshWorkerID drops a worker ID whose key is gone or another's.
Reacquire(p) ==
    LET w == plugin[p].workerID IN
    /\ w # NoID /\ plugin[p].reserved = NoID
    /\ lent[p] = NoID
    /\ w \in gone \/ key[w] # p
    /\ plugin' = [plugin EXCEPT ![p].workerID = NoID, ![p].recovering = TRUE]
    /\ UNCHANGED <<key, gone, lent, caller, now, history>>

\* Mutant: the key expires while its worker ID is still lent.
ExpirableEarly(w) == key[w] # Nobody

\* The loan ends before the key (WorkerManager: ImplementsLeaseService), and a
\* key that was reserved but not yet lent has its whole TTL ahead.
Expirable(w) ==
    /\ key[w] # Nobody
    /\ \A p \in Plugins : lent[p] # w /\ plugin[p].reserved # w

KeyExpires(w) ==
    /\ Expirable(w)
    /\ gone' = gone \union {w}
    /\ UNCHANGED <<key, lent, plugin, caller, now, history>>

\* The process dies and is started again.  Its key stays behind.
Crash(p) ==
    /\ ~At(p, "new")
    /\ Service!Release({p}, {}, {w \in WorkerIDs : key[w] = p})
    /\ plugin' = [plugin EXCEPT ![p] = Fresh(plugin[p].workerId)]
    /\ caller' = [c \in Callers |-> IF caller[c] = p THEN NoPlugin ELSE caller[c]]
    /\ UNCHANGED <<gone, now, history>>

-----------------------------------------------------------------------------
(* GenerateID and time.                                                     *)

\* p.mu is held by Start and Stop.
MuHeld(p) == \E stage \in {"specific", "auto", "late", "stopping", "shutdown"} : At(p, stage)

\* A manager that registers nothing is healthy and has no lease.
IsHealthy(p) == plugin[p].leases => lent[p] # NoID

\* The generator is there, and the manager is healthy.
EnterGenerateID(c, p) ==
    /\ caller[c] = NoPlugin
    /\ ~At(p, "new") /\ ~MuHeld(p)
    /\ IsHealthy(p)
    /\ caller' = [caller EXCEPT ![c] = p]
    /\ UNCHANGED <<key, gone, lent, plugin, now, history>>

\* Mutant: the cursor of a new millisecond is not kept.
NextCursorStuck(last) ==
    IF last.time = now THEN [time |-> now, sequence |-> last.sequence + 1]
    ELSE [last EXCEPT !.sequence = 0]

\* The generator's cursor: the next number of this millisecond or the first of a
\* new one.
NextCursor(last) ==
    [time |-> now, sequence |-> IF last.time = now THEN last.sequence + 1 ELSE 0]

NextID(p) ==
    [time     |-> NextCursor(plugin[p].last).time,
     sequence |-> NextCursor(plugin[p].last).sequence,
     workerID |-> plugin[p].stamps]

\* generator.GenerateID returns an ID; when the millisecond is used up it waits.
Issue(c) ==
    LET p  == caller[c]
        id == NextID(p)
    IN
    /\ p # NoPlugin
    /\ ~plugin[p].down
    /\ id.sequence <= MaxSequence
    /\ plugin' = [plugin EXCEPT ![p].last = NextCursor(plugin[p].last)]
    /\ issued' = IF plugin[p].leases THEN issued \union {id} ELSE issued
    /\ collided' = IF plugin[p].leases /\ id \in issued
                   THEN collided \union {id} ELSE collided
    /\ caller' = [caller EXCEPT ![c] = NoPlugin]
    /\ UNCHANGED <<key, gone, lent, now>>

\* The generator refuses, or gives up waiting for the next millisecond.
FailGenerateID(c) ==
    LET p == caller[c] IN
    /\ p # NoPlugin
    /\ \/ plugin[p].down
       \/ plugin[p].last = [time |-> now, sequence |-> MaxSequence]
    /\ caller' = [caller EXCEPT ![c] = NoPlugin]
    /\ UNCHANGED <<key, gone, lent, plugin, now, history>>

\* A worker ID is handed over no sooner than the next millisecond: unregistering
\* or expiring, INCR, SETNX and their answers take that long.
Tick ==
    /\ now < MaxTime
    /\ Prompt => \A c \in Callers : caller[c] = NoPlugin
    /\ now' = now + 1
    /\ key' = [w \in WorkerIDs |-> IF w \in gone THEN Nobody ELSE key[w]]
    /\ gone' = {}
    /\ UNCHANGED <<lent, plugin, caller, history>>

LifecycleStep(p) ==
    \/ InitializeResources(p)  \/ StartContext(p)
    \/ RegistrationFails(p)    \/ CommitRegistration(p)
    \/ SetGeneratorWorkerID(p) \/ StopContext(p)
    \/ UnregisterWorkerID(p)   \/ ShutdownGenerator(p)

LeaseStep(p) ==
    \/ LoseLease(p)            \/ RegainLease(p)
    \/ Reacquire(p)            \/ Crash(p)

Next ==
    \/ \E p \in Plugins :
           \/ LifecycleStep(p)
           \/ LeaseStep(p)
           \/ \E w \in WorkerIDs : Reserve(p, w) \/ LoseReservation(p, w)
           \/ \E c \in Callers : EnterGenerateID(c, p)
    \/ \E w \in WorkerIDs : KeyExpires(w)
    \/ \E c \in Callers : Issue(c) \/ FailGenerateID(c)
    \/ Tick

Spec == Init /\ [][Next]_vars

-----------------------------------------------------------------------------
(* Properties.                                                              *)

Ids == [time : 0 .. MaxTime, sequence : 0 .. MaxSequence, workerID : WorkerIDs \union {0}]

\* The plugins and the lease service keep their types.
TypeOK ==
    /\ Service!TypeOK
    /\ gone \subseteq WorkerIDs
    /\ plugin \in [Plugins -> Plugin]
    /\ caller \in [Callers -> Plugins \union {NoPlugin}]
    /\ now \in 0 .. MaxTime
    /\ issued \subseteq Ids
    /\ collided \subseteq Ids

\* No two plugins that lease their worker IDs ever issue the same ID, whatever
\* leases are lost and worker IDs handed over, and neither do a process and the
\* one that follows it after a crash.
UniqueIDs == collided = {}

\* Whoever is let through to the generator stamps a worker ID whose key it owns:
\* Start, the registrations and the recovery leave the generator with the worker
\* ID of the lease.
StampsLeasedID ==
    \A p \in Plugins : lent[p] # NoID /\ ~At(p, "late") => plugin[p].stamps = lent[p]

\* "UnregisterWorkerID so any in-flight background recovery ... stops": what a
\* plugin held is given back when it is terminated.
TerminatedHoldsNothing ==
    \A p \in Plugins : At(p, "terminated") =>
        /\ plugin[p].workerID = NoID /\ plugin[p].reserved = NoID
        /\ \A w \in WorkerIDs : key[w] = p => w \in gone

-----------------------------------------------------------------------------
(* Why UniqueIDs holds: an inductive invariant for prompt plugins.           *)

\* p may put w into an ID: its key holds w, or a call of its own is past
\* IsHealthy while the generator stamps w.
MayStamp(p, w) ==
    \/ key[w] = p
    \/ plugin[p].leases /\ plugin[p].stamps = w /\ \E c \in Callers : caller[c] = p

\* A lent or reserved worker ID is in a key that p holds.
Held(p) ==
    /\ lent[p] # NoID =>
          /\ key[lent[p]] = p /\ lent[p] \notin gone
          /\ plugin[p].workerID = lent[p]
    /\ plugin[p].reserved # NoID =>
          /\ key[plugin[p].reserved] = p /\ plugin[p].reserved \notin gone
          /\ plugin[p].workerID = NoID
          /\ At(p, "specific") => plugin[p].reserved = plugin[p].stamps

HeldByKey == (\A p \in Plugins : Held(p)) /\ \A w \in gone : key[w] # Nobody

\* p has not registered yet, or its registration failed.
Unregistered(p) ==
    \/ plugin[p].stage \in {"new", "inactive", "specific", "auto"}
    \/ At(p, "failed") /\ ~plugin[p].shuttingDown

\* Up to its registration the generator carries the configured worker ID, and the
\* registered one after it; while Start is about to write it, the loan stands.
Known(p) ==
    /\ Unregistered(p) =>
          /\ plugin[p].stamps = plugin[p].workerId
          /\ plugin[p].workerID = NoID
          /\ ~plugin[p].recovering /\ ~plugin[p].shuttingDown
          /\ ~Registering(p) => plugin[p].reserved = NoID
    /\ plugin[p].stage \in {"stopping", "shutdown"} => plugin[p].shuttingDown
    /\ plugin[p].workerID # NoID => plugin[p].stamps = plugin[p].workerID
    /\ At(p, "late") => lent[p] # NoID /\ plugin[p].returned = lent[p]

RegistrationKnown == \A p \in Plugins : Known(p)

\* A call past IsHealthy stamps a worker ID nobody else can have reserved yet.
CallsHoldKey ==
    \A c \in Callers : caller[c] # NoPlugin =>
        /\ ~At(caller[c], "new")
        /\ plugin[caller[c]].leases =>
              /\ plugin[caller[c]].stamps \in WorkerIDs
              /\ key[plugin[caller[c]].stamps] \in {caller[c], Ghost}

OneStamper ==
    \A p, q \in Plugins, w \in WorkerIDs : MayStamp(p, w) /\ MayStamp(q, w) => p = q

\* The IDs of this millisecond are known to the generator that may go on, and
\* there are none for a worker ID that can be reserved.
IssuedKnown ==
    \A id \in issued :
        /\ id.time <= now
        /\ id.time = now /\ id.workerID \in WorkerIDs =>
              /\ key[id.workerID] # Nobody
              /\ \A p \in Plugins : MayStamp(p, id.workerID) =>
                    plugin[p].last.time = now /\ id.sequence <= plugin[p].last.sequence

CursorsInPast == \A p \in Plugins : plugin[p].last.time <= now

IInv ==
    /\ TypeOK /\ HeldByKey /\ RegistrationKnown /\ CallsHoldKey /\ OneStamper
    /\ IssuedKnown /\ CursorsInPast /\ UniqueIDs
=============================================================================
