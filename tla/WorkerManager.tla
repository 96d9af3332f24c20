--------------------------- MODULE WorkerManager ---------------------------
(***************************************************************************)
(* WorkerIDManager of worker_manager.go: service instances lease worker IDs *)
(* from one Redis, keep their leases alive with a heartbeat, look for a     *)
(* fresh worker ID when the lease is lost, and give it back when stopped.   *)
(*                                                                          *)
(* An instance runs up to four goroutines: "main" (the plugin's Start and   *)
(* Stop), heartbeat loops (an old one may still be ending when a new one    *)
(* runs) and "bg", the background recovery.  A Redis call is sent, executed *)
(* and answered in three steps; it may fail before or after it executed.    *)
(*                                                                          *)
(* Time is counted in ticks, and only differences of times are kept: a key  *)
(* and a lease count down, a goroutine's clk counts up from its last send.  *)
(* With Timely the clock waits for goroutines that can run, for a beat that *)
(* is due and for a call at its timeout; without it they may stall.         *)
(***************************************************************************)
EXTENDS Integers

CONSTANTS
    Instances,
    MaxWorkerID,            \* maxWorkerID, the last of the worker IDs
    Loops,                  \* heartbeat goroutines one instance may have at once
    TTL,                    \* ticks a worker key lives
    HeartbeatInterval,      \* ticks between two beats
    CallTimeout,            \* ticks a Redis call may take
    MaxConsecutiveFailures, \* failed beats that start a re-registration
    SyncAttempts,           \* registrations tried before "bg" takes over
    MaxTokens,              \* instance IDs of one instance in use at a time
    ConfiguredIDs,          \* values of conf.WorkerId to try, 0 for automatic
    Timely,                 \* whether goroutines and Redis keep their deadlines
    MayStop, MayCrash,      \* whether instances are stopped, or die
    StartAgainFrom,         \* where startupTasksContext may be called again
    MayList,                \* whether somebody calls GetRegisteredWorkers
    NoToken, NoLoop

ASSUME TimeAssumption ==
    /\ {TTL, HeartbeatInterval, CallTimeout, MaxConsecutiveFailures,
        SyncAttempts, MaxTokens} \subseteq Nat \ {0}
    /\ MaxWorkerID \in Nat
    /\ ConfiguredIDs \subseteq 0 .. MaxWorkerID
    /\ {Timely, MayStop, MayCrash, MayList} \subseteq BOOLEAN
    /\ StartAgainFrom \subseteq {"failed", "running"}

\* The goroutines of an instance are different ones, and absence is no value.
ASSUME NamesAssumption ==
    /\ NoLoop \notin Loops /\ {"bg", "main"} \cap Loops = {}
    /\ {"nobody", "ghost"} \cap Instances = {}
    /\ NoToken \notin Instances \X (1 .. MaxTokens)

WorkerIDs == 0 .. MaxWorkerID
Total     == MaxWorkerID + 1
Procs     == Loops \union {"bg", "main"}
Tokens    == Instances \X (1 .. MaxTokens)   \* values of generateInstanceID
NoLease   == -1                              \* leaseDeadline = 0

VARIABLES
    key,        \* Redis: owner and remaining ticks of each worker key
    counter,    \* Redis: the INCR counter
    registry,   \* Redis: the set of worker IDs kept for monitoring
    mgr,        \* each instance's WorkerIDManager and its generator's worker ID
    proc,       \* each instance's goroutines
    lister,     \* worker IDs GetRegisteredWorkers has found without a key
    stable      \* Redis fails no more calls

redis == <<key, counter, registry>>
vars  == <<redis, mgr, proc, lister, stable>>

Manager == [want         : WorkerIDs,       \* conf.WorkerId, 0 for automatic
            workerID     : WorkerIDs \union {-1},
            registered   : BOOLEAN,
            instanceID   : Tokens \union {NoToken},
            healthy      : BOOLEAN,
            lease        : NoLease .. TTL,      \* ticks left, 0 when expired
            shuttingDown : BOOLEAN,
            recovering   : BOOLEAN,
            loop         : Loops \union {NoLoop},  \* owner of heartbeatCtx
            expiredSeen  : BOOLEAN,    \* IsHealthy is about to clear healthy
            generatorID  : WorkerIDs,  \* generator.workerID
            alive        : BOOLEAN]

Labels == {"off", "idle", "sent", "replied", "up", "rereg", "reacquire", "try",
           "retry", "spawn", "check", "sleep", "exit", "start", "auto",
           "startset", "running", "failed", "unreg", "shutdown", "stopped"}
Calls   == {"none", "hb", "rr", "reg", "spec", "get", "del"}
Answers == {"none", "ok", "taken", "gone", "bad"}

Proc == [pc    : Labels,
         call  : Calls,             \* the Redis call under way
         ans   : Answers,
         wid   : WorkerIDs \union {-1},
         tok   : Tokens \union {NoToken},
         clk   : 0 .. TTL,          \* ticks since the last send, up to TTL
         fails : 0 .. MaxConsecutiveFailures,
         left  : 0 .. SyncAttempts,
         draws : 0 .. Total]        \* IDs drawn in this registration

Resting == [pc |-> "off", call |-> "none", ans |-> "none", wid |-> -1,
            tok |-> NoToken, clk |-> 0, fails |-> 0, left |-> 0, draws |-> 0]

\* types.go 402-416: nothing is registered and healthy is 0 before Start.
Init ==
    /\ key = [w \in WorkerIDs |-> [owner |-> NoToken, ttl |-> 0]]
    /\ counter = 0
    /\ registry = {}
    /\ \E want \in [Instances -> ConfiguredIDs] :
           mgr = [i \in Instances |->
                    [want |-> want[i], workerID |-> want[i], registered |-> FALSE,
                     instanceID |-> NoToken, healthy |-> FALSE,
                     lease |-> NoLease, shuttingDown |-> FALSE,
                     recovering |-> FALSE, loop |-> NoLoop,
                     expiredSeen |-> FALSE, generatorID |-> want[i],
                     alive |-> TRUE]]
    /\ proc = [i \in Instances |-> [p \in Procs |->
                    IF p = "main" THEN [Resting EXCEPT !.pc = "start"]
                                  ELSE Resting]]
    /\ lister = {}
    /\ stable = FALSE

-----------------------------------------------------------------------------
(* Goroutines and their Redis calls.                                        *)

At(i, p, label) == mgr[i].alive /\ proc[i][p].pc = label

\* w.mu is held from the first INCR of a registration to its end.
HoldsMu(i, p) ==
    \/ proc[i][p].pc = "retry"
    \/ proc[i][p].pc \in {"sent", "replied"} /\ proc[i][p].call \in {"reg", "spec"}
MuFree(i) == \A p \in Procs : ~HoldsMu(i, p)

GoTo(i, p, label) == proc' = [proc EXCEPT ![i][p].pc = label]

\* The call is over: forget it and go on at label.
Finish(i, p, label) ==
    proc' = [proc EXCEPT ![i][p] = [@ EXCEPT !.pc = label, !.call = "none",
                 !.ans = "none", !.wid = -1, !.tok = NoToken]]

Calling(q, call, wid, tok) ==
    [q EXCEPT !.pc = "sent", !.call = call, !.ans = "none", !.wid = wid,
              !.tok = tok, !.clk = 0]

Answered(i, p, call) ==
    mgr[i].alive /\ proc[i][p].pc = "replied" /\ proc[i][p].call = call

\* generateInstanceID: a token nobody remembers.
InUse(i) == {key[w].owner : w \in WorkerIDs} \union {mgr[i].instanceID}
              \union {proc[i][p].tok : p \in Procs}
HasFreshToken(i) == \E k \in 1 .. MaxTokens : <<i, k>> \notin InUse(i)
FreshToken(i) ==
    <<i, CHOOSE k \in 1 .. MaxTokens :
           /\ <<i, k>> \notin InUse(i)
           /\ \A m \in 1 .. k - 1 : <<i, m>> \in InUse(i)>>

\* Mutant: a heartbeat script that does not compare the instance_id.
OwnedByAnybody(q) == key[q.wid].owner # NoToken

Owned(q) == key[q.wid].owner = q.tok

Free(q)  == key[q.wid].owner = NoToken

\* What Redis answers: LuaScriptHeartbeat, SetNX, Get and Del.
Reply(q) ==
    CASE q.call \in {"reg", "spec"} -> IF Free(q) THEN "ok" ELSE "taken"
      [] q.call = "del"             -> "ok"
      [] OTHER -> IF Owned(q) THEN "ok" ELSE IF Free(q) THEN "gone" ELSE "taken"

\* Mutant: a heartbeat that rewrites the value and forgets EXPIRE.
EffectKeepsTTL(q) ==
    LET mine == [owner |-> q.tok, ttl |-> TTL] IN
    CASE q.call \in {"reg", "spec"} /\ Free(q) -> [key EXCEPT ![q.wid] = mine]
      [] q.call = "del" -> [key EXCEPT ![q.wid] = [owner |-> NoToken, ttl |-> 0]]
      [] OTHER          -> key

\* What it does to the key.
Effect(q) ==
    LET mine == [owner |-> q.tok, ttl |-> TTL] IN
    CASE q.call \in {"reg", "spec"} /\ Free(q) -> [key EXCEPT ![q.wid] = mine]
      [] q.call \in {"hb", "rr"} /\ Owned(q)   -> [key EXCEPT ![q.wid] = mine]
      [] q.call = "del" -> [key EXCEPT ![q.wid] = [owner |-> NoToken, ttl |-> 0]]
      [] OTHER          -> key

Answer(i, p, a) ==
    proc' = [proc EXCEPT ![i][p] = [@ EXCEPT !.pc = "replied", !.ans = a]]

Execute(i, p) ==
    /\ At(i, p, "sent")
    /\ key' = Effect(proc[i][p])
    /\ Answer(i, p, Reply(proc[i][p]))
    /\ UNCHANGED <<counter, registry, mgr, lister, stable>>

\* The request or the answer is lost.  A beat of a loop whose context has been
\* cancelled may fail in a stable Redis too.
CallFails(i, p) ==
    /\ At(i, p, "sent")
    /\ ~stable \/ (proc[i][p].call \in {"hb", "rr"} /\ mgr[i].loop # p)
    /\ key' \in {key, Effect(proc[i][p])}
    /\ Answer(i, p, "bad")
    /\ UNCHANGED <<counter, registry, mgr, lister, stable>>

-----------------------------------------------------------------------------
(* heartbeatLoop and sendHeartbeat.                                         *)

\* A beat is due.  It fails at once when no worker ID is registered.
NextFails(q) == IF q.fails < MaxConsecutiveFailures THEN q.fails + 1 ELSE q.fails

BeatFailed(i, p, clk) ==
    LET f == NextFails(proc[i][p]) IN
    /\ mgr' = [mgr EXCEPT ![i].healthy = FALSE]
    /\ proc' = [proc EXCEPT ![i][p] = [@ EXCEPT
                    !.pc = IF f = MaxConsecutiveFailures THEN "rereg" ELSE "idle",
                    !.fails = f, !.clk = clk, !.call = "none", !.ans = "none",
                    !.wid = -1, !.tok = NoToken]]

BeatDue(i, p) ==
    /\ p \in Loops
    /\ At(i, p, "idle")
    /\ proc[i][p].clk >= HeartbeatInterval
    /\ MuFree(i)

SendHeartbeat(i, p) ==
    /\ BeatDue(i, p)
    /\ mgr[i].workerID # -1
    /\ proc' = [proc EXCEPT ![i][p] =
                    Calling(@, "hb", mgr[i].workerID, mgr[i].instanceID)]
    /\ UNCHANGED <<redis, mgr, lister, stable>>

HeartbeatUnregistered(i, p) ==
    /\ BeatDue(i, p)
    /\ mgr[i].workerID = -1
    /\ BeatFailed(i, p, 0)
    /\ UNCHANGED <<redis, lister, stable>>

\* setLeaseDeadline(time.Now()): the lease starts when the answer is handled.
RenewedLease == TTL

HeartbeatReply(i, p) ==
    /\ Answered(i, p, "hb")
    /\ \/ /\ proc[i][p].ans = "ok"
          /\ mgr' = [mgr EXCEPT ![i].lease = RenewedLease]
          /\ Finish(i, p, "up")
       \/ /\ proc[i][p].ans # "ok"
          /\ BeatFailed(i, p, proc[i][p].clk)
    /\ UNCHANGED <<redis, lister, stable>>

\* The loop's last act after a beat or a re-registration that succeeded.
StoreHealthy(i, p) ==
    /\ At(i, p, "up")
    /\ mgr' = [mgr EXCEPT ![i].healthy = TRUE]
    /\ proc' = [proc EXCEPT ![i][p] = [@ EXCEPT !.pc = "idle", !.fails = 0]]
    /\ UNCHANGED <<redis, lister, stable>>

\* ctx.Done(): the loop's context was cancelled when it lost heartbeatCtx.
LoopEnds(i, p) ==
    /\ p \in Loops
    /\ At(i, p, "idle")
    /\ mgr[i].loop # p
    /\ proc' = [proc EXCEPT ![i][p] = Resting]
    /\ UNCHANGED <<redis, mgr, lister, stable>>

-----------------------------------------------------------------------------
(* tryReRegister, reacquireFreshWorkerID, attemptRegisterFresh.             *)

TryReRegister(i, p) ==
    /\ At(i, p, "rereg")
    /\ MuFree(i)
    /\ IF mgr[i].registered /\ mgr[i].workerID >= 0 /\ mgr[i].loop = p
       THEN proc' = [proc EXCEPT ![i][p] =
                        Calling(@, "rr", mgr[i].workerID, mgr[i].instanceID)]
       ELSE GoTo(i, p, "idle")
    /\ UNCHANGED <<redis, mgr, lister, stable>>

ReRegisterReply(i, p) ==
    /\ Answered(i, p, "rr")
    /\ mgr' = IF proc[i][p].ans = "ok"
              THEN [mgr EXCEPT ![i].lease = RenewedLease] ELSE mgr
    /\ Finish(i, p, CASE proc[i][p].ans = "ok"  -> "up"
                      [] proc[i][p].ans = "bad" -> "idle"
                      [] OTHER                  -> "reacquire")
    /\ UNCHANGED <<redis, lister, stable>>

\* Drop the registration and cancel the current loop, which is this one.
Reacquire(i, p) ==
    /\ At(i, p, "reacquire")
    /\ MuFree(i)
    /\ mgr' = [mgr EXCEPT ![i] = [@ EXCEPT !.healthy = FALSE, !.lease = NoLease,
                   !.workerID = -1, !.registered = FALSE, !.instanceID = NoToken,
                   !.loop = NoLoop]]
    /\ proc' = [proc EXCEPT ![i][p] = [@ EXCEPT !.pc = "try",
                                                !.left = SyncAttempts]]
    /\ UNCHANGED <<redis, lister, stable>>

\* All attempts failed: start the background recovery unless one is running.
SpawnRecovery(i, p) ==
    /\ At(i, p, "spawn")
    /\ mgr' = [mgr EXCEPT ![i].recovering = TRUE]
    /\ LET ended == [proc[i] EXCEPT ![p].pc = "idle"] IN
       proc' = [proc EXCEPT ![i] = IF mgr[i].recovering THEN ended
                                   ELSE [ended EXCEPT !["bg"].pc = "check"]]
    /\ UNCHANGED <<redis, lister, stable>>

\* attemptRegisterFresh and backgroundRecover look at shuttingDown first.
StopTrying(i, p) ==
    /\ mgr[i].shuttingDown
    /\ \/ At(i, p, "try") /\ GoTo(i, p, "spawn")
       \/ At(i, p, "check") /\ GoTo(i, p, "exit")
    /\ UNCHANGED <<redis, mgr, lister, stable>>

\* backgroundRecover: somebody else has registered, wake from a backoff, and
\* the deferred reset of recovering.
RecoveryNotNeeded(i, p) ==
    /\ At(i, p, "check")
    /\ MuFree(i)
    /\ mgr[i].registered
    /\ GoTo(i, p, "exit")
    /\ UNCHANGED <<redis, mgr, lister, stable>>

RecoveryWakes(i, p) ==
    /\ At(i, p, "sleep")
    /\ GoTo(i, p, "check")
    /\ UNCHANGED <<redis, mgr, lister, stable>>

\* Mutant: the recovery ends without resetting recovering.
RecoveryStaysRecovering(i, p) ==
    /\ At(i, p, "exit")
    /\ proc' = [proc EXCEPT ![i][p] = Resting]
    /\ UNCHANGED <<redis, mgr, lister, stable>>

RecoveryEnds(i, p) ==
    /\ At(i, p, "exit")
    /\ mgr' = [mgr EXCEPT ![i].recovering = FALSE]
    /\ proc' = [proc EXCEPT ![i][p] = Resting]
    /\ UNCHANGED <<redis, lister, stable>>

-----------------------------------------------------------------------------
(* RegisterWorkerID, called by a loop, by the recovery or by Start.         *)

Registering(i, p) == \E l \in {"try", "check", "auto"} : At(i, p, l) /\ MuFree(i)

\* Mutant: a background recovery that gives up after one attempt.
AfterFailureGivesUp(p, q) ==
    CASE p = "bg"   -> [Resting EXCEPT !.pc = "exit"]
      [] p = "main" -> [Resting EXCEPT !.pc = "failed"]
      [] OTHER      -> [Resting EXCEPT !.fails = q.fails, !.left = q.left - 1,
                            !.pc = IF q.left = 1 THEN "spawn" ELSE "try"]

\* How a caller goes on after RegisterWorkerID returned an error.
AfterFailure(p, q) ==
    CASE p = "bg"   -> [Resting EXCEPT !.pc = "sleep"]
      [] p = "main" -> [Resting EXCEPT !.pc = "failed"]
      [] OTHER      -> [Resting EXCEPT !.fails = q.fails, !.left = q.left - 1,
                            !.pc = IF q.left = 1 THEN "spawn" ELSE "try"]

RegisterFailed(i, p) ==
    proc' = [proc EXCEPT ![i][p] = AfterFailure(p, @)]

AfterSuccess(p, q) ==
    CASE p = "bg"   -> [Resting EXCEPT !.pc = "exit"]
      [] p = "main" -> [Resting EXCEPT !.pc = "startset", !.wid = q.wid]
      [] OTHER      -> [Resting EXCEPT !.pc = "up", !.fails = q.fails]

RegisterRefused(i, p) ==
    /\ Registering(i, p)
    /\ mgr[i].shuttingDown
    /\ mgr' = [mgr EXCEPT ![i].healthy = FALSE]
    /\ RegisterFailed(i, p)
    /\ UNCHANGED <<redis, lister, stable>>

AlreadyRegistered(i, p) ==
    /\ Registering(i, p)
    /\ ~mgr[i].shuttingDown
    /\ mgr[i].registered
    /\ proc' = [proc EXCEPT ![i][p] =
                    AfterSuccess(p, [@ EXCEPT !.wid = mgr[i].workerID])]
    /\ UNCHANGED <<redis, mgr, lister, stable>>

\* Mutant: RegisterWorkerID does not look at shuttingDown.
DrawingAfterShutdown(i, p) ==
    \/ Registering(i, p) /\ ~mgr[i].registered
    \/ At(i, p, "retry")

\* One more round of the loop in RegisterWorkerID.
Drawing(i, p) ==
    \/ Registering(i, p) /\ ~mgr[i].shuttingDown /\ ~mgr[i].registered
    \/ At(i, p, "retry")

\* Mutant: INCR without the reset.
NextCounterUnbounded == counter + 1

\* LuaScriptIncrWithReset.
NextCounter == IF counter + 1 > Total THEN (counter % Total) + 1 ELSE counter + 1

\* INCR, then SetNX is sent under a new instance ID; clk measures from the
\* local now that the lease will be counted from.  The manager's instanceID is
\* kept only while registered, for nobody reads it at other times.
DrawWorkerID(i, p) ==
    /\ Drawing(i, p)
    /\ HasFreshToken(i)
    /\ counter' = NextCounter
    /\ LET q == proc[i][p]
           w == NextCounter - 1
       IN  proc' = [proc EXCEPT ![i][p] = [Calling(q, "reg", w, FreshToken(i))
                                             EXCEPT !.draws = q.draws + 1]]
    /\ UNCHANGED <<key, registry, mgr, lister, stable>>

\* INCR fails, or the registration's context is done.
DrawFails(i, p) ==
    /\ Drawing(i, p)
    /\ ~stable
    /\ counter' \in {counter, NextCounter}
    /\ RegisterFailed(i, p)
    /\ UNCHANGED <<key, registry, mgr, lister, stable>>

\* Mutant: setLeaseDeadline is given the time of the answer.
RegisteredLeaseFromAnswer(q) == RenewedLease

\* The lease of a registration counts from before SetNX was sent.
RegisteredLease(q) == TTL - q.clk

\* startHeartbeatLocked, unless heartbeatRunning.
IdleLoop(i) == CHOOSE l \in Loops : proc[i][l].pc = "off"
LoopAvailable(i) ==
    mgr[i].loop # NoLoop \/ \E l \in Loops : proc[i][l].pc = "off"
LoopAfterStart(i) == IF mgr[i].loop = NoLoop THEN IdleLoop(i) ELSE mgr[i].loop

\* SAdd and SRem may fail.  The set is only followed when somebody lists it.
Additions(w) == IF ~MayList THEN {registry} ELSE
                {registry \union {w}} \union (IF stable THEN {} ELSE {registry})
Removals(w)  == {registry \ {w}} \union (IF stable THEN {} ELSE {registry})

\* The part of a registration after SetNX succeeded.
Commit(i, p, generatorID, next) ==
    LET q     == proc[i][p]
        l     == LoopAfterStart(i)
        ended == [proc[i] EXCEPT ![p] = next]
    IN
    /\ LoopAvailable(i)
    /\ registry' \in Additions(q.wid)
    /\ mgr' = [mgr EXCEPT ![i] = [@ EXCEPT !.workerID = q.wid, !.registered = TRUE,
                   !.instanceID = q.tok, !.lease = RegisteredLease(q), !.generatorID = generatorID,
                   !.loop = l, !.healthy = TRUE]]
    /\ proc' = [proc EXCEPT ![i] =
                   IF mgr[i].loop # NoLoop THEN ended
                   ELSE [ended EXCEPT ![l] = [Resting EXCEPT !.pc = "idle"]]]
    /\ UNCHANGED <<key, counter, lister, stable>>

\* onWorkerIDChange runs before healthy is set.
RegisterSucceeds(i, p) ==
    /\ Answered(i, p, "reg")
    /\ proc[i][p].ans = "ok"
    /\ Commit(i, p, proc[i][p].wid, AfterSuccess(p, proc[i][p]))

WorkerIDTaken(i, p) ==
    /\ Answered(i, p, "reg")
    /\ proc[i][p].ans = "taken"
    /\ proc[i][p].draws < Total
    /\ Finish(i, p, "retry")
    /\ UNCHANGED <<redis, mgr, lister, stable>>

AllOccupied(i, p) ==
    /\ Answered(i, p, "reg")
    /\ proc[i][p].ans = "taken"
    /\ proc[i][p].draws = Total
    /\ mgr' = [mgr EXCEPT ![i].healthy = FALSE]
    /\ RegisterFailed(i, p)
    /\ UNCHANGED <<redis, lister, stable>>

RegisterErrs(i, p) ==
    /\ Answered(i, p, "reg")
    /\ proc[i][p].ans = "bad"
    /\ RegisterFailed(i, p)
    /\ UNCHANGED <<redis, mgr, lister, stable>>

-----------------------------------------------------------------------------
(* Start and Stop: startupTasksContext, RegisterSpecificWorkerID,           *)
(* UnregisterWorkerID, doStopCleanupContext.                                *)

\* The worker ID of the configuration first, any other when that fails.
Start(i, p) ==
    /\ At(i, p, "start")
    /\ MuFree(i)
    /\ \/ /\ mgr[i].want > 0 /\ ~mgr[i].registered
          /\ HasFreshToken(i)
          /\ proc' = [proc EXCEPT ![i][p] =
                          Calling(@, "spec", mgr[i].want, FreshToken(i))]
       \/ /\ mgr[i].want > 0 /\ mgr[i].registered
          /\ GoTo(i, p, IF mgr[i].workerID = mgr[i].want THEN "running" ELSE "auto")
       \/ /\ mgr[i].want = 0
          /\ GoTo(i, p, "auto")
    /\ UNCHANGED <<redis, mgr, lister, stable>>

\* A failed Start is tried again, or a second StartContext passed the check of
\* the status before the first one had made it active.
StartAgain(i, p) ==
    /\ \E label \in StartAgainFrom : At(i, p, label)
    /\ GoTo(i, p, "start")
    /\ UNCHANGED <<redis, mgr, lister, stable>>

\* The generator was built with conf.WorkerId and is not told again.
SpecificSucceeds(i, p) ==
    /\ Answered(i, p, "spec")
    /\ proc[i][p].ans = "ok"
    /\ Commit(i, p, mgr[i].generatorID, [Resting EXCEPT !.pc = "running"])

SpecificFails(i, p) ==
    /\ Answered(i, p, "spec")
    /\ proc[i][p].ans # "ok"
    /\ mgr' = IF proc[i][p].ans = "taken"
              THEN [mgr EXCEPT ![i].healthy = FALSE] ELSE mgr
    /\ Finish(i, p, "auto")
    /\ UNCHANGED <<redis, lister, stable>>

\* Start writes the worker ID it got into the generator once more.
StartSetsGenerator(i, p) ==
    /\ At(i, p, "startset")
    /\ mgr' = [mgr EXCEPT ![i].generatorID = proc[i][p].wid]
    /\ Finish(i, p, "running")
    /\ UNCHANGED <<redis, lister, stable>>

Stop(i, p) ==
    /\ MayStop
    /\ At(i, p, "running")
    /\ mgr' = [mgr EXCEPT ![i].shuttingDown = TRUE]
    /\ GoTo(i, p, "unreg")
    /\ UNCHANGED <<redis, lister, stable>>

\* Mutant: UnregisterWorkerID leaves the heartbeat and its worker ID alone.
UnregisterKeepsBeating(i, p) ==
    /\ At(i, p, "unreg")
    /\ MuFree(i)
    /\ IF mgr[i].registered
       THEN /\ mgr' = [mgr EXCEPT ![i].healthy = FALSE, ![i].registered = FALSE]
            /\ proc' = [proc EXCEPT ![i][p] =
                           Calling(@, "get", mgr[i].workerID, mgr[i].instanceID)]
       ELSE GoTo(i, p, "shutdown") /\ UNCHANGED mgr
    /\ UNCHANGED <<redis, lister, stable>>

\* UnregisterWorkerID under w.mu; the GET that follows is sent without it.  GET
\* and DEL share one context, so clk runs on from one to the other.
Unregister(i, p) ==
    /\ At(i, p, "unreg")
    /\ MuFree(i)
    /\ IF mgr[i].registered
       THEN /\ mgr' = [mgr EXCEPT ![i] = [@ EXCEPT !.healthy = FALSE,
                          !.workerID = -1, !.registered = FALSE,
                          !.instanceID = NoToken, !.loop = NoLoop]]
            /\ proc' = [proc EXCEPT ![i][p] =
                           Calling(@, "get", mgr[i].workerID, mgr[i].instanceID)]
       ELSE GoTo(i, p, "shutdown") /\ UNCHANGED mgr
    /\ UNCHANGED <<redis, lister, stable>>

UnregisterGetReply(i, p) ==
    /\ Answered(i, p, "get")
    /\ LET q == proc[i][p] IN
       \/ /\ q.ans = "ok"
          /\ proc' = [proc EXCEPT ![i][p] = [Calling(@, "del", q.wid, q.tok) EXCEPT !.clk = q.clk]]
          /\ UNCHANGED registry
       \/ /\ q.ans = "gone"
          /\ registry' \in Removals(q.wid)
          /\ Finish(i, p, "shutdown")
       \/ /\ q.ans \in {"taken", "bad"}
          /\ Finish(i, p, "shutdown")
          /\ UNCHANGED registry
    /\ UNCHANGED <<key, counter, mgr, lister, stable>>

UnregisterDelReply(i, p) ==
    /\ Answered(i, p, "del")
    /\ registry' \in Removals(proc[i][p].wid)
    /\ Finish(i, p, "shutdown")
    /\ UNCHANGED <<key, counter, mgr, lister, stable>>

\* generator.Shutdown, the last part of the cleanup.
GeneratorShutdown(i, p) ==
    /\ At(i, p, "shutdown")
    /\ GoTo(i, p, "stopped")
    /\ UNCHANGED <<redis, mgr, lister, stable>>

-----------------------------------------------------------------------------
(* The rest: IsHealthy, GetRegisteredWorkers, crashes and time.             *)

\* IsHealthy reads an expired deadline and then clears healthy: two steps.
SeeExpired(i) ==
    /\ mgr[i].alive /\ mgr[i].healthy /\ mgr[i].lease = 0
    /\ ~mgr[i].expiredSeen
    /\ mgr' = [mgr EXCEPT ![i].expiredSeen = TRUE]
    /\ UNCHANGED <<redis, proc, lister, stable>>

ClearHealthy(i) ==
    /\ mgr[i].alive /\ mgr[i].expiredSeen
    /\ mgr' = [mgr EXCEPT ![i].expiredSeen = FALSE, ![i].healthy = FALSE]
    /\ UNCHANGED <<redis, proc, lister, stable>>

\* GetRegisteredWorkers finds a member without a key and later removes it.
ListMissing ==
    /\ MayList
    /\ \E w \in registry \ lister :
           key[w].owner = NoToken /\ lister' = lister \union {w}
    /\ UNCHANGED <<redis, mgr, proc, stable>>

RemoveMissing ==
    /\ \E w \in lister :
           registry' = registry \ {w} /\ lister' = lister \ {w}
    /\ UNCHANGED <<key, counter, mgr, proc, stable>>

Crash(i) ==
    /\ MayCrash
    /\ mgr[i].alive
    /\ mgr' = [mgr EXCEPT ![i] = [@ EXCEPT !.alive = FALSE, !.lease = NoLease,
                   !.healthy = FALSE, !.loop = NoLoop, !.expiredSeen = FALSE,
                   !.registered = FALSE, !.instanceID = NoToken]]
    /\ proc' = [proc EXCEPT ![i] = [p \in Procs |-> Resting]]
    /\ UNCHANGED <<redis, lister, stable>>

Stabilize == ~stable /\ stable' = TRUE /\ UNCHANGED <<redis, mgr, proc, lister>>

\* What the clock waits for when everybody keeps the deadlines.
Awaited(i, p) ==
    LET q == proc[i][p] IN
    \/ q.pc \in {"sent", "replied"} /\ q.clk >= CallTimeout
    \/ q.pc \in {"up", "try", "spawn", "exit", "retry",
                 "startset", "shutdown"}
    \/ q.pc \in {"rereg", "reacquire", "check", "auto", "unreg"} /\ MuFree(i)
    \/ q.pc = "idle" /\ mgr[i].loop # p
    \/ q.pc = "idle" /\ q.clk >= HeartbeatInterval /\ MuFree(i)

InTime == \A i \in Instances : mgr[i].alive =>
              ~mgr[i].expiredSeen /\ \A p \in Procs : ~Awaited(i, p)

Later(q) == IF q.pc \in {"idle", "sent", "replied"} /\ q.clk < TTL
            THEN [q EXCEPT !.clk = @ + 1] ELSE q

Tick ==
    /\ Timely => InTime
    /\ key' = [w \in WorkerIDs |->
                  IF key[w].ttl > 1 THEN [key[w] EXCEPT !.ttl = @ - 1]
                  ELSE [owner |-> NoToken, ttl |-> 0]]
    /\ mgr' = [i \in Instances |-> [mgr[i] EXCEPT
                  !.lease = IF @ > 0 THEN @ - 1 ELSE @]]
    /\ proc' = [i \in Instances |-> [p \in Procs |-> Later(proc[i][p])]]
    /\ UNCHANGED <<counter, registry, lister, stable>>

HeartbeatStep(i, p) ==
    \/ SendHeartbeat(i, p)     \/ HeartbeatUnregistered(i, p)
    \/ HeartbeatReply(i, p)    \/ StoreHealthy(i, p)
    \/ LoopEnds(i, p)          \/ TryReRegister(i, p)
    \/ ReRegisterReply(i, p)   \/ Reacquire(i, p)
    \/ SpawnRecovery(i, p)

RecoveryStep(i, p) ==
    \/ StopTrying(i, p)        \/ RecoveryNotNeeded(i, p)
    \/ RecoveryWakes(i, p)     \/ RecoveryEnds(i, p)

RegisterStep(i, p) ==
    \/ RegisterRefused(i, p)   \/ AlreadyRegistered(i, p)
    \/ DrawWorkerID(i, p)      \/ DrawFails(i, p)
    \/ RegisterSucceeds(i, p)  \/ WorkerIDTaken(i, p)
    \/ AllOccupied(i, p)       \/ RegisterErrs(i, p)

LifecycleStep(i, p) ==
    \/ Start(i, p)             \/ SpecificSucceeds(i, p)
    \/ SpecificFails(i, p)     \/ StartSetsGenerator(i, p)
    \/ Unregister(i, p)        \/ UnregisterGetReply(i, p)
    \/ UnregisterDelReply(i, p) \/ GeneratorShutdown(i, p)

ProcStep(i, p) ==
    \/ Execute(i, p)
    \/ CallFails(i, p)
    \/ HeartbeatStep(i, p)
    \/ RecoveryStep(i, p)
    \/ RegisterStep(i, p)
    \/ LifecycleStep(i, p)

Next ==
    \/ \E i \in Instances :
           \/ \E p \in Procs : ProcStep(i, p) \/ Stop(i, p) \/ StartAgain(i, p)
           \/ SeeExpired(i)
           \/ ClearHealthy(i)
           \/ Crash(i)
    \/ ListMissing
    \/ RemoveMissing
    \/ Tick

Spec == Init /\ [][Next]_vars

\* Goroutines are scheduled and the Redis trouble ends.  Time passes however
\* often some goroutine is busy: infinitely many steps take infinitely long.
\* Nobody has to stop an instance or to look at its health, but who looks
\* finishes.
FairSpec ==
    /\ Init /\ [][Next \/ Stabilize]_vars
    /\ \A i \in Instances, p \in Procs : WF_vars(ProcStep(i, p))
    /\ \A i \in Instances : WF_vars(ClearHealthy(i))
    /\ SF_vars(Tick)
    /\ WF_vars(Stabilize)

-----------------------------------------------------------------------------
(* Properties.                                                              *)

\* The manager, its goroutines and Redis keep their types.
TypeOK ==
    /\ key \in [WorkerIDs -> [owner : Tokens \union {NoToken}, ttl : 0 .. TTL]]
    /\ counter \in 0 .. Total
    /\ registry \subseteq WorkerIDs
    /\ mgr \in [Instances -> Manager]
    /\ proc \in [Instances -> [Procs -> Proc]]
    /\ lister \subseteq WorkerIDs
    /\ stable \in BOOLEAN

\* PlugSnowflake.GenerateID gets through: p.mu is not held by Start or Stop and
\* IsHealthy returns TRUE.
MayGenerate(i) ==
    /\ mgr[i].alive
    /\ proc[i]["main"].pc \in {"running", "failed"}
    /\ mgr[i].healthy
    /\ mgr[i].lease # 0

\* "To avoid cross-instance duplicate IDs": whoever may generate stamps a worker
\* ID whose key in Redis is its own.
GeneratesWithOwnID ==
    \A i \in Instances : MayGenerate(i) =>
        key[mgr[i].generatorID].owner = mgr[i].instanceID

\* The instance whose manager or goroutines know the owner of a worker key.
Leaseholder(w) ==
    LET knows(i) == key[w].owner \in {mgr[i].instanceID} \union {proc[i][p].tok : p \in Procs}
    IN  IF key[w].owner = NoToken THEN "nobody"
        ELSE IF \E i \in Instances : knows(i) THEN CHOOSE i \in Instances : knows(i)
        ELSE "ghost"

\* The holders of the worker keys, and the worker ID each instance may stamp.
Holders == [w \in WorkerIDs |-> Leaseholder(w)]
Lent    == [i \in Instances |-> IF MayGenerate(i) THEN mgr[i].generatorID ELSE -1]

\* The managers and Redis together lend worker IDs: each to one instance, the one
\* that owns its key, and a second one only after the first was withdrawn.
Leases == INSTANCE LeaseService WITH
    Nobody <- "nobody", Ghost <- "ghost", NoID <- -1, key <- Holders, lent <- Lent

\* Registration, heartbeats, recovery, expiry and crashes implement that service.
ImplementsLeaseService == Leases!Spec

\* setLeaseDeadline is meant to stop generation "before the worker key TTL
\* expires".  A heartbeat counts the lease from its answer but the key lives from
\* the script's run, so the lease outlives the key, by no more than an answer
\* takes to arrive.
LeaseBoundedByKey ==
    \A i \in Instances :
        mgr[i].registered /\ key[mgr[i].workerID].owner = mgr[i].instanceID =>
            mgr[i].lease <= key[mgr[i].workerID].ttl + CallTimeout

\* A loop, a recovery or a late answer never registers an instance again once
\* UnregisterWorkerID is past its critical section.
StoppedStaysUnregistered ==
    \A i \in Instances :
        \/ proc[i]["main"].pc \in {"shutdown", "stopped"}
        \/ proc[i]["main"].call \in {"get", "del"}
        => ~mgr[i].registered /\ mgr[i].loop = NoLoop

\* An instance that has lost its worker ID gets another once Redis behaves.
Recovers ==
    \A i \in Instances :
        stable /\ proc[i]["main"].pc = "running"
            ~> proc[i]["main"].pc # "running" \/ MayGenerate(i)

\* Nobody keeps the worker ID of an instance that has been stopped or has died.
FreesWorkerID ==
    \A i \in Instances :
        ~mgr[i].alive \/ proc[i]["main"].pc = "stopped"
            ~> \A w \in WorkerIDs : key[w].owner \notin {i} \X (1 .. MaxTokens)

\* "so generation is never permanently bricked": while a running instance has no
\* worker ID, a loop or the background recovery is after one.
NeverBricked ==
    \A i \in Instances :
        proc[i]["main"].pc = "running" /\ ~mgr[i].registered =>
            \E p \in Procs \ {"main"} : proc[i][p].pc \notin {"off", "idle", "exit"}

\* What UnregisterWorkerID's comment says: its DEL hits only a key whose
\* instance_id is this instance's.
DeletesOnlyOwnKey ==
    [][\A i \in Instances :
        Execute(i, "main") /\ proc[i]["main"].call = "del" =>
            key[proc[i]["main"].wid].owner \in {proc[i]["main"].tok, NoToken}]_vars
=============================================================================
