-------------------------- MODULE WorkerInvariants --------------------------
(***************************************************************************)
(* The inductive invariants behind the safety properties of                 *)
(* WorkerManager.tla.                                                       *)
(***************************************************************************)
EXTENDS WorkerManager

(* What a goroutine remembers at each of its labels, and a manager while    *)
(* it is registered.  This holds however long anything takes.               *)

LoopLabels == {"off", "idle", "sent", "replied", "up", "rereg", "reacquire",
               "try", "retry", "spawn"}
BgLabels   == {"off", "check", "sent", "replied", "retry", "sleep", "exit"}
MainLabels == {"off", "start", "sent", "replied", "retry", "auto", "startset",
               "running", "failed", "unreg", "shutdown", "stopped"}

TokensOf(i) == {i} \X (1 .. MaxTokens)

ManagerOK(i, m) ==
    /\ m \in Manager
    /\ m.instanceID \in TokensOf(i) \union {NoToken}
    /\ m.registered <=> m.loop # NoLoop
    /\ m.registered => /\ m.alive
                       /\ m.workerID \in WorkerIDs
                       /\ m.instanceID # NoToken

GoroutineOK(i, p, q) ==
    /\ q \in Proc
    /\ p \in Loops => q.pc \in LoopLabels
    /\ p = "bg" => q.pc \in BgLabels
    /\ p = "main" => q.pc \in MainLabels
    /\ q.pc \in {"sent", "replied"} <=> q.call # "none"
    /\ q.call \in {"hb", "rr"} => p \in Loops
    /\ q.call \in {"spec", "get", "del"} => p = "main"
    /\ q.call # "none" \/ q.pc = "startset" => q.wid \in WorkerIDs
    /\ q.call = "none" => q.tok = NoToken
    /\ q.call \in {"reg", "spec"} => q.tok # NoToken
    /\ q.tok \in TokensOf(i) \union {NoToken}
    /\ q.pc = "retry" => q.draws < Total
    /\ q.pc # "retry" /\ q.call # "reg" => q.draws = 0
    /\ p \in Loops /\ (q.pc \in {"try", "retry"} \/ q.call = "reg") => q.left >= 1

RedisOK ==
    /\ key \in [WorkerIDs -> [owner : Tokens \union {NoToken}, ttl : 0 .. TTL]]
    /\ counter \in 0 .. Total
    /\ registry \subseteq WorkerIDs
    /\ lister \subseteq WorkerIDs
    /\ stable \in BOOLEAN
ManagersOK ==
    /\ mgr \in [Instances -> Manager]
    /\ \A i \in Instances : ManagerOK(i, mgr[i])
GoroutinesOK ==
    /\ proc \in [Instances -> [Procs -> Proc]]
    /\ \A i \in Instances, p \in Procs : GoroutineOK(i, p, proc[i][p])
\* recovering is the recovery's lock: nobody starts a second one over a first.
RecoveryOK ==
    \A i \in Instances : proc[i]["bg"].pc # "off" => mgr[i].recovering

TypeInv == RedisOK /\ ManagersOK /\ GoroutinesOK /\ RecoveryOK

(* UnregisterWorkerID is final: past its critical section the mutex is free *)
(* and, shuttingDown being set, no registration begins any more.            *)

Past(i) ==
    \/ proc[i]["main"].pc \in {"shutdown", "stopped"}
    \/ proc[i]["main"].call \in {"get", "del"}

StopInv ==
    \A i \in Instances :
        /\ Past(i) => ~mgr[i].registered /\ MuFree(i)
        /\ Past(i) \/ proc[i]["main"].pc = "unreg" => mgr[i].shuttingDown

-----------------------------------------------------------------------------
(* With deadlines kept, an instance that is up is in one of three modes.    *)

\* Start is under way or has failed: nothing is registered, nothing else runs.
Starting(i) ==
    /\ proc[i]["main"].pc \in {"start", "sent", "replied", "retry", "auto", "failed"}
    /\ proc[i]["main"].call = "spec" => proc[i]["main"].wid = mgr[i].want
    /\ ~mgr[i].registered /\ ~mgr[i].healthy /\ ~mgr[i].recovering
    /\ mgr[i].instanceID = NoToken
    /\ mgr[i].generatorID = mgr[i].want
    /\ \A p \in Procs \ {"main"} : proc[i][p].pc = "off"

\* A loop that has just been started, or is about to see its context cancelled.
Lingers(q) == q.pc = "idle" /\ q.clk = 0

\* A loop that has registered the worker ID and found another loop running.
Ends(q) == q.pc \in {"up", "idle"} /\ q.clk = 0

\* A worker ID is registered and its loop beats.  Whoever registered it may still
\* be ending, but only before the first beat.
Holding(i) ==
    LET h == mgr[i].loop
        q == proc[i][h] IN
    /\ mgr[i].registered /\ h \in Loops
    /\ mgr[i].generatorID = mgr[i].workerID
    /\ proc[i]["main"].pc \in {"startset", "running"}
    /\ proc[i]["main"].pc = "startset" => proc[i]["main"].wid = mgr[i].workerID
    /\ q.pc \in {"idle", "sent", "replied", "up", "rereg", "reacquire"}
    /\ q.call # "none" => /\ q.call \in {"hb", "rr"}
                          /\ q.wid = mgr[i].workerID
                          /\ q.tok = mgr[i].instanceID
    /\ proc[i]["bg"].pc \in {"exit", "off"}
    /\ mgr[i].recovering <=> proc[i]["bg"].pc = "exit"
    /\ \A p \in Loops \ {h} : proc[i][p].pc = "off" \/ Ends(proc[i][p])
    /\ Lingers(q) \/ ( /\ proc[i]["main"].pc = "running"
                       /\ \A p \in Procs \ {"main", h} : proc[i][p].pc = "off" )

\* What a loop does from the loss of its worker ID to the background recovery.
Retries(q) ==
    q.pc \in {"try", "retry"} \/ q.call = "reg" \/ (q.pc = "spawn" /\ q.clk = 0)

\* The worker ID was lost: one goroutine, a loop or the recovery, is after another.
Searching(i) ==
    /\ proc[i]["main"].pc = "running"
    /\ ~mgr[i].registered /\ ~mgr[i].healthy
    /\ mgr[i].instanceID = NoToken
    /\ \/ /\ mgr[i].recovering
          /\ proc[i]["bg"].pc \in {"check", "sent", "replied", "retry", "sleep"}
          /\ \A p \in Loops : proc[i][p].pc = "off" \/ Lingers(proc[i][p])
       \/ /\ ~mgr[i].recovering
          /\ proc[i]["bg"].pc = "off"
          /\ \E p \in Loops : /\ Retries(proc[i][p])
                              /\ \A r \in Loops \ {p} : proc[i][r].pc = "off"

Up(i) == mgr[i].alive /\ ~mgr[i].shuttingDown

Structure ==
    \A i \in Instances :
        /\ Up(i) => Starting(i) \/ Holding(i) \/ Searching(i)
        /\ mgr[i].alive /\ mgr[i].shuttingDown => Past(i) \/ proc[i]["main"].pc = "unreg"
        /\ ~mgr[i].alive => \A p \in Procs : proc[i][p].pc = "off"

-----------------------------------------------------------------------------
(* With deadlines kept and no DEL in flight, leases follow the keys.        *)

\* The longest a loop's clock gets: until a beat is due, or an answer too late.
Pause == IF HeartbeatInterval > CallTimeout THEN HeartbeatInterval ELSE CallTimeout

KeysLive == \A w \in WorkerIDs : key[w].owner # NoToken => key[w].ttl >= 1

ClockOK(q) ==
    /\ q.pc \in {"sent", "replied", "up", "rereg"} => q.clk <= CallTimeout
    /\ q.pc = "idle" => q.clk <= Pause

\* k is the key of a call q that is answered: q found or made it its own, and it
\* still is.
AnswerFresh(q, k) ==
    q.pc = "replied" /\ q.ans = "ok" /\ q.call \in {"hb", "rr", "reg", "spec"} =>
        q.tok # NoToken /\ k.owner = q.tok /\ k.ttl + q.clk >= TTL

\* For a registered manager m, its loop q and the key k of its worker ID: between
\* two beats the lease may outlive the key only as long as the key outlives the
\* next beat and its answer.
HolderOK(m, q, k) ==
    /\ m.lease # NoLease
    /\ q.pc = "up" => k.owner = m.instanceID /\ k.ttl + q.clk >= TTL
    /\ k.owner = m.instanceID => m.lease <= k.ttl + CallTimeout
    /\ m.healthy => q.call # "rr" /\ q.pc \notin {"rereg", "reacquire"}
    /\ m.healthy /\ m.lease # 0 =>
         /\ k.owner = m.instanceID
         /\ m.lease <= k.ttl \/ k.ttl + q.clk + (IF q.call = "hb" THEN Pause ELSE 0) >= TTL

\* A loop that has just registered m and is about to store healthy.
EndingOK(m, q, k) == q.pc = "up" => k.owner = m.instanceID /\ m.lease <= k.ttl

LeaseInTime(i) ==
    LET m == mgr[i] IN
    m.registered =>
        /\ HolderOK(m, proc[i][m.loop], key[m.workerID])
        /\ \A p \in Loops \ {m.loop} : EndingOK(m, proc[i][p], key[m.workerID])

Timing ==
    /\ KeysLive
    /\ \A i \in Instances :
        /\ ~mgr[i].shuttingDown
        /\ \A p \in Procs : /\ ClockOK(proc[i][p])
                            /\ AnswerFresh(proc[i][p], key[proc[i][p].wid])
        /\ LeaseInTime(i)

\* Under what this holds: a key outlives a beat and its answer, and two answers.
Prompt ==
    /\ Timely /\ ~MayStop /\ "running" \notin StartAgainFrom
    /\ HeartbeatInterval + CallTimeout < TTL
    /\ 2 * CallTimeout < TTL

\* What an instance that keeps its deadlines relies on, step by step: one goroutine at
\* a time has its registration in hand, no answer is older than its timeout, and a
\* lease outlives its key by less than what is left until the next answer.
PromptInv == TypeInv /\ StopInv /\ Structure /\ Timing
=============================================================================
