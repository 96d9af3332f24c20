------------------------ MODULE WorkerTimelyProofs -------------------------
(***************************************************************************)
(* What holds of the worker ID manager when goroutines and Redis keep their *)
(* deadlines, for any instances, worker IDs and limits.                     *)
(***************************************************************************)
EXTENDS WorkerManagerProofs

-----------------------------------------------------------------------------
(* What each action does to the goroutine that takes it.                    *)

\* A step touches its own instance and, of its goroutines, only one.
OthersKept(i) == \A j \in Instances \ {i} : mgr'[j] = mgr[j] /\ proc'[j] = proc[j]
RestKept(i, p) == \A r \in Procs \ {p} : proc'[i][r] = proc[i][r]

LEMMA StepFrame ==
    ASSUME TypeInv, NEW i \in Instances, NEW p \in Procs,
           ProcStep(i, p) \/ Stop(i, p) \/ StartAgain(i, p)
    PROVE  /\ mgr[i].alive /\ proc[i][p].pc # "off"
           /\ OthersKept(i)
           /\ \/ RestKept(i, p)
              \/ SpawnRecovery(i, p)
              \/ RegisterSucceeds(i, p)
              \/ SpecificSucceeds(i, p)
<1>1. /\ mgr \in [Instances -> Manager] /\ proc \in [Instances -> [Procs -> Proc]]
  BY DEF TypeInv, ManagersOK, GoroutinesOK
<1>2. \A j \in Instances \ {i} : mgr'[j] = mgr[j]
  BY <1>1, StepIsLocal DEF OnlyManager
<1>3. ASSUME NEW f, proc' = [proc EXCEPT ![i] = f]
      PROVE  \A j \in Instances \ {i} : proc'[j] = proc[j]
  BY <1>1, <1>3
<1>4. CASE OnlyGoroutine(i, p)
  <2>1. RestKept(i, p)
    BY <1>1, <1>4 DEF OnlyGoroutine, RestKept
  <2> QED BY <1>2, <1>3, <1>4, <2>1, StepIsLocal DEF OnlyGoroutine, OthersKept
<1>5. CASE SpawnRecovery(i, p)
  BY <1>2, <1>3, <1>5, StepIsLocal DEF SpawnRecovery, OthersKept
<1>6. CASE RegisterSucceeds(i, p) \/ SpecificSucceeds(i, p)
  <2>1. PICK g, n : Commit(i, p, g, n)
    BY <1>6 DEF RegisterSucceeds, SpecificSucceeds
  <2>2. \A j \in Instances \ {i} : proc'[j] = proc[j]
    BY <1>3, <2>1 DEF Commit
  <2> QED BY <1>2, <1>6, <2>2, StepIsLocal DEF OthersKept
<1> QED BY <1>4, <1>5, <1>6, StepIsLocal

LEMMA GoToDoes ==
    ASSUME GoroutinesOK, NEW i \in Instances, NEW p \in Procs, NEW label,
           GoTo(i, p, label)
    PROVE  proc'[i][p].pc = label /\ proc'[i][p].clk = proc[i][p].clk
BY DEF GoTo, GoroutinesOK, Proc

LEMMA FinishDoes ==
    ASSUME GoroutinesOK, NEW i \in Instances, NEW p \in Procs, NEW label,
           Finish(i, p, label)
    PROVE  proc'[i][p].pc = label /\ proc'[i][p].clk = proc[i][p].clk
BY DEF Finish, GoroutinesOK, Proc

LEMMA CallingDoes ==
    ASSUME NEW q \in Proc, NEW call, NEW wid, NEW tok
    PROVE  LET n == Calling(q, call, wid, tok) IN
           n.pc = "sent" /\ n.call = call /\ n.wid = wid /\ n.tok = tok /\ n.clk = 0
BY DEF Calling, Proc

LEMMA AnswerDoes ==
    ASSUME GoroutinesOK, NEW i \in Instances, NEW p \in Procs, NEW a, Answer(i, p, a)
    PROVE  /\ proc'[i][p].pc = "replied" /\ proc'[i][p].ans = a
           /\ proc'[i][p].call = proc[i][p].call
           /\ proc'[i][p].wid = proc[i][p].wid
           /\ proc'[i][p].tok = proc[i][p].tok
           /\ proc'[i][p].clk = proc[i][p].clk
BY DEF Answer, GoroutinesOK, Proc

\* The managers' fields a call's outcome leaves alone.
SameID(m, n) ==
    /\ n.alive = m.alive           /\ n.shuttingDown = m.shuttingDown
    /\ n.registered = m.registered /\ n.workerID = m.workerID
    /\ n.instanceID = m.instanceID /\ n.generatorID = m.generatorID
    /\ n.loop = m.loop             /\ n.want = m.want

LEMMA BeatFailedDoes ==
    ASSUME TypeInv, NEW i \in Instances, NEW p \in Procs, NEW c, BeatFailed(i, p, c)
    PROVE  /\ proc'[i][p].pc \in {"rereg", "idle"} /\ proc'[i][p].clk = c
           /\ SameID(mgr[i], mgr'[i]) /\ ~mgr'[i].healthy
           /\ mgr'[i].lease = mgr[i].lease /\ mgr'[i].recovering = mgr[i].recovering
<1>1. /\ mgr \in [Instances -> Manager] /\ proc \in [Instances -> [Procs -> Proc]]
  BY DEF TypeInv, ManagersOK, GoroutinesOK
<1>2. mgr' = [mgr EXCEPT ![i].healthy = FALSE]
  BY DEF BeatFailed
<1>3. mgr[i] \in Manager
  BY <1>1
<1>4. /\ SameID(mgr[i], mgr'[i]) /\ ~mgr'[i].healthy
      /\ mgr'[i].lease = mgr[i].lease /\ mgr'[i].recovering = mgr[i].recovering
  BY <1>1, <1>2, <1>3 DEF SameID, Manager
<1>5. proc'[i][p].pc \in {"rereg", "idle"} /\ proc'[i][p].clk = c
  BY <1>1 DEF BeatFailed, Proc
<1> QED BY <1>4, <1>5

LEMMA StoreHealthyDoes ==
    ASSUME TypeInv, NEW i \in Instances, NEW p \in Procs, StoreHealthy(i, p)
    PROVE  /\ proc[i][p].pc = "up"
           /\ proc'[i][p].pc = "idle" /\ proc'[i][p].clk = proc[i][p].clk
           /\ SameID(mgr[i], mgr'[i]) /\ mgr'[i].healthy
           /\ mgr'[i].lease = mgr[i].lease /\ mgr'[i].recovering = mgr[i].recovering
           /\ key' = key
<1>1. /\ mgr \in [Instances -> Manager] /\ proc \in [Instances -> [Procs -> Proc]]
      /\ mgr[i] \in Manager /\ proc[i][p] \in Proc
  BY DEF TypeInv, ManagersOK, GoroutinesOK
<1>2. mgr' = [mgr EXCEPT ![i].healthy = TRUE] /\ key' = key /\ proc[i][p].pc = "up"
  BY DEF StoreHealthy, redis, At
<1>3. /\ SameID(mgr[i], mgr'[i]) /\ mgr'[i].healthy
      /\ mgr'[i].lease = mgr[i].lease /\ mgr'[i].recovering = mgr[i].recovering
  BY <1>1, <1>2 DEF SameID, Manager
<1>4. proc'[i][p] = [proc[i][p] EXCEPT !.pc = "idle", !.fails = 0]
  BY <1>1 DEF StoreHealthy
<1>5. proc'[i][p].pc = "idle" /\ proc'[i][p].clk = proc[i][p].clk
  BY <1>1, <1>4 DEF Proc
<1> QED BY <1>2, <1>3, <1>5

\* The lease is renewed, and nothing else of the manager changes.
LEMMA RenewalDoes ==
    ASSUME TypeInv, NEW i \in Instances, mgr' = [mgr EXCEPT ![i].lease = RenewedLease]
    PROVE  /\ SameID(mgr[i], mgr'[i]) /\ mgr'[i].healthy = mgr[i].healthy
           /\ mgr'[i].recovering = mgr[i].recovering /\ mgr'[i].lease = TTL
<1>1. /\ mgr \in [Instances -> Manager] /\ mgr[i] \in Manager
  BY DEF TypeInv, ManagersOK
<1> QED BY <1>1 DEF SameID, Manager, RenewedLease

LEMMA HeartbeatReplyDoes ==
    ASSUME TypeInv, NEW i \in Instances, NEW p \in Procs, HeartbeatReply(i, p)
    PROVE  /\ proc[i][p].pc = "replied" /\ proc[i][p].call = "hb" /\ key' = key
           /\ SameID(mgr[i], mgr'[i]) /\ mgr'[i].recovering = mgr[i].recovering
           /\ proc'[i][p].clk = proc[i][p].clk
           /\ \/ /\ proc[i][p].ans = "ok" /\ proc'[i][p].pc = "up"
                 /\ mgr'[i].healthy = mgr[i].healthy /\ mgr'[i].lease = TTL
              \/ /\ proc'[i][p].pc \in {"rereg", "idle"}
                 /\ ~mgr'[i].healthy /\ mgr'[i].lease = mgr[i].lease
<1>1. GoroutinesOK /\ proc[i][p].pc = "replied" /\ proc[i][p].call = "hb" /\ key' = key
  BY DEF TypeInv, HeartbeatReply, Answered, redis
<1>2. CASE /\ proc[i][p].ans = "ok" /\ Finish(i, p, "up")
           /\ mgr' = [mgr EXCEPT ![i].lease = RenewedLease]
  BY <1>1, <1>2, FinishDoes, RenewalDoes
<1>3. CASE BeatFailed(i, p, proc[i][p].clk)
  BY <1>1, <1>3, BeatFailedDoes
<1> QED BY <1>2, <1>3 DEF HeartbeatReply

LEMMA ReRegisterReplyDoes ==
    ASSUME TypeInv, NEW i \in Instances, NEW p \in Procs, ReRegisterReply(i, p)
    PROVE  /\ proc[i][p].pc = "replied" /\ proc[i][p].call = "rr" /\ key' = key
           /\ SameID(mgr[i], mgr'[i]) /\ mgr'[i].recovering = mgr[i].recovering
           /\ mgr'[i].healthy = mgr[i].healthy
           /\ proc'[i][p].clk = proc[i][p].clk
           /\ \/ /\ proc[i][p].ans = "ok" /\ proc'[i][p].pc = "up" /\ mgr'[i].lease = TTL
              \/ /\ proc'[i][p].pc \in {"idle", "reacquire"}
                 /\ mgr'[i].lease = mgr[i].lease
<1>1. GoroutinesOK /\ proc[i][p].pc = "replied" /\ proc[i][p].call = "rr" /\ key' = key
  BY DEF TypeInv, ReRegisterReply, Answered, redis
<1>2. CASE proc[i][p].ans = "ok"
  <2>1. Finish(i, p, "up") /\ mgr' = [mgr EXCEPT ![i].lease = RenewedLease]
    BY <1>2 DEF ReRegisterReply
  <2> QED BY <1>1, <1>2, <2>1, FinishDoes, RenewalDoes
<1>3. CASE proc[i][p].ans # "ok"
  <2>1. (Finish(i, p, "idle") \/ Finish(i, p, "reacquire")) /\ mgr' = mgr
    BY <1>3 DEF ReRegisterReply
  <2> QED BY <1>1, <2>1, FinishDoes DEF SameID
<1> QED BY <1>2, <1>3

\* A goroutine that asks for the key of the registration.
LEMMA SendHeartbeatDoes ==
    ASSUME TypeInv, NEW i \in Instances, NEW p \in Procs, SendHeartbeat(i, p)
    PROVE  /\ mgr' = mgr /\ key' = key /\ p \in Loops /\ proc[i][p].pc = "idle"
           /\ proc[i][p].clk >= HeartbeatInterval
           /\ proc'[i][p].pc = "sent" /\ proc'[i][p].call = "hb"
           /\ proc'[i][p].wid = mgr[i].workerID /\ proc'[i][p].tok = mgr[i].instanceID
           /\ proc'[i][p].clk = 0
<1>1. proc \in [Instances -> [Procs -> Proc]] /\ proc[i][p] \in Proc
  BY DEF TypeInv, GoroutinesOK
<1>2. proc'[i][p] = Calling(proc[i][p], "hb", mgr[i].workerID, mgr[i].instanceID)
  BY <1>1 DEF SendHeartbeat
<1> QED BY <1>1, <1>2, CallingDoes DEF SendHeartbeat, BeatDue, At, redis

LEMMA TryReRegisterDoes ==
    ASSUME TypeInv, NEW i \in Instances, NEW p \in Procs, TryReRegister(i, p)
    PROVE  /\ mgr' = mgr /\ key' = key /\ proc[i][p].pc = "rereg"
           /\ \/ /\ proc'[i][p].pc = "sent" /\ proc'[i][p].call = "rr"
                 /\ proc'[i][p].wid = mgr[i].workerID
                 /\ proc'[i][p].tok = mgr[i].instanceID /\ proc'[i][p].clk = 0
              \/ proc'[i][p].pc = "idle" /\ proc'[i][p].clk = proc[i][p].clk
<1>1. GoroutinesOK /\ proc \in [Instances -> [Procs -> Proc]] /\ proc[i][p] \in Proc
  BY DEF TypeInv, GoroutinesOK
<1>2. mgr' = mgr /\ key' = key /\ proc[i][p].pc = "rereg"
  BY DEF TryReRegister, At, redis
<1>3. CASE proc' = [proc EXCEPT ![i][p] =
                        Calling(@, "rr", mgr[i].workerID, mgr[i].instanceID)]
  <2>1. proc'[i][p] = Calling(proc[i][p], "rr", mgr[i].workerID, mgr[i].instanceID)
    BY <1>1, <1>3
  <2> QED BY <1>1, <1>2, <2>1, CallingDoes
<1>4. CASE GoTo(i, p, "idle")
  BY <1>1, <1>2, <1>4, GoToDoes
<1> QED BY <1>3, <1>4 DEF TryReRegister

LEMMA ReacquireDoes ==
    ASSUME TypeInv, NEW i \in Instances, NEW p \in Procs, Reacquire(i, p)
    PROVE  /\ key' = key /\ proc[i][p].pc = "reacquire" /\ proc'[i][p].pc = "try"
           /\ ~mgr'[i].registered /\ ~mgr'[i].healthy /\ mgr'[i].instanceID = NoToken
           /\ mgr'[i].alive = mgr[i].alive
           /\ mgr'[i].shuttingDown = mgr[i].shuttingDown
           /\ mgr'[i].recovering = mgr[i].recovering
<1>1. /\ mgr \in [Instances -> Manager] /\ proc \in [Instances -> [Procs -> Proc]]
      /\ mgr[i] \in Manager /\ proc[i][p] \in Proc
  BY DEF TypeInv, ManagersOK, GoroutinesOK
<1> DEFINE m == [mgr[i] EXCEPT !.healthy = FALSE, !.lease = NoLease,
                    !.workerID = -1, !.registered = FALSE,
                    !.instanceID = NoToken, !.loop = NoLoop]
<1>2. mgr'[i] = m
  BY <1>1 DEF Reacquire
<1>3. /\ ~m.registered /\ ~m.healthy /\ m.instanceID = NoToken /\ m.alive = mgr[i].alive
      /\ m.shuttingDown = mgr[i].shuttingDown /\ m.recovering = mgr[i].recovering
  BY <1>1 DEF Manager
<1> HIDE DEF m
<1>4. proc'[i][p] = [proc[i][p] EXCEPT !.pc = "try", !.left = SyncAttempts]
  BY <1>1 DEF Reacquire
<1>5. proc'[i][p].pc = "try"
  BY <1>1, <1>4 DEF Proc
<1> QED BY <1>2, <1>3, <1>5 DEF Reacquire, At, redis

LEMMA RecoveryEndsDoes ==
    ASSUME TypeInv, NEW i \in Instances, NEW p \in Procs, RecoveryEnds(i, p)
    PROVE  /\ key' = key /\ proc[i][p].pc = "exit" /\ proc'[i][p].pc = "off"
           /\ SameID(mgr[i], mgr'[i]) /\ mgr'[i].healthy = mgr[i].healthy
           /\ mgr'[i].lease = mgr[i].lease /\ ~mgr'[i].recovering
<1>1. /\ mgr \in [Instances -> Manager] /\ proc \in [Instances -> [Procs -> Proc]]
      /\ mgr[i] \in Manager
  BY DEF TypeInv, ManagersOK, GoroutinesOK
<1>2. mgr' = [mgr EXCEPT ![i].recovering = FALSE] /\ proc'[i][p] = Resting
  BY <1>1 DEF RecoveryEnds
<1>3. /\ SameID(mgr[i], mgr'[i]) /\ mgr'[i].healthy = mgr[i].healthy
      /\ mgr'[i].lease = mgr[i].lease /\ ~mgr'[i].recovering
  BY <1>1, <1>2 DEF SameID, Manager
<1> QED BY <1>2, <1>3 DEF RecoveryEnds, At, redis, Resting

LEMMA StartSetsGeneratorDoes ==
    ASSUME TypeInv, NEW i \in Instances, NEW p \in Procs, StartSetsGenerator(i, p)
    PROVE  /\ key' = key /\ proc[i][p].pc = "startset" /\ proc'[i][p].pc = "running"
           /\ mgr'[i].generatorID = proc[i][p].wid
           /\ proc[i][p].wid = mgr[i].generatorID => SameID(mgr[i], mgr'[i])
           /\ mgr'[i].healthy = mgr[i].healthy /\ mgr'[i].lease = mgr[i].lease
           /\ mgr'[i].recovering = mgr[i].recovering
<1>1. /\ mgr \in [Instances -> Manager] /\ mgr[i] \in Manager /\ GoroutinesOK
  BY DEF TypeInv, ManagersOK
<1>2. /\ mgr' = [mgr EXCEPT ![i].generatorID = proc[i][p].wid]
      /\ Finish(i, p, "running")
  BY DEF StartSetsGenerator
<1>3. /\ mgr'[i].generatorID = proc[i][p].wid
      /\ proc[i][p].wid = mgr[i].generatorID => SameID(mgr[i], mgr'[i])
      /\ mgr'[i].healthy = mgr[i].healthy /\ mgr'[i].lease = mgr[i].lease
      /\ mgr'[i].recovering = mgr[i].recovering
  BY <1>1, <1>2 DEF SameID, Manager
<1> QED BY <1>1, <1>2, <1>3, FinishDoes DEF StartSetsGenerator, At, redis

LEMMA SpawnRecoveryDoes ==
    ASSUME TypeInv, NEW i \in Instances, NEW p \in Procs \ {"bg"}, SpawnRecovery(i, p)
    PROVE  /\ key' = key /\ proc[i][p].pc = "spawn"
           /\ SameID(mgr[i], mgr'[i]) /\ mgr'[i].healthy = mgr[i].healthy
           /\ mgr'[i].lease = mgr[i].lease /\ mgr'[i].recovering
           /\ proc'[i][p].pc = "idle" /\ proc'[i][p].clk = proc[i][p].clk
           /\ ~mgr[i].recovering => proc'[i]["bg"].pc = "check"
           /\ \A r \in Procs \ {p} : \/ proc'[i][r] = proc[i][r]
                                     \/ r = "bg" /\ ~mgr[i].recovering
<1>1. /\ mgr \in [Instances -> Manager] /\ proc \in [Instances -> [Procs -> Proc]]
      /\ mgr[i] \in Manager /\ proc[i] \in [Procs -> Proc] /\ "bg" \in Procs
  BY DEF TypeInv, ManagersOK, GoroutinesOK, Procs
<1>2. mgr' = [mgr EXCEPT ![i].recovering = TRUE]
  BY <1>1 DEF SpawnRecovery
<1>3. /\ SameID(mgr[i], mgr'[i]) /\ mgr'[i].healthy = mgr[i].healthy
      /\ mgr'[i].lease = mgr[i].lease /\ mgr'[i].recovering
  BY <1>1, <1>2 DEF SameID, Manager
<1> DEFINE e == [proc[i] EXCEPT ![p].pc = "idle"]
           f == [e EXCEPT !["bg"].pc = "check"]
<1>4. /\ e[p].pc = "idle" /\ e[p].clk = proc[i][p].clk
      /\ \A r \in Procs \ {p} : e[r] = proc[i][r]
      /\ f[p] = e[p] /\ f["bg"].pc = "check"
      /\ \A r \in Procs \ {"bg"} : f[r] = e[r]
  BY <1>1 DEF Proc
<1>5. proc'[i] = IF mgr[i].recovering THEN e ELSE f
  BY <1>1 DEF SpawnRecovery
<1>6. key' = key /\ proc[i][p].pc = "spawn"
  BY DEF SpawnRecovery, At, redis
<1> HIDE DEF e, f
<1>7. CASE mgr[i].recovering
  <2>1. proc'[i] = e
    BY <1>5, <1>7
  <2> QED BY <1>3, <1>4, <1>6, <1>7, <2>1
<1>8. CASE ~mgr[i].recovering
  <2>1. proc'[i] = f
    BY <1>5, <1>8
  <2> QED BY <1>3, <1>4, <1>6, <1>8, <2>1
<1> QED BY <1>7, <1>8

\* While no loop runs, a registration starts a new one, which is another goroutine.
LEMMA CommitDoes ==
    ASSUME TypeInv, NEW i \in Instances, NEW p \in Procs, NEW g, NEW n,
           Commit(i, p, g, n), mgr[i].loop = NoLoop, proc[i][p].pc # "off"
    PROVE  LET l == mgr'[i].loop IN
           /\ key' = key
           /\ l \in Loops /\ l # p /\ proc[i][l].pc = "off"
           /\ proc'[i][l].pc = "idle" /\ proc'[i][l].clk = 0
           /\ proc'[i][l].call = "none" /\ proc'[i][l].tok = NoToken
           /\ proc'[i][p] = n
           /\ \A r \in Procs \ {p, l} : proc'[i][r] = proc[i][r]
           /\ mgr'[i].workerID = proc[i][p].wid /\ mgr'[i].registered
           /\ mgr'[i].instanceID = proc[i][p].tok /\ mgr'[i].healthy
           /\ mgr'[i].lease = TTL - proc[i][p].clk
           /\ mgr'[i].generatorID = g
           /\ mgr'[i].alive = mgr[i].alive
           /\ mgr'[i].shuttingDown = mgr[i].shuttingDown
           /\ mgr'[i].recovering = mgr[i].recovering
<1>1. /\ mgr \in [Instances -> Manager] /\ proc \in [Instances -> [Procs -> Proc]]
      /\ mgr[i] \in Manager /\ proc[i] \in [Procs -> Proc]
  BY DEF TypeInv, ManagersOK, GoroutinesOK
<1> DEFINE q == proc[i][p]
           l == LoopAfterStart(i)
           m == [mgr[i] EXCEPT !.workerID = q.wid, !.registered = TRUE,
                   !.instanceID = q.tok, !.lease = RegisteredLease(q),
                   !.generatorID = g, !.loop = l, !.healthy = TRUE]
           e == [proc[i] EXCEPT ![p] = n]
           fresh == [Resting EXCEPT !.pc = "idle"]
           f == [e EXCEPT ![l] = fresh]
<1>2. mgr'[i] = m
  BY <1>1 DEF Commit
<1>3. proc'[i] = f
  BY <1>1 DEF Commit
<1>4. l \in Loops /\ proc[i][l].pc = "off" /\ l \in Procs
  <2>1. \E k \in Loops : proc[i][k].pc = "off"
    BY DEF Commit, LoopAvailable
  <2> QED BY <2>1 DEF LoopAfterStart, IdleLoop, Procs
<1>5. /\ m.workerID = q.wid /\ m.registered /\ m.instanceID = q.tok /\ m.healthy
      /\ m.lease = TTL - q.clk /\ m.generatorID = g /\ m.loop = l
      /\ m.alive = mgr[i].alive /\ m.shuttingDown = mgr[i].shuttingDown
      /\ m.recovering = mgr[i].recovering
  BY <1>1 DEF Manager, RegisteredLease
<1>6. fresh.pc = "idle" /\ fresh.clk = 0 /\ fresh.call = "none" /\ fresh.tok = NoToken
  BY DEF Resting
<1> HIDE DEF m, fresh, l
<1>7. /\ l # p
      /\ f[l] = fresh /\ f[p] = n /\ \A r \in Procs \ {p, l} : f[r] = proc[i][r]
  BY <1>1, <1>4
<1> HIDE DEF f
<1> QED BY <1>2, <1>3, <1>4, <1>5, <1>6, <1>7 DEF Commit

\* A registration sends a SetNX with an instance ID that nobody knows.
LEMMA DrawWorkerIDDoes ==
    ASSUME TypeInv, NEW i \in Instances, NEW p \in Procs, DrawWorkerID(i, p)
    PROVE  /\ mgr' = mgr /\ key' = key
           /\ proc[i][p].pc \in {"try", "check", "auto", "retry"}
           /\ proc'[i][p].pc = "sent" /\ proc'[i][p].call = "reg"
           /\ proc'[i][p].clk = 0
           /\ proc'[i][p].tok \in TokensOf(i) /\ proc'[i][p].tok \notin InUse(i)
<1>1. proc \in [Instances -> [Procs -> Proc]] /\ proc[i][p] \in Proc
  BY DEF TypeInv, GoroutinesOK
<1> DEFINE w == NextCounter - 1
           c == Calling(proc[i][p], "reg", w, FreshToken(i))
           d == proc[i][p].draws + 1
           n == [c EXCEPT !.draws = d]
<1>2. proc'[i][p] = n
  BY <1>1 DEF DrawWorkerID
<1> HIDE DEF w, d
<1>3. n.pc = "sent" /\ n.call = "reg" /\ n.clk = 0 /\ n.tok = FreshToken(i)
  BY <1>1 DEF Calling, Proc
<1> HIDE DEF n
<1>4. FreshToken(i) \in TokensOf(i) /\ FreshToken(i) \notin InUse(i)
  BY FreshTokenIsFresh DEF DrawWorkerID
<1>5. proc[i][p].pc \in {"try", "check", "auto", "retry"}
  BY DEF DrawWorkerID, Drawing, Registering, At
<1> QED BY <1>2, <1>3, <1>4, <1>5 DEF DrawWorkerID

\* A registration that neither draws nor succeeds goes on or gives up.
LEMMA RegisterStepDoes ==
    ASSUME TypeInv, NEW i \in Instances, NEW p \in Procs, RegisterStep(i, p),
           ~mgr[i].shuttingDown, ~mgr[i].registered
    PROVE  /\ \/ proc[i][p].pc \in {"try", "check", "auto", "retry"}
              \/ proc[i][p].pc = "replied" /\ proc[i][p].call = "reg"
           /\ \/ DrawWorkerID(i, p)
              \/ RegisterSucceeds(i, p)
              \/ /\ key' = key /\ SameID(mgr[i], mgr'[i])
                 /\ mgr[i].healthy \/ ~mgr'[i].healthy
                 /\ mgr'[i].lease = mgr[i].lease
                 /\ mgr'[i].recovering = mgr[i].recovering
                 /\ \/ proc'[i][p].pc = "retry" /\ proc[i][p].call = "reg"
                    \/ proc'[i][p] = AfterFailure(p, proc[i][p])
<1>1. /\ mgr \in [Instances -> Manager] /\ mgr[i] \in Manager /\ GoroutinesOK
      /\ proc \in [Instances -> [Procs -> Proc]]
  BY DEF TypeInv, ManagersOK, GoroutinesOK
<1>2. \/ proc[i][p].pc \in {"try", "check", "auto", "retry"}
      \/ proc[i][p].pc = "replied" /\ proc[i][p].call = "reg"
  BY DEF RegisterStep, RegisterRefused, AlreadyRegistered, DrawWorkerID, DrawFails,
     RegisterSucceeds, WorkerIDTaken, AllOccupied, RegisterErrs, Drawing, Registering,
     At, Answered
<1> DEFINE Same == /\ SameID(mgr[i], mgr'[i]) /\ (mgr[i].healthy \/ ~mgr'[i].healthy)
                   /\ mgr'[i].lease = mgr[i].lease
                   /\ mgr'[i].recovering = mgr[i].recovering
<1>3. ASSUME mgr' = mgr PROVE Same
  BY <1>3 DEF SameID
<1>4. ASSUME mgr' = [mgr EXCEPT ![i].healthy = FALSE] PROVE Same
  BY <1>1, <1>4 DEF SameID, Manager
<1>5. RegisterFailed(i, p) => proc'[i][p] = AfterFailure(p, proc[i][p])
  BY <1>1 DEF RegisterFailed
<1>6. CASE WorkerIDTaken(i, p)
  <2>1. Same
    BY <1>3, <1>6 DEF WorkerIDTaken
  <2>2. proc'[i][p].pc = "retry" /\ proc[i][p].call = "reg" /\ key' = key
    BY <1>1, <1>6, FinishDoes DEF WorkerIDTaken, Answered, redis
  <2> QED BY <1>2, <2>1, <2>2
<1>7. CASE DrawFails(i, p) \/ AllOccupied(i, p) \/ RegisterErrs(i, p)
  <2>1. RegisterFailed(i, p) /\ key' = key
    BY <1>7 DEF DrawFails, AllOccupied, RegisterErrs, redis
  <2>2. mgr' = mgr \/ mgr' = [mgr EXCEPT ![i].healthy = FALSE]
    BY <1>7 DEF DrawFails, AllOccupied, RegisterErrs
  <2>3. Same
    BY <1>3, <1>4, <2>2
  <2> QED BY <1>2, <1>5, <2>1, <2>3
<1>8. ~RegisterRefused(i, p) /\ ~AlreadyRegistered(i, p)
  BY DEF RegisterRefused, AlreadyRegistered
<1> QED BY <1>2, <1>6, <1>7, <1>8 DEF RegisterStep

LEMMA AfterFailureDoes ==
    ASSUME NEW p \in Procs, NEW q
    PROVE  /\ AfterFailure(p, q).clk = 0
           /\ p = "bg" => AfterFailure(p, q).pc = "sleep"
           /\ p = "main" => AfterFailure(p, q).pc = "failed"
           /\ p \in Loops => AfterFailure(p, q).pc \in {"spawn", "try"}
BY NamesAssumption DEF AfterFailure, Resting

\* Start sends SetNX for the configured worker ID, or leaves Redis alone.
LEMMA StartDoes ==
    ASSUME TypeInv, NEW i \in Instances, NEW p \in Procs, Start(i, p), ~mgr[i].registered
    PROVE  /\ mgr' = mgr /\ key' = key /\ proc[i][p].pc = "start"
           /\ \/ proc'[i][p].pc = "auto"
              \/ /\ proc'[i][p].pc = "sent" /\ proc'[i][p].call = "spec"
                 /\ proc'[i][p].wid = mgr[i].want /\ proc'[i][p].clk = 0
                 /\ proc'[i][p].tok \in TokensOf(i) /\ proc'[i][p].tok \notin InUse(i)
<1>1. GoroutinesOK /\ proc \in [Instances -> [Procs -> Proc]] /\ proc[i][p] \in Proc
  BY DEF TypeInv, GoroutinesOK
<1>2. mgr' = mgr /\ key' = key /\ proc[i][p].pc = "start"
  BY DEF Start, At, redis
<1>3. CASE /\ HasFreshToken(i)
           /\ proc' = [proc EXCEPT ![i][p] = Calling(@, "spec", mgr[i].want, FreshToken(i))]
  <2>1. proc'[i][p] = Calling(proc[i][p], "spec", mgr[i].want, FreshToken(i))
    BY <1>1, <1>3
  <2>2. FreshToken(i) \in TokensOf(i) /\ FreshToken(i) \notin InUse(i)
    BY <1>3, FreshTokenIsFresh
  <2> QED BY <1>1, <1>2, <2>1, <2>2, CallingDoes
<1>4. CASE GoTo(i, p, "auto")
  BY <1>1, <1>2, <1>4, GoToDoes
<1> QED BY <1>3, <1>4 DEF Start

LEMMA SpecificFailsDoes ==
    ASSUME TypeInv, NEW i \in Instances, NEW p \in Procs, SpecificFails(i, p)
    PROVE  /\ key' = key /\ SameID(mgr[i], mgr'[i])
           /\ mgr[i].healthy \/ ~mgr'[i].healthy
           /\ mgr'[i].lease = mgr[i].lease
           /\ mgr'[i].recovering = mgr[i].recovering
           /\ proc'[i][p].pc = "auto"
<1>1. /\ mgr \in [Instances -> Manager] /\ mgr[i] \in Manager /\ GoroutinesOK
  BY DEF TypeInv, ManagersOK
<1>2. Finish(i, p, "auto") /\ key' = key
  BY DEF SpecificFails, redis
<1>3. mgr' = mgr \/ mgr' = [mgr EXCEPT ![i].healthy = FALSE]
  BY DEF SpecificFails
<1>4. CASE mgr' = mgr
  BY <1>1, <1>2, <1>4, FinishDoes DEF SameID
<1>5. CASE mgr' = [mgr EXCEPT ![i].healthy = FALSE]
  BY <1>1, <1>2, <1>5, FinishDoes DEF SameID, Manager
<1> QED BY <1>3, <1>4, <1>5

-----------------------------------------------------------------------------
(* What an instance can do in each mode.                                    *)

\* The manager stays what it was, except that it may become unhealthy.
KeepsManager(i) ==
    /\ SameID(mgr[i], mgr'[i])
    /\ mgr[i].healthy \/ ~mgr'[i].healthy
    /\ mgr'[i].recovering = mgr[i].recovering

LEMMA StartingSteps ==
    ASSUME TypeInv, StopInv, NEW i \in Instances, Up(i), Starting(i), NEW p \in Procs,
           ProcStep(i, p) \/ Stop(i, p) \/ StartAgain(i, p)
    PROVE  /\ p = "main"
           /\ \/ Execute(i, p) \/ CallFails(i, p)
              \/ DrawWorkerID(i, p)
              \/ RegisterSucceeds(i, p) \/ SpecificSucceeds(i, p)
              \/ Start(i, p)
              \/ /\ key' = key /\ KeepsManager(i)
                 /\ proc'[i][p].pc \in {"start", "retry", "auto", "failed"}
<1>1. p = "main" /\ p \notin Loops /\ p # "bg"
  BY StepFrame, NamesAssumption DEF Starting
<1>2. /\ GoroutinesOK /\ GoroutineOK(i, p, proc[i][p]) /\ ~mgr[i].registered
      /\ ~mgr[i].shuttingDown /\ ~Past(i)
      /\ proc[i][p].pc \in {"start", "sent", "replied", "retry", "auto", "failed"}
  BY <1>1 DEF TypeInv, GoroutinesOK, Up, Starting, StopInv
<1>3. ~HeartbeatStep(i, p)
  BY <1>1, <1>2 DEF GoroutineOK, HeartbeatStep, SendHeartbeat, HeartbeatUnregistered, BeatDue,
     HeartbeatReply, StoreHealthy, LoopEnds, TryReRegister, ReRegisterReply, Reacquire,
     SpawnRecovery, At, Answered
<1>4. ~RecoveryStep(i, p) /\ ~Stop(i, p)
  BY <1>1, <1>2 DEF RecoveryStep, StopTrying, RecoveryNotNeeded, RecoveryWakes, RecoveryEnds,
     Stop, At
<1>5. CASE RegisterStep(i, p)
  BY <1>1, <1>2, <1>5, RegisterStepDoes, AfterFailureDoes DEF KeepsManager
<1>6. CASE LifecycleStep(i, p)
  <2>1. ~StartSetsGenerator(i, p) /\ ~Unregister(i, p) /\ ~GeneratorShutdown(i, p)
    BY <1>2 DEF StartSetsGenerator, Unregister, GeneratorShutdown, At
  <2>2. ~UnregisterGetReply(i, p) /\ ~UnregisterDelReply(i, p)
    BY <1>1, <1>2 DEF UnregisterGetReply, UnregisterDelReply, Answered, Past
  <2> QED BY <1>1, <1>6, <2>1, <2>2, SpecificFailsDoes DEF LifecycleStep, KeepsManager
<1>7. CASE StartAgain(i, p)
  BY <1>1, <1>2, <1>7, GoToDoes DEF StartAgain, redis, KeepsManager, SameID
<1> QED BY <1>1, <1>3, <1>4, <1>5, <1>6, <1>7 DEF ProcStep

LEMMA HoldingSteps ==
    ASSUME TypeInv, StopInv, NEW i \in Instances, Up(i), Holding(i), NEW p \in Procs,
           "running" \notin StartAgainFrom,
           ProcStep(i, p) \/ Stop(i, p) \/ StartAgain(i, p)
    PROVE  \/ /\ p = mgr[i].loop
              /\ \/ Execute(i, p)        \/ CallFails(i, p)
                 \/ SendHeartbeat(i, p)  \/ HeartbeatReply(i, p) \/ StoreHealthy(i, p)
                 \/ TryReRegister(i, p)  \/ ReRegisterReply(i, p) \/ Reacquire(i, p)
           \/ p \in Loops \ {mgr[i].loop} /\ StoreHealthy(i, p)
           \/ /\ p \in Loops \ {mgr[i].loop} /\ Lingers(proc[i][p])
              /\ proc'[i][p].pc = "off" /\ mgr' = mgr /\ key' = key
           \/ p = "bg" /\ RecoveryEnds(i, p)
           \/ p = "main" /\ (StartSetsGenerator(i, p) \/ Stop(i, p))
<1> DEFINE h == mgr[i].loop
           q == proc[i][p]
<1>1. /\ GoroutinesOK /\ GoroutineOK(i, p, q) /\ ManagerOK(i, mgr[i])
      /\ mgr[i].registered /\ h \in Loops /\ ~mgr[i].shuttingDown
      /\ p \in Loops => p # "bg" /\ p # "main"
      /\ HeartbeatInterval \in Nat /\ HeartbeatInterval >= 1 /\ q.pc # "off"
  BY StepFrame, TimeAssumption, NamesAssumption
     DEF TypeInv, GoroutinesOK, ManagersOK, Up, Holding
<1>2. /\ p = h => /\ q.pc \in {"idle", "sent", "replied", "up", "rereg", "reacquire"}
                  /\ q.call \in {"none", "hb", "rr"}
      /\ p \in Loops \ {h} => q.pc = "up" \/ Lingers(q)
      /\ p = "bg" => q.pc = "exit"
      /\ p = "main" => q.pc \in {"startset", "running"}
  BY <1>1 DEF Holding, Ends, Lingers
<1>3. q.pc = "replied" => q.call \in {"hb", "rr"} /\ p = h
  BY <1>1, <1>2 DEF GoroutineOK, Procs, Lingers
<1>4. q.pc \notin {"start", "failed", "try", "check", "auto", "retry", "sleep", "spawn", "unreg", "shutdown"}
  BY <1>1, <1>2 DEF Procs, Lingers
<1>5. ~RegisterStep(i, p)
  BY <1>1, <1>3, <1>4 DEF RegisterStep, RegisterRefused, AlreadyRegistered, DrawWorkerID,
     DrawFails, RegisterSucceeds, WorkerIDTaken, AllOccupied, RegisterErrs, Drawing,
     Registering, At, Answered
<1>6. LifecycleStep(i, p) => p = "main" /\ StartSetsGenerator(i, p)
  BY <1>1, <1>2, <1>3, <1>4 DEF LifecycleStep, Start, SpecificSucceeds, SpecificFails,
     StartSetsGenerator, Unregister, UnregisterGetReply, UnregisterDelReply, GeneratorShutdown,
     At, Answered, Lingers, Procs
<1>7. RecoveryStep(i, p) => p = "bg" /\ RecoveryEnds(i, p)
  BY <1>1, <1>2, <1>4 DEF RecoveryStep, StopTrying, RecoveryNotNeeded, RecoveryWakes,
     RecoveryEnds, At, Lingers, Procs
<1>8. ~StartAgain(i, p) /\ (Stop(i, p) => p = "main")
  <2>1. StartAgainFrom \subseteq {"failed"}
    BY TimeAssumption
  <2> QED BY <1>1, <1>2, <1>4, <2>1 DEF StartAgain, Stop, At, Lingers, Procs
<1>9. CASE HeartbeatStep(i, p)
  <2>1. p \in Loops
    BY <1>2, <1>3, <1>1, <1>4, <1>9 DEF HeartbeatStep, SendHeartbeat, HeartbeatUnregistered, BeatDue,
     HeartbeatReply, StoreHealthy, LoopEnds, TryReRegister, ReRegisterReply, Reacquire,
     SpawnRecovery, At, Answered, Procs
  <2>2. CASE p = h
    <3>1. ~HeartbeatUnregistered(i, p) /\ ~LoopEnds(i, p) /\ ~SpawnRecovery(i, p)
      BY <1>1, <1>2, <2>2 DEF HeartbeatUnregistered, LoopEnds, SpawnRecovery, At, ManagerOK,
         WorkerIDs
    <3> QED BY <1>9, <2>2, <3>1 DEF HeartbeatStep
  <2>3. CASE p # h
    <3>1. ~SendHeartbeat(i, p) /\ ~HeartbeatUnregistered(i, p)
      BY <1>1, <1>2, <2>1, <2>3 DEF SendHeartbeat, HeartbeatUnregistered, BeatDue, At, Lingers
    <3>2. /\ ~HeartbeatReply(i, p) /\ ~TryReRegister(i, p) /\ ~ReRegisterReply(i, p)
          /\ ~Reacquire(i, p) /\ ~SpawnRecovery(i, p)
      BY <1>2, <2>1, <2>3 DEF HeartbeatReply, TryReRegister, ReRegisterReply, Reacquire,
         SpawnRecovery, At, Answered, Lingers
    <3>3. ASSUME LoopEnds(i, p)
          PROVE  Lingers(q) /\ proc'[i][p].pc = "off" /\ mgr' = mgr /\ key' = key
      <4>1. proc'[i][p] = Resting
        BY <1>1, <3>3 DEF LoopEnds, GoroutinesOK
      <4> QED BY <1>2, <2>1, <2>3, <3>3, <4>1 DEF LoopEnds, At, redis, Resting, Lingers
    <3> QED BY <1>9, <2>1, <2>3, <3>1, <3>2, <3>3 DEF HeartbeatStep
  <2> QED BY <2>2, <2>3
<1>10. Execute(i, p) \/ CallFails(i, p) => p = h
  <2>1. Execute(i, p) \/ CallFails(i, p) => q.pc = "sent"
    BY DEF Execute, CallFails, At
  <2> QED BY <1>2, <1>1, <2>1 DEF Lingers, Procs
<1> QED BY <1>5, <1>6, <1>7, <1>8, <1>9, <1>10 DEF ProcStep

\* With the background recovery under way, and with a loop under way.
RecoverySearches(i) ==
    /\ mgr[i].recovering
    /\ proc[i]["bg"].pc \in {"check", "sent", "replied", "retry", "sleep"}
    /\ \A p \in Loops : proc[i][p].pc = "off" \/ Lingers(proc[i][p])
LoopSearches(i, p) ==
    /\ ~mgr[i].recovering
    /\ proc[i]["bg"].pc = "off"
    /\ Retries(proc[i][p])
    /\ \A r \in Loops \ {p} : proc[i][r].pc = "off"

LEMMA SearchingSteps ==
    ASSUME TypeInv, StopInv, NEW i \in Instances, Up(i), Searching(i), NEW p \in Procs,
           "running" \notin StartAgainFrom,
           ProcStep(i, p) \/ Stop(i, p) \/ StartAgain(i, p)
    PROVE  \/ /\ \/ p = "bg" /\ RecoverySearches(i)
                 \/ p \in Loops /\ LoopSearches(i, p)
              /\ \/ Execute(i, p) \/ CallFails(i, p)
                 \/ DrawWorkerID(i, p) \/ RegisterSucceeds(i, p)
                 \/ p \in Loops /\ SpawnRecovery(i, p)
                 \/ /\ key' = key /\ KeepsManager(i)
                    /\ p = "bg" => proc'[i][p].pc \in {"check", "retry", "sleep"}
                    /\ p \in Loops => \/ proc'[i][p].pc \in {"try", "retry"}
                                      \/ proc'[i][p].pc = "spawn" /\ proc'[i][p].clk = 0
           \/ /\ p \in Loops /\ RecoverySearches(i)
              /\ proc'[i][p].pc = "off" /\ mgr' = mgr /\ key' = key
           \/ p = "main" /\ Stop(i, p)
<1> DEFINE q == proc[i][p]
<1>1. /\ GoroutinesOK /\ GoroutineOK(i, p, q) /\ ManagerOK(i, mgr[i])
      /\ ~mgr[i].registered /\ mgr[i].loop = NoLoop /\ ~mgr[i].shuttingDown
      /\ p \in Loops => p # "bg" /\ p # "main"
      /\ HeartbeatInterval \in Nat /\ HeartbeatInterval >= 1 /\ q.pc # "off"
  BY StepFrame, TimeAssumption, NamesAssumption
     DEF TypeInv, GoroutinesOK, ManagersOK, Up, Searching, ManagerOK
<1>2. CASE p = "main"
  <2>1. q.pc = "running"
    BY <1>2 DEF Searching
  <2>2. ~HeartbeatStep(i, p) /\ ~RecoveryStep(i, p) /\ ~Execute(i, p) /\ ~CallFails(i, p)
    BY <1>1, <1>2, <2>1 DEF Execute, CallFails, RecoveryStep, StopTrying, RecoveryNotNeeded, RecoveryWakes,
       RecoveryEnds, HeartbeatStep, SendHeartbeat, HeartbeatUnregistered, BeatDue,
       HeartbeatReply, StoreHealthy, LoopEnds, TryReRegister, ReRegisterReply, Reacquire,
       SpawnRecovery, At, Answered
  <2>3. ~RegisterStep(i, p)
    BY <1>1, <2>1, RegisterStepDoes
  <2>4. ~LifecycleStep(i, p)
    BY <2>1 DEF LifecycleStep, Start, SpecificSucceeds, SpecificFails,
     StartSetsGenerator, Unregister, UnregisterGetReply, UnregisterDelReply, GeneratorShutdown,
     At, Answered
  <2>5. ~StartAgain(i, p)
    BY <2>1, TimeAssumption DEF StartAgain, At
  <2> QED BY <1>2, <2>2, <2>3, <2>4, <2>5 DEF ProcStep
<1>3. ASSUME p # "main"
      PROVE  ~LifecycleStep(i, p) /\ ~StartAgain(i, p) /\ ~Stop(i, p)
  <2>1. p \in Loops \/ p = "bg"
    BY <1>3 DEF Procs
  <2>2. /\ q.pc \notin {"start", "startset", "unreg", "shutdown", "running", "failed"}
        /\ q.call \notin {"spec", "get", "del"}
    BY <1>1, <1>3, <2>1 DEF GoroutineOK, LoopLabels, BgLabels
  <2>3. StartAgainFrom \subseteq {"failed"}
    BY TimeAssumption
  <2> QED
    BY <2>2, <2>3 DEF LifecycleStep, Start, SpecificSucceeds, SpecificFails,
       StartSetsGenerator, Unregister, UnregisterGetReply, UnregisterDelReply,
       GeneratorShutdown, StartAgain, Stop, At, Answered
<1>4. CASE p = "bg"
  <2>1. RecoverySearches(i)
    BY <1>1, <1>4 DEF Searching, RecoverySearches
  <2>2. q.pc \in {"check", "sent", "replied", "retry", "sleep"}
    BY <1>4, <2>1 DEF RecoverySearches
  <2>3. q.pc = "replied" => q.call = "reg"
    BY <1>1, <1>4, NamesAssumption DEF GoroutineOK, Calls, Proc
  <2>4. ~HeartbeatStep(i, p)
    BY <1>1, <1>4, <2>2, <2>3, NamesAssumption
       DEF HeartbeatStep, SendHeartbeat, HeartbeatUnregistered, BeatDue,
       HeartbeatReply, StoreHealthy, LoopEnds, TryReRegister, ReRegisterReply, Reacquire,
       SpawnRecovery, At, Answered
  <2>5. CASE RecoveryStep(i, p)
    <3>1. RecoveryWakes(i, p)
      BY <1>1, <2>2, <2>5 DEF RecoveryStep, StopTrying, RecoveryNotNeeded, RecoveryEnds, At
    <3>2. key' = key /\ KeepsManager(i) /\ proc'[i][p].pc = "check"
      BY <1>1, <3>1, GoToDoes DEF RecoveryWakes, redis, KeepsManager, SameID
    <3> QED BY <1>4, <2>1, <3>2, NamesAssumption
  <2>6. CASE RegisterStep(i, p)
    <3>1. \/ DrawWorkerID(i, p) \/ RegisterSucceeds(i, p)
          \/ /\ key' = key /\ KeepsManager(i)
             /\ proc'[i][p].pc \in {"retry", "sleep"}
      BY <1>1, <1>4, <2>6, RegisterStepDoes, AfterFailureDoes DEF KeepsManager
    <3> QED BY <1>4, <2>1, <3>1, NamesAssumption
  <2> QED BY <1>3, <1>4, <2>1, <2>4, <2>5, <2>6 DEF ProcStep
<1>5. CASE p \in Loops
  <2>1. CASE RecoverySearches(i)
    <3>1. Lingers(q)
      BY <1>1, <1>5, <2>1 DEF RecoverySearches
    <3>2. LoopEnds(i, p)
      <4>1. ~RegisterStep(i, p)
        BY <1>1, <3>1, RegisterStepDoes DEF Lingers
      <4>2. ~Execute(i, p) /\ ~CallFails(i, p) /\ ~RecoveryStep(i, p)
        BY <3>1 DEF Lingers, Execute, CallFails, RecoveryStep, StopTrying,
           RecoveryNotNeeded, RecoveryWakes, RecoveryEnds, At
      <4>3. HeartbeatStep(i, p)
        BY <1>1, <1>3, <1>5, <4>1, <4>2 DEF ProcStep
      <4> QED BY <1>1, <3>1, <4>3 DEF Lingers, HeartbeatStep, SendHeartbeat, HeartbeatUnregistered,
         BeatDue, HeartbeatReply, StoreHealthy, TryReRegister, ReRegisterReply, Reacquire,
         SpawnRecovery, At, Answered
    <3>3. proc'[i][p] = Resting
      BY <1>1, <3>2 DEF LoopEnds, GoroutinesOK
    <3> QED BY <1>5, <2>1, <3>2, <3>3 DEF LoopEnds, redis, Resting
  <2>2. CASE ~RecoverySearches(i)
    <3>1. LoopSearches(i, p)
      BY <1>1, <1>5, <2>2 DEF Searching, RecoverySearches, LoopSearches
    <3>2. q.pc \in {"try", "retry", "spawn"} \/ (q.call = "reg" /\ q.pc \in {"sent", "replied"})
      BY <1>1, <3>1 DEF LoopSearches, Retries, GoroutineOK
    <3>3. HeartbeatStep(i, p) => SpawnRecovery(i, p)
      BY <1>1, <3>2 DEF HeartbeatStep, SendHeartbeat, HeartbeatUnregistered,
         BeatDue, HeartbeatReply, StoreHealthy, LoopEnds, TryReRegister, ReRegisterReply, Reacquire,
         At, Answered
    <3>4. ~RecoveryStep(i, p)
      BY <1>1, <3>2 DEF RecoveryStep, StopTrying, RecoveryNotNeeded, RecoveryWakes,
         RecoveryEnds, At
    <3>5. CASE RegisterStep(i, p)
      <4>1. \/ DrawWorkerID(i, p) \/ RegisterSucceeds(i, p)
            \/ /\ key' = key /\ KeepsManager(i)
               /\ \/ proc'[i][p].pc \in {"try", "retry"}
                  \/ proc'[i][p].pc = "spawn" /\ proc'[i][p].clk = 0
        BY <1>1, <1>5, <3>5, RegisterStepDoes, AfterFailureDoes DEF KeepsManager
      <4> QED BY <1>1, <1>5, <3>1, <4>1
    <3> QED BY <1>1, <1>3, <1>5, <3>1, <3>3, <3>4, <3>5 DEF ProcStep
  <2> QED BY <2>1, <2>2
<1> QED BY <1>2, <1>4, <1>5 DEF Procs

-----------------------------------------------------------------------------
(* The modes follow one another.                                            *)

\* Where a registration leads: its loop lingers, who registered it is ending.
LEMMA CommitHolds ==
    ASSUME TypeInv, NEW i \in Instances, NEW p \in Procs, NEW g, NEW n,
           Commit(i, p, g, n), ~mgr[i].registered, proc[i][p].pc # "off",
           g = proc[i][p].wid,
           LET main == IF p = "main" THEN n ELSE proc[i]["main"]
               bg   == IF p = "bg" THEN n ELSE proc[i]["bg"]
           IN  /\ \/ main.pc = "running"
                  \/ main.pc = "startset" /\ main.wid = proc[i][p].wid
               /\ bg.pc \in {"exit", "off"}
               /\ mgr[i].recovering <=> bg.pc = "exit",
           p \in Loops => n.pc = "up" /\ n.clk = 0,
           \A r \in Loops \ {p} : proc[i][r].pc = "off" \/ Lingers(proc[i][r])
    PROVE  Holding(i)'
<1>1. mgr[i].loop = NoLoop
  BY DEF TypeInv, ManagersOK, ManagerOK
<1> DEFINE l == mgr'[i].loop
<1>2. /\ l \in Loops /\ l # p
      /\ proc'[i][l].pc = "idle" /\ proc'[i][l].clk = 0 /\ proc'[i][l].call = "none"
      /\ proc'[i][p] = n
      /\ \A r \in Procs \ {p, l} : proc'[i][r] = proc[i][r]
      /\ mgr'[i].workerID = proc[i][p].wid /\ mgr'[i].registered
      /\ mgr'[i].generatorID = g /\ mgr'[i].recovering = mgr[i].recovering
  BY <1>1, CommitDoes
<1>3. l # "main" /\ l # "bg" /\ "main" \in Procs /\ "bg" \in Procs /\ Loops \subseteq Procs
  BY <1>2, NamesAssumption DEF Procs
<1>4. /\ proc'[i]["main"] = IF p = "main" THEN n ELSE proc[i]["main"]
      /\ proc'[i]["bg"] = IF p = "bg" THEN n ELSE proc[i]["bg"]
  BY <1>2, <1>3
<1>5. \A r \in Loops \ {l} : proc'[i][r].pc = "off" \/ Ends(proc'[i][r])
  BY <1>2, <1>3 DEF Lingers, Ends
<1>6. Lingers(proc'[i][l])
  BY <1>2 DEF Lingers
<1> QED BY <1>2, <1>4, <1>5, <1>6 DEF Holding, Lingers

LEMMA StartingKept ==
    ASSUME TypeInv, TypeInv', StopInv, NEW i \in Instances, Up(i), Starting(i),
           NEW p \in Procs, ProcStep(i, p) \/ Stop(i, p) \/ StartAgain(i, p)
    PROVE  Starting(i)' \/ Holding(i)'
<1> DEFINE q == proc[i]["main"]
           n == proc'[i]["main"]
<1>1. /\ GoroutinesOK /\ p = "main" /\ p \notin Loops /\ p # "bg" /\ ~mgr[i].registered
      /\ GoroutineOK(i, p, q) /\ q \in Proc /\ q.pc # "off" /\ "main" \in Procs
  BY StartingSteps, StepFrame, NamesAssumption DEF TypeInv, GoroutinesOK, Starting
<1>2. ASSUME RestKept(i, p), KeepsManager(i),
             n.pc \in {"start", "sent", "replied", "retry", "auto", "failed"},
             n.call = "spec" => n.wid = mgr[i].want
      PROVE  Starting(i)'
  <2>1. \A r \in Procs \ {"main"} : proc'[i][r].pc = "off"
    BY <1>1, <1>2 DEF RestKept, Starting
  <2> QED BY <1>2, <2>1 DEF Starting, KeepsManager, SameID
<1>3. n.pc \in {"start", "retry", "auto", "failed"} => n.call = "none"
  BY <1>1 DEF TypeInv, GoroutinesOK, GoroutineOK
<1>4. mgr' = mgr => KeepsManager(i)
  BY DEF KeepsManager, SameID
<1>5. CASE RegisterSucceeds(i, p)
  <2>1. Commit(i, p, q.wid, AfterSuccess(p, q))
    BY <1>1, <1>5 DEF RegisterSucceeds
  <2>2. /\ AfterSuccess(p, q).pc = "startset"
        /\ AfterSuccess(p, q).wid = q.wid
    BY <1>1 DEF AfterSuccess, Resting
  <2>3. proc[i]["bg"].pc = "off" /\ \A r \in Loops \ {p} : proc[i][r].pc = "off"
    BY <1>1, NamesAssumption DEF Starting, Procs
  <2> DEFINE a == AfterSuccess(p, q)
  <2> HIDE DEF a
  <2> QED BY <1>1, <2>1, <2>2, <2>3, CommitHolds DEF Starting, a
<1>6. CASE SpecificSucceeds(i, p)
  <2> DEFINE a == [Resting EXCEPT !.pc = "running"]
  <2>1. Commit(i, p, mgr[i].generatorID, a) /\ q.call = "spec"
    BY <1>1, <1>6 DEF SpecificSucceeds, Answered
  <2>2. a.pc = "running"
    BY DEF Resting
  <2>3. proc[i]["bg"].pc = "off" /\ \A r \in Loops \ {p} : proc[i][r].pc = "off"
    BY <1>1, NamesAssumption DEF Starting, Procs
  <2>4. mgr[i].generatorID = q.wid /\ ~mgr[i].recovering
    BY <2>1 DEF Starting
  <2> HIDE DEF a
  <2> QED BY <1>1, <2>1, <2>2, <2>3, <2>4, CommitHolds
<1>7. CASE ~RegisterSucceeds(i, p) /\ ~SpecificSucceeds(i, p)
  <2>1. RestKept(i, p)
    BY <1>1, <1>7, StepFrame DEF SpawnRecovery, At, Starting
  <2>2. CASE Execute(i, p) \/ CallFails(i, p)
    <3>1. mgr' = mgr /\ \E a : Answer(i, p, a)
      BY <2>2 DEF Execute, CallFails
    <3>2. n.pc = "replied" /\ n.call = q.call /\ n.wid = q.wid
      BY <1>1, <3>1, AnswerDoes
    <3> QED BY <1>2, <1>4, <2>1, <3>1, <3>2 DEF Starting
  <2>3. CASE DrawWorkerID(i, p)
    BY <1>1, <1>2, <1>4, <2>1, <2>3, DrawWorkerIDDoes
  <2>4. CASE Start(i, p)
    BY <1>1, <1>2, <1>3, <1>4, <2>1, <2>4, StartDoes
  <2>5. CASE KeepsManager(i) /\ n.pc \in {"start", "retry", "auto", "failed"}
    BY <1>1, <1>2, <1>3, <2>1, <2>5
  <2> QED BY <1>1, <1>7, <2>2, <2>3, <2>4, <2>5, StartingSteps
<1> QED BY <1>5, <1>6, <1>7

\* By the time the loop does anything, whoever started it has ended.
LEMMA HolderActsAlone ==
    ASSUME TypeInv, StopInv, NEW i \in Instances, Up(i), Holding(i), NEW p \in Procs,
           "running" \notin StartAgainFrom, p = mgr[i].loop,
           ProcStep(i, p) \/ Stop(i, p) \/ StartAgain(i, p)
    PROVE  /\ proc[i]["main"].pc = "running"
           /\ \A r \in Procs \ {"main", p} : proc[i][r].pc = "off"
<1> DEFINE q == proc[i][p]
<1>1. p \in Loops /\ p # "main" /\ p # "bg"
      /\ HeartbeatInterval \in Nat /\ HeartbeatInterval >= 1
  BY NamesAssumption, TimeAssumption DEF Holding
<1>2. \/ Execute(i, p)        \/ CallFails(i, p)
      \/ SendHeartbeat(i, p)  \/ HeartbeatReply(i, p) \/ StoreHealthy(i, p)
      \/ TryReRegister(i, p)  \/ ReRegisterReply(i, p) \/ Reacquire(i, p)
  BY <1>1, HoldingSteps
<1>3. CASE SendHeartbeat(i, p)
  <2>1. q.clk >= HeartbeatInterval
    BY <1>3, SendHeartbeatDoes
  <2> QED BY <1>1, <2>1 DEF Lingers, Holding
<1>4. CASE ~SendHeartbeat(i, p)
  <2>1. q.pc # "idle"
    BY <1>2, <1>4 DEF Execute, CallFails, HeartbeatReply, StoreHealthy,
       TryReRegister, ReRegisterReply, Reacquire, At, Answered
  <2> QED BY <2>1 DEF Lingers, Holding
<1> QED BY <1>3, <1>4

LEMMA HoldingKept ==
    ASSUME TypeInv, TypeInv', StopInv, NEW i \in Instances, Up(i), Holding(i),
           NEW p \in Procs, "running" \notin StartAgainFrom,
           ProcStep(i, p) \/ Stop(i, p) \/ StartAgain(i, p)
    PROVE  Holding(i)' \/ Searching(i)' \/ Stop(i, p)
<1> DEFINE h == mgr[i].loop
           q == proc[i][h]
           n == proc'[i][h]
<1>1. /\ h \in Loops /\ h \in Procs /\ h # "main" /\ h # "bg"
      /\ "main" \in Procs /\ "bg" \in Procs /\ Loops \subseteq Procs
      /\ mgr[i].registered /\ "main" \notin Loops /\ "bg" \notin Loops
      /\ HeartbeatInterval \in Nat /\ HeartbeatInterval >= 1
      /\ GoroutinesOK /\ GoroutineOK(i, h, q) /\ GoroutineOK(i, h, n)
      /\ GoroutineOK(i, p, proc[i][p])
  <2>1. h \in Loops /\ mgr[i].registered
    BY DEF Holding
  <2>2. h \in Procs /\ GoroutinesOK /\ GoroutinesOK'
    BY <2>1 DEF Procs, TypeInv
  <2>3. GoroutineOK(i, h, q) /\ GoroutineOK(i, h, n) /\ GoroutineOK(i, p, proc[i][p])
    BY <2>2 DEF GoroutinesOK
  <2> QED BY <2>1, <2>2, <2>3, NamesAssumption, TimeAssumption DEF Procs
<1>2. RestKept(i, p)
  <2>1. proc[i][p].pc # "spawn" /\ proc[i][p].call \notin {"reg", "spec"}
    BY <1>1 DEF Holding, Ends, Lingers, Procs, GoroutineOK
  <2> QED BY <2>1, StepFrame DEF SpawnRecovery, RegisterSucceeds, SpecificSucceeds, At, Answered
<1>3. mgr' = mgr => SameID(mgr[i], mgr'[i]) /\ mgr'[i].recovering = mgr[i].recovering
  BY DEF SameID
<1>4. CASE p = h
  <2>1. /\ \/ Execute(i, p)        \/ CallFails(i, p)
           \/ SendHeartbeat(i, p)  \/ HeartbeatReply(i, p) \/ StoreHealthy(i, p)
           \/ TryReRegister(i, p)  \/ ReRegisterReply(i, p) \/ Reacquire(i, p)
    BY <1>1, <1>4, HoldingSteps
  <2>3. /\ proc[i]["main"].pc = "running"
        /\ \A r \in Procs \ {"main", h} : proc[i][r].pc = "off"
    BY <1>4, HolderActsAlone
  <2>4. /\ proc'[i]["main"].pc = "running"
        /\ \A r \in Procs \ {"main", h} : proc'[i][r].pc = "off"
    BY <1>1, <1>2, <1>4, <2>3 DEF RestKept
  <2>5. ~mgr[i].recovering
    BY <1>1, <2>3 DEF Holding
  <2>6. ASSUME SameID(mgr[i], mgr'[i]), mgr'[i].recovering = mgr[i].recovering,
               n.pc \in {"idle", "sent", "replied", "up", "rereg", "reacquire"},
               n.call # "none" => /\ n.call \in {"hb", "rr"}
                                  /\ n.wid = mgr[i].workerID /\ n.tok = mgr[i].instanceID
        PROVE  Holding(i)'
    <3>1. mgr'[i].loop = h
      BY <2>6 DEF SameID
    <3> QED BY <1>1, <2>4, <2>5, <2>6, <3>1 DEF Holding, SameID
  <2>7. n.pc \in {"idle", "up", "rereg", "reacquire"} => n.call = "none"
    BY <1>1 DEF GoroutineOK
  <2>8. q.call # "none" => /\ q.call \in {"hb", "rr"}
                           /\ q.wid = mgr[i].workerID /\ q.tok = mgr[i].instanceID
    BY DEF Holding
  <2>9. CASE Execute(i, p) \/ CallFails(i, p)
    <3>1. mgr' = mgr /\ \E a : Answer(i, p, a)
      BY <2>9 DEF Execute, CallFails
    <3>2. n.pc = "replied" /\ n.call = q.call /\ n.wid = q.wid /\ n.tok = q.tok
      BY <1>1, <1>4, <3>1, AnswerDoes
    <3> QED BY <1>3, <2>6, <2>8, <3>1, <3>2
  <2>10. CASE SendHeartbeat(i, p)
    BY <1>3, <1>4, <2>6, <2>10, SendHeartbeatDoes
  <2>11. CASE TryReRegister(i, p)
    BY <1>1, <1>3, <1>4, <2>6, <2>7, <2>11, TryReRegisterDoes
  <2>12. CASE HeartbeatReply(i, p)
    BY <1>1, <1>4, <2>6, <2>7, <2>12, HeartbeatReplyDoes
  <2>13. CASE StoreHealthy(i, p)
    BY <1>1, <1>4, <2>6, <2>7, <2>13, StoreHealthyDoes
  <2>14. CASE ReRegisterReply(i, p)
    BY <1>1, <1>4, <2>6, <2>7, <2>14, ReRegisterReplyDoes
  <2>15. CASE Reacquire(i, p)
    <3>1. /\ n.pc = "try" /\ ~mgr'[i].registered /\ ~mgr'[i].healthy
          /\ mgr'[i].instanceID = NoToken /\ ~mgr'[i].recovering
      BY <1>1, <1>4, <2>5, <2>15, ReacquireDoes
    <3> QED BY <1>1, <2>4, <3>1 DEF Searching, Retries
  <2> QED BY <2>1, <2>9, <2>10, <2>11, <2>12, <2>13, <2>14, <2>15
<1>5. CASE p # h /\ ~Stop(i, p)
  <2>1. n = q
    BY <1>1, <1>2, <1>5 DEF RestKept
  <2>2. Lingers(q)
    <3>1. proc[i][p].pc # "off"
      BY StepFrame
    <3>2. CASE p = "main"
      BY <1>1, <1>5, <3>2, HoldingSteps, StartSetsGeneratorDoes DEF Holding
    <3> QED BY <1>1, <1>5, <3>1, <3>2 DEF Holding, Procs
  <2>3. CASE p = "main"
    <3>1. StartSetsGenerator(i, p)
      BY <1>1, <1>5, <2>3, HoldingSteps
    <3>2. /\ proc[i][p].pc = "startset" /\ proc'[i][p].pc = "running"
          /\ SameID(mgr[i], mgr'[i]) /\ mgr'[i].recovering = mgr[i].recovering
      BY <2>3, <3>1, StartSetsGeneratorDoes DEF Holding
    <3> QED BY <1>1, <1>2, <2>1, <2>2, <2>3, <3>2 DEF Holding, RestKept, SameID, Lingers
  <2>4. CASE p = "bg"
    <3>1. RecoveryEnds(i, p)
      BY <1>1, <1>5, <2>4, HoldingSteps
    <3>2. /\ proc'[i][p].pc = "off" /\ SameID(mgr[i], mgr'[i]) /\ ~mgr'[i].recovering
      BY <3>1, RecoveryEndsDoes
    <3> QED BY <1>1, <1>2, <2>1, <2>2, <2>4, <3>2 DEF Holding, RestKept, SameID, Lingers
  <2>5. CASE p \in Loops
    <3> DEFINE r == proc[i][p]
               s == proc'[i][p]
    <3>1. /\ SameID(mgr[i], mgr'[i]) /\ mgr'[i].recovering = mgr[i].recovering
          /\ s.pc = "off" \/ (s.pc = "idle" /\ s.clk = r.clk /\ r.pc = "up")
      BY <1>1, <1>3, <1>5, <2>5, HoldingSteps, StoreHealthyDoes
    <3>2. s.pc = "off" \/ Ends(s)
      BY <1>1, <1>5, <2>5, <3>1 DEF Holding, Ends
    <3>3. \A k \in Loops \ {h} : proc'[i][k].pc = "off" \/ Ends(proc'[i][k])
      BY <1>1, <1>2, <3>2 DEF Holding, RestKept
    <3>4. /\ proc'[i]["main"] = proc[i]["main"] /\ proc'[i]["bg"] = proc[i]["bg"]
          /\ mgr'[i].loop = h
      BY <1>1, <1>2, <2>5, <3>1 DEF RestKept, SameID
    <3> QED BY <1>1, <2>1, <2>2, <3>1, <3>3, <3>4 DEF Holding, SameID
  <2> QED BY <2>3, <2>4, <2>5 DEF Procs
<1> QED BY <1>4, <1>5

LEMMA SearchingKept ==
    ASSUME TypeInv, TypeInv', StopInv, NEW i \in Instances, Up(i), Searching(i),
           NEW p \in Procs, "running" \notin StartAgainFrom,
           ProcStep(i, p) \/ Stop(i, p) \/ StartAgain(i, p)
    PROVE  Holding(i)' \/ Searching(i)' \/ Stop(i, p)
<1> DEFINE q == proc[i][p]
           n == proc'[i][p]
<1>1. /\ GoroutinesOK /\ GoroutineOK(i, p, q) /\ GoroutineOK(i, p, n)
      /\ ~mgr[i].registered /\ "main" \in Procs /\ "bg" \in Procs
      /\ Loops \subseteq Procs /\ "main" \notin Loops /\ "bg" \notin Loops
      /\ q.pc # "off"
  <2>1. GoroutinesOK /\ GoroutinesOK'
    BY DEF TypeInv
  <2> QED BY <2>1, StepFrame, NamesAssumption DEF GoroutinesOK, Searching, Procs
<1>2. CASE RegisterSucceeds(i, p)
  <2> DEFINE a == AfterSuccess(p, q)
  <2>1. Commit(i, p, q.wid, a)
    BY <1>2 DEF RegisterSucceeds
  <2>2. q.pc = "replied" /\ q.call = "reg"
    BY <1>2 DEF RegisterSucceeds, Answered
  <2>3. /\ p = "bg" => a.pc = "exit"
        /\ p \in Loops => a.pc = "up" /\ a.clk = 0
    BY <1>1 DEF AfterSuccess, Resting
  <2>4. p # "main" /\ proc[i]["main"].pc = "running"
    BY <2>2 DEF Searching
  <2>5. CASE p = "bg"
    <3>1. mgr[i].recovering /\ \A r \in Loops : proc[i][r].pc = "off" \/ Lingers(proc[i][r])
      BY <1>1, <2>5 DEF Searching
    <3> HIDE DEF a
    <3> QED BY <1>1, <2>1, <2>2, <2>3, <2>4, <2>5, <3>1, CommitHolds
  <2>6. CASE p \in Loops
    <3>1. LoopSearches(i, p)
      BY <1>1, <2>2, <2>6 DEF Searching, LoopSearches, Lingers
    <3> HIDE DEF a
    <3> QED BY <1>1, <2>1, <2>2, <2>3, <2>4, <2>6, <3>1, CommitHolds DEF LoopSearches
  <2> QED BY <2>4, <2>5, <2>6 DEF Procs
<1>3. CASE SpawnRecovery(i, p) /\ p \in Loops
  <2>1. LoopSearches(i, p)
    <3>1. q.pc = "spawn"
      BY <1>3 DEF SpawnRecovery, At
    <3> QED BY <1>1, <1>3, <3>1 DEF Searching, LoopSearches, Lingers
  <2>2. /\ q.pc = "spawn" /\ SameID(mgr[i], mgr'[i]) /\ mgr'[i].healthy = mgr[i].healthy
        /\ mgr'[i].recovering /\ n.pc = "idle" /\ n.clk = q.clk
        /\ proc'[i]["bg"].pc = "check"
        /\ \A r \in Procs \ {p, "bg"} : proc'[i][r] = proc[i][r]
    BY <1>1, <1>3, <2>1, SpawnRecoveryDoes DEF LoopSearches
  <2>3. q.clk = 0
    BY <1>1, <2>1, <2>2 DEF LoopSearches, Retries, GoroutineOK
  <2>4. \A r \in Loops : proc'[i][r].pc = "off" \/ Lingers(proc'[i][r])
    BY <1>1, <2>1, <2>2, <2>3 DEF LoopSearches, Lingers
  <2>5. proc'[i]["main"] = proc[i]["main"]
    BY <1>1, <1>3, <2>2
  <2> QED BY <2>2, <2>4, <2>5 DEF Searching, SameID
<1>4. CASE ~RegisterSucceeds(i, p) /\ ~(SpawnRecovery(i, p) /\ p \in Loops) /\ ~Stop(i, p)
  <2>1. \/ p = "bg" /\ RecoverySearches(i)
        \/ p \in Loops
    BY <1>1, <1>4, SearchingSteps
  <2>2. RestKept(i, p)
    <3>1. ~SpecificSucceeds(i, p)
      BY <1>1, <2>1 DEF SpecificSucceeds, Answered, GoroutineOK
    <3>2. ~SpawnRecovery(i, p)
      BY <1>1, <1>4, <2>1 DEF SpawnRecovery, At, RecoverySearches
    <3> QED BY <1>4, <3>1, <3>2, StepFrame
  <2>3. proc'[i]["main"] = proc[i]["main"]
    BY <1>1, <2>1, <2>2 DEF RestKept
  <2>4. mgr' = mgr => KeepsManager(i)
    BY DEF KeepsManager, SameID
  <2>5. ASSUME KeepsManager(i), p = "bg", RecoverySearches(i),
               n.pc \in {"check", "sent", "replied", "retry", "sleep"}
        PROVE  Searching(i)'
    <3>1. \A r \in Loops : proc'[i][r] = proc[i][r]
      BY <1>1, <2>2, <2>5 DEF RestKept
    <3> QED BY <2>3, <2>5, <3>1 DEF Searching, RecoverySearches, KeepsManager, SameID
  <2>6. ASSUME KeepsManager(i), p \in Loops, LoopSearches(i, p), Retries(n)
        PROVE  Searching(i)'
    <3>1. /\ proc'[i]["bg"] = proc[i]["bg"]
          /\ \A r \in Loops \ {p} : proc'[i][r] = proc[i][r]
      BY <1>1, <2>2, <2>6 DEF RestKept
    <3> QED BY <2>3, <2>6, <3>1 DEF Searching, LoopSearches, KeepsManager, SameID
  <2>7. ASSUME KeepsManager(i), p \in Loops, RecoverySearches(i), n.pc = "off"
        PROVE  Searching(i)'
    <3>1. /\ proc'[i]["bg"] = proc[i]["bg"]
          /\ \A r \in Loops \ {p} : proc'[i][r] = proc[i][r]
      BY <1>1, <2>2, <2>7 DEF RestKept
    <3>2. \A r \in Loops : proc'[i][r].pc = "off" \/ Lingers(proc'[i][r])
      BY <2>7, <3>1 DEF RecoverySearches
    <3> QED BY <2>3, <2>7, <3>1, <3>2 DEF Searching, RecoverySearches, KeepsManager, SameID
  <2>8. CASE Execute(i, p) \/ CallFails(i, p)
    <3>1. mgr' = mgr /\ q.pc = "sent" /\ \E a : Answer(i, p, a)
      BY <2>8 DEF Execute, CallFails, At
    <3>2. n.pc = "replied" /\ n.call = q.call
      BY <1>1, <3>1, AnswerDoes
    <3>3. p \in Loops /\ LoopSearches(i, p) => q.call = "reg"
      BY <3>1 DEF LoopSearches, Retries
    <3>4. p \in Loops => LoopSearches(i, p)
      BY <1>1, <3>1 DEF Searching, LoopSearches, Lingers
    <3> QED BY <2>1, <2>4, <2>5, <2>6, <3>1, <3>2, <3>3, <3>4 DEF Retries
  <2>9. CASE DrawWorkerID(i, p)
    <3>1. /\ mgr' = mgr /\ q.pc \in {"try", "check", "auto", "retry"}
          /\ n.pc = "sent" /\ n.call = "reg"
      BY <2>9, DrawWorkerIDDoes
    <3>2. p \in Loops => LoopSearches(i, p)
      BY <1>1, <3>1 DEF Searching, LoopSearches, Lingers
    <3> QED BY <2>1, <2>4, <2>5, <2>6, <3>1, <3>2 DEF Retries
  <2> QED BY <1>1, <1>4, <2>4, <2>5, <2>6, <2>7, <2>8, <2>9, SearchingSteps DEF Retries
<1> QED BY <1>1, <1>2, <1>3, <1>4, SearchingSteps

\* Once Stop has begun, the main goroutine does not go back.
LEMMA StoppingKept ==
    ASSUME TypeInv, TypeInv', NEW i \in Instances, NEW p \in Procs,
           "running" \notin StartAgainFrom,
           Past(i) \/ proc[i]["main"].pc = "unreg",
           ProcStep(i, p) \/ Stop(i, p) \/ StartAgain(i, p)
    PROVE  (Past(i) \/ proc[i]["main"].pc = "unreg")'
<1> DEFINE q == proc[i]["main"]
           n == proc'[i]["main"]
<1>1. CASE p # "main"
  BY <1>1, MainLeftAlone DEF Past
<1>2. CASE p = "main"
  <2>1. /\ GoroutinesOK /\ proc \in [Instances -> [Procs -> Proc]] /\ q \in Proc
        /\ GoroutineOK(i, p, q) /\ "main" \in Procs /\ p \notin Loops
        /\ StartAgainFrom \subseteq {"failed"}
    <3>1. StartAgainFrom \subseteq {"failed"}
      BY TimeAssumption
    <3>2. "main" \in Procs /\ p \notin Loops
      BY <1>2, NamesAssumption DEF Procs
    <3>3. GoroutinesOK /\ proc \in [Instances -> [Procs -> Proc]]
      BY DEF TypeInv, GoroutinesOK
    <3> QED BY <1>2, <3>1, <3>2, <3>3 DEF GoroutinesOK
  <2>2. \/ q.pc \in {"unreg", "shutdown", "stopped"}
        \/ q.pc \in {"sent", "replied"} /\ q.call \in {"get", "del"}
    BY <2>1 DEF Past, GoroutineOK
  <2>3. CASE Execute(i, p) \/ CallFails(i, p)
    <3>1. q.pc = "sent" /\ \E a : Answer(i, p, a)
      BY <1>2, <2>3 DEF Execute, CallFails, At
    <3>2. n.call = q.call
      BY <1>2, <2>1, <3>1, AnswerDoes
    <3> QED BY <2>2, <3>1, <3>2 DEF Past
  <2>4. ~HeartbeatStep(i, p) /\ ~RecoveryStep(i, p)
    BY <1>2, <2>1, <2>2 DEF RecoveryStep, StopTrying, RecoveryNotNeeded, RecoveryWakes,
       RecoveryEnds, HeartbeatStep, SendHeartbeat, HeartbeatUnregistered, BeatDue,
       HeartbeatReply, StoreHealthy, LoopEnds, TryReRegister, ReRegisterReply, Reacquire,
       SpawnRecovery, At, Answered
  <2>5. ~RegisterStep(i, p)
    BY <1>2, <2>1, <2>2 DEF RegisterStep, RegisterRefused, AlreadyRegistered, DrawWorkerID,
       DrawFails, RegisterSucceeds, WorkerIDTaken, AllOccupied, RegisterErrs, Drawing,
       Registering, At, Answered
  <2>6. ~Stop(i, p) /\ ~StartAgain(i, p)
    BY <1>2, <2>1, <2>2 DEF Stop, StartAgain, At
  <2>7. ~Start(i, p) /\ ~SpecificSucceeds(i, p) /\ ~SpecificFails(i, p)
        /\ ~StartSetsGenerator(i, p)
    BY <1>2, <2>1, <2>2 DEF Start, SpecificSucceeds, SpecificFails, StartSetsGenerator, At,
       Answered
  <2>8. GoTo(i, p, "shutdown") \/ GoTo(i, p, "stopped") \/ Finish(i, p, "shutdown")
          => n.pc \in {"shutdown", "stopped"}
    BY <1>2, <2>1, GoToDoes, FinishDoes
  <2>9. CASE Unregister(i, p)
    <3>1. CASE mgr[i].registered
      <4>1. n = Calling(q, "get", mgr[i].workerID, mgr[i].instanceID)
        BY <1>2, <2>1, <2>9, <3>1 DEF Unregister
      <4> QED BY <2>1, <4>1, CallingDoes DEF Past
    <3>2. CASE ~mgr[i].registered
      BY <2>8, <2>9, <3>2 DEF Unregister, Past
    <3> QED BY <3>1, <3>2
  <2>10. CASE UnregisterGetReply(i, p)
    <3> DEFINE c == Calling(q, "del", q.wid, q.tok)
    <3>1. CASE n = [c EXCEPT !.clk = q.clk]
      <4>1. n.call = "del"
        BY <2>1, <3>1 DEF Calling, Proc
      <4> QED BY <4>1 DEF Past
    <3>2. CASE Finish(i, p, "shutdown")
      BY <2>8, <3>2 DEF Past
    <3> QED BY <1>2, <2>1, <2>10, <3>1, <3>2 DEF UnregisterGetReply
  <2>11. CASE UnregisterDelReply(i, p) \/ GeneratorShutdown(i, p)
    BY <2>8, <2>11 DEF UnregisterDelReply, GeneratorShutdown, Past
  <2> QED BY <2>3, <2>4, <2>5, <2>6, <2>7, <2>9, <2>10, <2>11 DEF ProcStep, LifecycleStep
<1> QED BY <1>1, <1>2

\* What the clock does to a goroutine and to a manager.
LEMMA TickDoes ==
    ASSUME TypeInv, Tick, NEW i \in Instances
    PROVE  /\ SameID(mgr[i], mgr'[i]) /\ mgr'[i].healthy = mgr[i].healthy
           /\ mgr'[i].recovering = mgr[i].recovering
           /\ mgr'[i].lease = IF mgr[i].lease > 0 THEN mgr[i].lease - 1 ELSE mgr[i].lease
           /\ \A p \in Procs :
                /\ proc'[i][p].pc = proc[i][p].pc /\ proc'[i][p].call = proc[i][p].call
                /\ proc'[i][p].wid = proc[i][p].wid /\ proc'[i][p].tok = proc[i][p].tok
                /\ proc'[i][p].ans = proc[i][p].ans
                /\ proc'[i][p].clk =
                     IF proc[i][p].pc \in {"idle", "sent", "replied"} /\ proc[i][p].clk < TTL
                     THEN proc[i][p].clk + 1 ELSE proc[i][p].clk
<1>1. /\ mgr \in [Instances -> Manager] /\ mgr[i] \in Manager
      /\ proc \in [Instances -> [Procs -> Proc]]
  BY DEF TypeInv, ManagersOK, GoroutinesOK
<1> DEFINE m == [mgr[i] EXCEPT !.lease = IF @ > 0 THEN @ - 1 ELSE @]
<1>2. mgr'[i] = m
  BY <1>1 DEF Tick
<1>3. /\ SameID(mgr[i], m) /\ m.healthy = mgr[i].healthy
      /\ m.recovering = mgr[i].recovering
      /\ m.lease = IF mgr[i].lease > 0 THEN mgr[i].lease - 1 ELSE mgr[i].lease
  BY <1>1 DEF SameID, Manager
<1> HIDE DEF m
<1>4. ASSUME NEW p \in Procs
      PROVE  /\ proc'[i][p].pc = proc[i][p].pc /\ proc'[i][p].call = proc[i][p].call
             /\ proc'[i][p].wid = proc[i][p].wid /\ proc'[i][p].tok = proc[i][p].tok
             /\ proc'[i][p].ans = proc[i][p].ans
             /\ proc'[i][p].clk =
                  IF proc[i][p].pc \in {"idle", "sent", "replied"} /\ proc[i][p].clk < TTL
                  THEN proc[i][p].clk + 1 ELSE proc[i][p].clk
  <2>1. proc[i][p] \in Proc /\ proc'[i][p] = Later(proc[i][p])
    BY <1>1 DEF Tick
  <2> QED BY <2>1 DEF Later, Proc
<1> QED BY <1>2, <1>3, <1>4

LEMMA CrashDoes ==
    ASSUME TypeInv, NEW i \in Instances, Crash(i)
    PROVE  /\ ~mgr'[i].alive /\ \A p \in Procs : proc'[i][p] = Resting
           /\ mgr[i].alive /\ ~mgr'[i].registered /\ mgr'[i].instanceID = NoToken
           /\ OthersKept(i) /\ key' = key
<1>1. /\ mgr \in [Instances -> Manager] /\ mgr[i] \in Manager
      /\ proc \in [Instances -> [Procs -> Proc]]
  BY DEF TypeInv, ManagersOK, GoroutinesOK
<1> DEFINE m == [mgr[i] EXCEPT !.alive = FALSE, !.lease = NoLease,
                    !.healthy = FALSE, !.loop = NoLoop, !.expiredSeen = FALSE,
                    !.registered = FALSE, !.instanceID = NoToken]
<1>2. mgr'[i] = m
  BY <1>1 DEF Crash
<1>3. ~m.alive /\ ~m.registered /\ m.instanceID = NoToken
  BY <1>1 DEF Manager
<1> HIDE DEF m
<1> QED BY <1>1, <1>2, <1>3 DEF Crash, OthersKept, redis

LEMMA LookDoes ==
    ASSUME TypeInv, NEW i \in Instances, SeeExpired(i) \/ ClearHealthy(i)
    PROVE  /\ KeepsManager(i) /\ mgr'[i].lease = mgr[i].lease
           /\ OthersKept(i) /\ proc' = proc /\ key' = key
<1>1. /\ mgr \in [Instances -> Manager] /\ mgr[i] \in Manager
  BY DEF TypeInv, ManagersOK
<1>2. CASE SeeExpired(i)
  BY <1>1, <1>2 DEF SeeExpired, redis, OthersKept, KeepsManager, SameID, Manager
<1>3. CASE ClearHealthy(i)
  <2>1. mgr' = [mgr EXCEPT ![i] = [mgr[i] EXCEPT !.expiredSeen = FALSE, !.healthy = FALSE]]
    BY <1>1, <1>3 DEF ClearHealthy
  <2> DEFINE m == [mgr[i] EXCEPT !.expiredSeen = FALSE, !.healthy = FALSE]
  <2>2. SameID(mgr[i], m) /\ ~m.healthy /\ m.recovering = mgr[i].recovering /\ m.lease = mgr[i].lease
    BY <1>1 DEF SameID, Manager
  <2>3. mgr'[i] = m /\ \A j \in Instances \ {i} : mgr'[j] = mgr[j]
    BY <1>1, <2>1
  <2> HIDE DEF m
  <2> QED BY <1>3, <2>2, <2>3 DEF ClearHealthy, redis, OthersKept, KeepsManager, SameID
<1> QED BY <1>2, <1>3

StructureOf(i) ==
    /\ Up(i) => Starting(i) \/ Holding(i) \/ Searching(i)
    /\ mgr[i].alive /\ mgr[i].shuttingDown => Past(i) \/ proc[i]["main"].pc = "unreg"
    /\ ~mgr[i].alive => \A p \in Procs : proc[i][p].pc = "off"

LEMMA StructureStutters ==
    ASSUME NEW i \in Instances, StructureOf(i), mgr'[i] = mgr[i], proc'[i] = proc[i]
    PROVE  StructureOf(i)'
BY DEF StructureOf, Up, Starting, Holding, Searching, Past

LEMMA StructureTick ==
    ASSUME TypeInv, Timely, Tick, NEW i \in Instances, StructureOf(i)
    PROVE  StructureOf(i)'
<1>1. /\ SameID(mgr[i], mgr'[i]) /\ mgr'[i].healthy = mgr[i].healthy
      /\ mgr'[i].recovering = mgr[i].recovering
      /\ \A p \in Procs :
           /\ proc'[i][p].pc = proc[i][p].pc /\ proc'[i][p].call = proc[i][p].call
           /\ proc'[i][p].wid = proc[i][p].wid /\ proc'[i][p].tok = proc[i][p].tok
           /\ proc[i][p].pc \notin {"idle", "sent", "replied"} =>
                 proc'[i][p].clk = proc[i][p].clk
  BY TickDoes
<1>2. "main" \in Procs /\ "bg" \in Procs /\ Loops \subseteq Procs
  BY DEF Procs
<1>3. mgr[i].alive => \A p \in Procs : ~Awaited(i, p)
  BY DEF Tick, InTime
<1>4. CASE ~mgr[i].alive
  BY <1>1, <1>4 DEF StructureOf, Up, SameID
<1>5. CASE mgr[i].alive /\ mgr[i].shuttingDown
  BY <1>1, <1>2, <1>5 DEF StructureOf, Up, SameID, Past
<1>6. CASE Up(i) /\ Starting(i)
  BY <1>1, <1>2, <1>6 DEF StructureOf, Up, SameID, Starting
<1>7. CASE Up(i) /\ Searching(i)
  <2>1. mgr[i].loop = NoLoop /\ NoLoop \notin Loops
    BY <1>7, NamesAssumption DEF TypeInv, ManagersOK, ManagerOK, Searching
  <2>2. \A p \in Loops : proc[i][p].pc # "idle"
    BY <1>2, <1>3, <1>7, <2>1 DEF Up, Awaited
  <2>3. \A p \in Loops : Lingers(proc'[i][p]) <=> Lingers(proc[i][p])
    BY <1>1, <1>2, <2>2 DEF Lingers
  <2>4. \A p \in Loops : Retries(proc'[i][p]) <=> Retries(proc[i][p])
    BY <1>1, <1>2 DEF Retries
  <2>5. Searching(i)'
    BY <1>1, <1>2, <1>7, <2>3, <2>4 DEF Searching, SameID
  <2> QED BY <1>1, <1>7, <2>5 DEF StructureOf, Up, SameID
<1>8. CASE Up(i) /\ Holding(i)
  <2> DEFINE h == mgr[i].loop
  <2>1. \A p \in Loops \ {h} : proc[i][p].pc = "off"
    BY <1>2, <1>3, <1>8 DEF Up, Awaited, Holding, Ends
  <2>2. proc[i]["main"].pc = "running" /\ proc[i]["bg"].pc = "off"
    BY <1>2, <1>3, <1>8 DEF Up, Awaited, Holding
  <2>3. \A p \in Procs \ {"main", h} : proc[i][p].pc = "off"
    BY <2>1, <2>2 DEF Procs
  <2>4. h \in Loops /\ h \in Procs /\ mgr'[i].loop = h
    BY <1>1, <1>2, <1>8 DEF Holding, SameID
  <2>5. Holding(i)'
    BY <1>1, <1>2, <1>8, <2>1, <2>2, <2>3, <2>4 DEF Holding, SameID
  <2> QED BY <1>1, <1>8, <2>5 DEF StructureOf, Up, SameID
<1> QED BY <1>4, <1>5, <1>6, <1>7, <1>8 DEF StructureOf, Up, TypeInv, ManagersOK, Manager

LEMMA StructureStep ==
    ASSUME Timely, "running" \notin StartAgainFrom,
           TypeInv, StopInv, Structure, [Next]_vars
    PROVE  Structure'
<1>1. \A i \in Instances : StructureOf(i)
  BY DEF Structure, StructureOf
<1>2. TypeInv'
  BY TypeInvStep
<1>3. ASSUME NEW i \in Instances, NEW p \in Procs,
             ProcStep(i, p) \/ Stop(i, p) \/ StartAgain(i, p),
             NEW j \in Instances
      PROVE  StructureOf(j)'
  <2>1. CASE j # i
    <3>1. mgr'[j] = mgr[j] /\ proc'[j] = proc[j]
      BY <1>3, <2>1, StepFrame DEF OthersKept
    <3> QED BY <1>1, <3>1, StructureStutters
  <2>2. CASE j = i
    <3>1. mgr[i].alive /\ mgr'[i].alive
      <4>1. mgr[i].alive
        BY <1>3, StepFrame
      <4> QED BY <1>3, <4>1, ShuttingDownKept
    <3>2. CASE Up(i)
      <4>1. Starting(i)' \/ Holding(i)' \/ Searching(i)' \/ Stop(i, p)
        BY <1>1, <1>2, <1>3, <3>2, StartingKept, HoldingKept, SearchingKept DEF StructureOf
      <4>2. CASE Stop(i, p)
        <5>1. GoroutinesOK /\ GoTo(i, p, "unreg") /\ p = "main"
          <6>1. GoroutinesOK /\ proc[i][p].pc = "running" /\ GoroutineOK(i, p, proc[i][p])
            BY <4>2 DEF Stop, At, TypeInv, GoroutinesOK
          <6> QED BY <4>2, <6>1 DEF Stop, Procs, GoroutineOK, LoopLabels, BgLabels
        <5>2. proc'[i]["main"].pc = "unreg"
          BY <5>1, GoToDoes
        <5>3. mgr'[i].shuttingDown
          BY <4>2 DEF Stop, TypeInv, ManagersOK, Manager
        <5> QED BY <2>2, <3>1, <5>2, <5>3 DEF StructureOf, Up
      <4>3. CASE (Starting(i)' \/ Holding(i)' \/ Searching(i)') /\ ~Stop(i, p)
        <5>1. ~mgr'[i].shuttingDown
          BY <1>3, <3>2, <4>3, ShuttingDownKept DEF Up
        <5> QED BY <2>2, <3>1, <4>3, <5>1 DEF StructureOf, Up
      <4> QED BY <4>1, <4>2, <4>3
    <3>3. CASE mgr[i].shuttingDown
      <4>1. mgr'[i].shuttingDown
        BY <1>3, <3>3, ShuttingDownKept
      <4>2. (Past(i) \/ proc[i]["main"].pc = "unreg")'
        BY <1>1, <1>2, <1>3, <3>1, <3>3, StoppingKept DEF StructureOf
      <4> QED BY <2>2, <3>1, <4>1, <4>2 DEF StructureOf, Up
    <3> QED BY <3>1, <3>2, <3>3 DEF Up
  <2> QED BY <2>1, <2>2
<1>4. ASSUME NEW i \in Instances, SeeExpired(i) \/ ClearHealthy(i), NEW j \in Instances
      PROVE  StructureOf(j)'
  <2>1. CASE j # i
    <3>1. mgr'[j] = mgr[j] /\ proc'[j] = proc[j]
      BY <1>4, <2>1, LookDoes DEF OthersKept
    <3> QED BY <1>1, <3>1, StructureStutters
  <2>2. CASE j = i
    BY <1>1, <1>4, <2>2, LookDoes
       DEF StructureOf, Up, KeepsManager, SameID, Starting, Holding, Searching, Past
  <2> QED BY <2>1, <2>2
<1>5. ASSUME NEW i \in Instances, Crash(i), NEW j \in Instances
      PROVE  StructureOf(j)'
  <2>1. CASE j # i
    <3>1. mgr'[j] = mgr[j] /\ proc'[j] = proc[j]
      BY <1>5, <2>1, CrashDoes DEF OthersKept
    <3> QED BY <1>1, <3>1, StructureStutters
  <2>2. CASE j = i
    BY <1>5, <2>2, CrashDoes DEF StructureOf, Up, Resting
  <2> QED BY <2>1, <2>2
<1>6. CASE UNCHANGED <<mgr, proc>>
  BY <1>1, <1>6, StructureStutters DEF Structure, StructureOf
<1>7. CASE Tick
  BY <1>1, <1>7, StructureTick DEF Structure, StructureOf
<1>8. ASSUME \A j \in Instances : StructureOf(j)' PROVE Structure'
  BY <1>8 DEF Structure, StructureOf
<1> QED BY <1>3, <1>4, <1>5, <1>6, <1>7, <1>8 DEF Next, ListMissing, RemoveMissing, vars

LEMMA StructureInit == Init => Structure
<1> SUFFICES ASSUME Init PROVE Structure
  OBVIOUS
<1> SUFFICES ASSUME NEW i \in Instances PROVE StructureOf(i)
  BY DEF Structure, StructureOf
<1>1. /\ mgr[i].alive /\ ~mgr[i].shuttingDown /\ ~mgr[i].registered /\ ~mgr[i].healthy
      /\ ~mgr[i].recovering /\ mgr[i].instanceID = NoToken
      /\ mgr[i].generatorID = mgr[i].want
  BY DEF Init
<1>2. /\ proc[i]["main"] = [Resting EXCEPT !.pc = "start"]
      /\ \A p \in Procs \ {"main"} : proc[i][p] = Resting
  BY DEF Init, Procs
<1>3. /\ proc[i]["main"].pc = "start" /\ proc[i]["main"].call = "none"
      /\ \A p \in Procs \ {"main"} : proc[i][p].pc = "off"
  BY <1>2 DEF Resting
<1> QED BY <1>1, <1>3 DEF StructureOf, Up, Starting

\* While goroutines keep their deadlines and Start is not called on a running
\* instance, each instance that is up is starting, holds a worker ID, or has exactly
\* one goroutine searching for another.
THEOREM InstancesKeepStructure ==
    ASSUME Timely, "running" \notin StartAgainFrom
    PROVE  Spec => [](TypeInv /\ StopInv /\ Structure)
<1> DEFINE Inv == TypeInv /\ StopInv /\ Structure
<1>1. Init => Inv
  BY TypeInvInit, StopInvInit, StructureInit
<1>2. Inv /\ [Next]_vars => Inv'
  BY TypeInvStep, StopInvStep, StructureStep
<1> QED BY <1>1, <1>2, PTL DEF Spec

\* "so generation is never permanently bricked": while deadlines are kept, a running
\* instance without a worker ID always has a goroutine that is after one.
THEOREM NeverBrickedInTime ==
    ASSUME Timely, "running" \notin StartAgainFrom
    PROVE  Spec => []NeverBricked
<1>1. TypeInv /\ StopInv /\ Structure => NeverBricked
  <2> SUFFICES ASSUME TypeInv, StopInv, Structure, NEW i \in Instances,
                      proc[i]["main"].pc = "running", ~mgr[i].registered
               PROVE  \E p \in Procs \ {"main"} : proc[i][p].pc \notin {"off", "idle", "exit"}
    BY DEF NeverBricked
  <2>1. /\ Loops \subseteq Procs /\ "main" \in Procs /\ "bg" \in Procs
        /\ "main" \notin Loops
    BY NamesAssumption DEF Procs
  <2>2. \A p \in Procs : GoroutineOK(i, p, proc[i][p])
    BY DEF TypeInv, GoroutinesOK
  <2>3. mgr[i].alive
    BY <2>1 DEF Structure
  <2>4. proc[i]["main"].call = "none"
    BY <2>1, <2>2 DEF GoroutineOK
  <2>5. ~mgr[i].shuttingDown
    BY <2>3, <2>4 DEF Structure, Past
  <2>6. Searching(i)
    BY <2>3, <2>5 DEF Structure, Up, Starting, Holding
  <2>7. ASSUME NEW p \in Loops, Retries(proc[i][p])
        PROVE  proc[i][p].pc \in {"try", "retry", "spawn", "sent", "replied"}
    BY <2>1, <2>2, <2>7 DEF Retries, GoroutineOK
  <2> QED BY <2>1, <2>6, <2>7 DEF Searching
<1> QED BY <1>1, InstancesKeepStructure, PTL

-----------------------------------------------------------------------------
(* Time.                                                                    *)

LEMMA TimeFacts ==
    ASSUME Prompt
    PROVE  /\ TTL \in Nat /\ HeartbeatInterval \in Nat /\ CallTimeout \in Nat /\ Pause \in Nat
           /\ TTL >= 1 /\ HeartbeatInterval >= 1 /\ CallTimeout >= 1
           /\ CallTimeout <= Pause /\ HeartbeatInterval <= Pause
           /\ Pause + CallTimeout < TTL
           /\ NoLease = -1
BY TimeAssumption DEF Prompt, Pause, NoLease

LEMMA TokensApart ==
    ASSUME NEW i \in Instances, NEW j \in Instances, i # j
    PROVE  TokensOf(i) \cap TokensOf(j) = {}
BY DEF TokensOf

LEMMA TokensAreNames ==
    ASSUME NEW i \in Instances, NEW t \in TokensOf(i)
    PROVE  t \in Tokens /\ t # NoToken
BY NamesAssumption DEF TokensOf, Tokens

\* What was owned stays owned and lives no shorter, and only who registers owns anew.
Grows(k, l) == k.owner # NoToken => l.owner = k.owner /\ l.ttl >= k.ttl
KeysGrow(q) ==
    \A w \in WorkerIDs :
        /\ Grows(key[w], key'[w])
        /\ key'[w].owner \in {key[w].owner, q.tok}
        /\ key'[w].owner # key[w].owner => q.pc = "sent" /\ q.call \in {"reg", "spec"}

LEMMA EffectGrows ==
    ASSUME TypeInv, KeysLive, NEW i \in Instances, NEW p \in Procs, proc[i][p].call # "del",
           proc[i][p].pc = "sent",
           key' = Effect(proc[i][p])
    PROVE  KeysGrow(proc[i][p]) /\ KeysLive'
<1> DEFINE q == proc[i][p]
           T == Tokens \union {NoToken}
           mine == [owner |-> q.tok, ttl |-> TTL]
<1>1. /\ key \in [WorkerIDs -> [owner : T, ttl : 0 .. TTL]] /\ TTL \in Nat /\ TTL >= 1
      /\ q \in Proc /\ GoroutineOK(i, p, q)
  BY TimeAssumption DEF TypeInv, RedisOK, GoroutinesOK
<1>2. CASE key' = key
  BY <1>1, <1>2 DEF KeysGrow, KeysLive, Grows
<1>3. CASE key' # key
  <2>1. /\ key' = [key EXCEPT ![q.wid] = mine]
        /\ \/ q.call \in {"reg", "spec"} /\ key[q.wid].owner = NoToken
           \/ key[q.wid].owner = q.tok
    BY <1>3 DEF Effect, Free, Owned
  <2> HIDE DEF q
  <2>2. mine.owner = q.tok /\ mine.ttl = TTL
    OBVIOUS
  <2> HIDE DEF mine
  <2>3. ASSUME NEW w \in WorkerIDs, w # q.wid PROVE key'[w] = key[w]
    BY <1>1, <2>1, <2>3
  <2>4. q.wid \in WorkerIDs => key'[q.wid] = mine
    BY <1>1, <2>1
  <2>5. \A w \in WorkerIDs : key[w].ttl \in 0 .. TTL
    BY <1>1
  <2>6. KeysLive'
    BY <1>1, <2>2, <2>3, <2>4 DEF KeysLive
  <2>7. ASSUME NEW w \in WorkerIDs
        PROVE  /\ Grows(key[w], key'[w])
               /\ key'[w].owner \in {key[w].owner, q.tok}
               /\ key'[w].owner # key[w].owner => q.call \in {"reg", "spec"}
    <3>1. CASE w = q.wid
      <4>1. key'[w].owner = q.tok /\ key'[w].ttl = TTL
        BY <2>2, <2>4, <3>1
      <4>2. key[w].ttl \in 0 .. TTL
        BY <2>5
      <4> QED BY <1>1, <2>1, <3>1, <4>1, <4>2 DEF Grows
    <3>2. CASE w # q.wid
      BY <1>1, <2>3, <2>5, <3>2 DEF Grows
    <3> QED BY <3>1, <3>2
  <2>8. q.pc = "sent"
    BY DEF q
  <2>9. KeysGrow(q)
    BY <2>7, <2>8 DEF KeysGrow
  <2> QED BY <2>6, <2>9 DEF q
<1> QED BY <1>2, <1>3

\* Only Redis changes the keys.
LEMMA OnlyCallsChangeKeys ==
    ASSUME NEW i \in Instances, NEW p \in Procs,
           ProcStep(i, p) \/ Stop(i, p) \/ StartAgain(i, p)
    PROVE  \/ key' = key
           \/ Execute(i, p) /\ key' = Effect(proc[i][p])
           \/ CallFails(i, p) /\ key' = Effect(proc[i][p])
<1>1. CASE Execute(i, p)
  BY <1>1 DEF Execute
<1>2. CASE CallFails(i, p)
  BY <1>2 DEF CallFails
<1>3. CASE HeartbeatStep(i, p)
  BY <1>3 DEF HeartbeatStep, SendHeartbeat, HeartbeatUnregistered, HeartbeatReply,
     StoreHealthy, LoopEnds, TryReRegister, ReRegisterReply, Reacquire, SpawnRecovery, redis
<1>4. CASE RecoveryStep(i, p)
  BY <1>4 DEF RecoveryStep, StopTrying, RecoveryNotNeeded, RecoveryWakes, RecoveryEnds, redis
<1>5. CASE RegisterStep(i, p)
  BY <1>5 DEF RegisterStep, RegisterRefused, AlreadyRegistered, DrawWorkerID, DrawFails,
     RegisterSucceeds, WorkerIDTaken, AllOccupied, RegisterErrs, Commit, redis
<1>6. CASE LifecycleStep(i, p)
  BY <1>6 DEF LifecycleStep, Start, SpecificSucceeds, SpecificFails, StartSetsGenerator,
     Unregister, UnregisterGetReply, UnregisterDelReply, GeneratorShutdown, Commit, redis
<1>7. CASE Stop(i, p) \/ StartAgain(i, p)
  BY <1>7 DEF Stop, StartAgain, redis
<1> QED BY <1>1, <1>2, <1>3, <1>4, <1>5, <1>6, <1>7 DEF ProcStep

LEMMA StepGrowsKeys ==
    ASSUME TypeInv, KeysLive, NEW i \in Instances, NEW p \in Procs,
           proc[i][p].call # "del",
           ProcStep(i, p) \/ Stop(i, p) \/ StartAgain(i, p)
    PROVE  KeysGrow(proc[i][p]) /\ KeysLive'
<1>1. CASE key' = key
  <2>1. \A w \in WorkerIDs : key[w].ttl \in Nat
    BY TimeAssumption DEF TypeInv, RedisOK
  <2> QED BY <1>1, <2>1 DEF KeysGrow, KeysLive, Grows
<1>2. CASE key' # key
  <2>1. key' = Effect(proc[i][p]) /\ proc[i][p].pc = "sent"
    BY <1>2, OnlyCallsChangeKeys DEF Execute, CallFails, At
  <2> QED BY <2>1, EffectGrows
<1> QED BY <1>1, <1>2

\* A growing key keeps what is known of it.
LEMMA AnswerStaysFresh ==
    ASSUME NEW q, NEW k, NEW l, AnswerFresh(q, k), Grows(k, l),
           q.clk \in Nat, k.ttl \in Nat, l.ttl \in Nat, TTL \in Nat
    PROVE  AnswerFresh(q, l)
BY DEF AnswerFresh, Grows

LEMMA HolderStaysOK ==
    ASSUME NEW m, NEW q, NEW k, NEW l, HolderOK(m, q, k), Grows(k, l),
           m.instanceID # NoToken, l.owner = m.instanceID => k.owner = m.instanceID,
           q.clk \in Nat, k.ttl \in Nat, l.ttl \in Nat, TTL \in Nat, Pause \in Nat,
           m.lease \in Int, CallTimeout \in Nat
    PROVE  HolderOK(m, q, l)
<1>1. q.pc = "up" => l.owner = m.instanceID /\ l.ttl + q.clk >= TTL
  BY DEF HolderOK, Grows
<1>2. l.owner = m.instanceID => m.lease <= l.ttl + CallTimeout
  BY DEF HolderOK, Grows
<1>3. m.healthy /\ m.lease # 0 =>
         /\ l.owner = m.instanceID
         /\ m.lease <= l.ttl \/ l.ttl + q.clk + (IF q.call = "hb" THEN Pause ELSE 0) >= TTL
  BY DEF HolderOK, Grows
<1> QED BY <1>1, <1>2, <1>3 DEF HolderOK

LEMMA EndingStaysOK ==
    ASSUME NEW m, NEW q, NEW k, NEW l, EndingOK(m, q, k), Grows(k, l),
           m.instanceID # NoToken, k.ttl \in Nat, l.ttl \in Nat, m.lease \in Int
    PROVE  EndingOK(m, q, l)
BY DEF EndingOK, Grows

\* What Timing says of one instance.
TimeOf(i) ==
    /\ \A p \in Procs : /\ ClockOK(proc[i][p])
                        /\ AnswerFresh(proc[i][p], key[proc[i][p].wid])
    /\ LeaseInTime(i)

\* The numbers of the state.
LEMMA NumbersOK ==
    ASSUME TypeInv, NEW i \in Instances
    PROVE  /\ mgr[i].lease \in Int /\ mgr[i].lease <= TTL
           /\ \A w \in WorkerIDs : key[w].ttl \in Nat /\ key[w].ttl <= TTL
           /\ \A p \in Procs : proc[i][p].clk \in Nat /\ proc[i][p].clk <= TTL
           /\ mgr[i].registered => mgr[i].workerID \in WorkerIDs /\ mgr[i].instanceID # NoToken
<1>1. TTL \in Nat /\ NoLease \in Int
  BY TimeAssumption DEF NoLease
<1>2. mgr[i] \in Manager /\ ManagerOK(i, mgr[i])
  BY DEF TypeInv, ManagersOK
<1>3. mgr[i].lease \in NoLease .. TTL
  BY <1>2 DEF Manager
<1>4. \A p \in Procs : proc[i][p].clk \in 0 .. TTL
  BY DEF TypeInv, GoroutinesOK, Proc
<1>5. \A w \in WorkerIDs : key[w].ttl \in 0 .. TTL
  BY DEF TypeInv, RedisOK
<1>6. mgr[i].registered => mgr[i].workerID \in WorkerIDs /\ mgr[i].instanceID # NoToken
  BY <1>2 DEF ManagerOK
<1> QED BY <1>1, <1>3, <1>4, <1>5, <1>6

LEMMA NextNumbersOK ==
    ASSUME TypeInv'
    PROVE  \A w \in WorkerIDs : key'[w].ttl \in Nat
BY TimeAssumption DEF TypeInv, RedisOK

\* A step of another instance, or of a goroutine that leaves i's timing alone.
LEMMA TimeStutters ==
    ASSUME Prompt, TypeInv, TypeInv', NEW i \in Instances, TimeOf(i),
           mgr'[i] = mgr[i], proc'[i] = proc[i],
           \A w \in WorkerIDs : Grows(key[w], key'[w]),
           \A w \in WorkerIDs : key'[w].owner = mgr[i].instanceID => 
                \/ key[w].owner = mgr[i].instanceID
                \/ ~mgr[i].registered
    PROVE  TimeOf(i)'
<1>1. /\ TTL \in Nat /\ Pause \in Nat /\ CallTimeout \in Nat
      /\ mgr[i].lease \in Int
      /\ \A w \in WorkerIDs : key[w].ttl \in Nat /\ key'[w].ttl \in Nat
      /\ \A p \in Procs : proc[i][p].clk \in Nat
      /\ mgr[i].registered => mgr[i].workerID \in WorkerIDs /\ mgr[i].instanceID # NoToken
  BY TimeFacts, NumbersOK, NextNumbersOK
<1>2. ASSUME NEW p \in Procs
      PROVE  AnswerFresh(proc'[i][p], key'[proc'[i][p].wid])
  <2>1. proc[i][p].call # "none" => proc[i][p].wid \in WorkerIDs
    BY DEF TypeInv, GoroutinesOK, GoroutineOK
  <2>2. CASE proc[i][p].wid \in WorkerIDs
    BY <1>1, <2>2, AnswerStaysFresh DEF TimeOf
  <2>3. CASE proc[i][p].call = "none"
    BY <2>3 DEF AnswerFresh
  <2> QED BY <2>1, <2>2, <2>3
<1>3. ASSUME mgr[i].registered
      PROVE  /\ HolderOK(mgr[i], proc[i][mgr[i].loop], key'[mgr[i].workerID])
             /\ \A p \in Loops \ {mgr[i].loop} :
                    EndingOK(mgr[i], proc[i][p], key'[mgr[i].workerID])
  <2>1. mgr[i].loop \in Procs /\ Loops \subseteq Procs
    BY <1>3 DEF TypeInv, ManagersOK, ManagerOK, Manager, Procs
  <2>2. HolderOK(mgr[i], proc[i][mgr[i].loop], key'[mgr[i].workerID])
    BY <1>1, <1>3, <2>1, HolderStaysOK DEF TimeOf, LeaseInTime
  <2>3. ASSUME NEW p \in Loops \ {mgr[i].loop}
        PROVE  EndingOK(mgr[i], proc[i][p], key'[mgr[i].workerID])
    BY <1>1, <1>3, <2>1, EndingStaysOK DEF TimeOf, LeaseInTime
  <2> QED BY <2>2, <2>3
<1>4. LeaseInTime(i)'
  BY <1>3 DEF LeaseInTime
<1> QED BY <1>2, <1>4 DEF TimeOf

\* One goroutine acts and the registration stays the same.
LEMMA TimeChanges ==
    ASSUME Prompt, TypeInv, TypeInv', NEW i \in Instances, NEW p \in Procs, TimeOf(i),
           RestKept(i, p),
           \A w \in WorkerIDs : Grows(key[w], key'[w]),
           ClockOK(proc'[i][p]),
           AnswerFresh(proc'[i][p], key'[proc'[i][p].wid]),
           LeaseInTime(i)'
    PROVE  TimeOf(i)'
<1>1. /\ TTL \in Nat
      /\ \A w \in WorkerIDs : key[w].ttl \in Nat /\ key'[w].ttl \in Nat
      /\ \A r \in Procs : proc[i][r].clk \in Nat
  BY TimeFacts, NumbersOK, NextNumbersOK
<1>2. ASSUME NEW r \in Procs \ {p}
      PROVE  /\ ClockOK(proc'[i][r])
             /\ AnswerFresh(proc'[i][r], key'[proc'[i][r].wid])
  <2>1. proc'[i][r] = proc[i][r]
    BY DEF RestKept
  <2>2. proc[i][r].call # "none" => proc[i][r].wid \in WorkerIDs
    BY DEF TypeInv, GoroutinesOK, GoroutineOK
  <2>3. CASE proc[i][r].wid \in WorkerIDs
    BY <1>1, <2>1, <2>3, AnswerStaysFresh DEF TimeOf
  <2>4. CASE proc[i][r].call = "none"
    BY <2>1, <2>4 DEF AnswerFresh, TimeOf
  <2> QED BY <2>2, <2>3, <2>4
<1> QED BY <1>2 DEF TimeOf

\* The lease of a registration counts from before its SetNX, so the key outlives it.
LEMMA CommitInTime ==
    ASSUME Prompt, TypeInv, TypeInv', NEW i \in Instances, NEW p \in Procs, NEW g, NEW n,
           TimeOf(i), Commit(i, p, g, n), ~mgr[i].registered,
           proc[i][p].pc = "replied", proc[i][p].ans = "ok",
           proc[i][p].call \in {"reg", "spec"},
           n.pc \notin {"replied", "sent"}, n.clk = 0,
           \A r \in Loops \ {p} : proc[i][r].pc = "off" \/ Lingers(proc[i][r])
    PROVE  TimeOf(i)'
<1> DEFINE q == proc[i][p]
           l == mgr'[i].loop
           k == key[q.wid]
<1>1. mgr[i].loop = NoLoop
  BY DEF TypeInv, ManagersOK, ManagerOK
<1>2. /\ key' = key
      /\ l \in Loops /\ l # p
      /\ proc'[i][l].pc = "idle" /\ proc'[i][l].clk = 0 /\ proc'[i][l].call = "none"
      /\ proc'[i][p] = n
      /\ \A r \in Procs \ {p, l} : proc'[i][r] = proc[i][r]
      /\ mgr'[i].workerID = q.wid /\ mgr'[i].registered
      /\ mgr'[i].instanceID = q.tok /\ mgr'[i].lease = TTL - q.clk
  BY <1>1, CommitDoes
<1>3. /\ TTL \in Nat /\ CallTimeout \in Nat /\ Pause \in Nat /\ NoLease = -1
      /\ q.clk \in Nat /\ q.clk <= TTL /\ k.ttl \in Nat
      /\ Loops \subseteq Procs
  <2>1. q.wid \in WorkerIDs
    BY DEF TypeInv, GoroutinesOK, GoroutineOK
  <2> QED BY <2>1, TimeFacts, NumbersOK DEF Procs
<1>4. q.tok # NoToken /\ k.owner = q.tok /\ k.ttl + q.clk >= TTL
  BY DEF TimeOf, AnswerFresh
<1>5. ASSUME NEW r \in Procs
      PROVE  /\ ClockOK(proc'[i][r])
             /\ AnswerFresh(proc'[i][r], key'[proc'[i][r].wid])
  <2>1. CASE r \in {p, l}
    BY <1>2, <1>3, <2>1 DEF ClockOK, AnswerFresh
  <2>2. CASE r \notin {p, l}
    BY <1>2, <2>2 DEF TimeOf
  <2> QED BY <2>1, <2>2
<1>6. HolderOK(mgr'[i], proc'[i][l], k)
  BY <1>2, <1>3, <1>4 DEF HolderOK
<1>7. ASSUME NEW r \in Loops \ {l} PROVE EndingOK(mgr'[i], proc'[i][r], k)
  BY <1>2, <1>3, <1>4 DEF EndingOK
<1>8. LeaseInTime(i)'
  BY <1>2, <1>6, <1>7 DEF LeaseInTime
<1> QED BY <1>5, <1>8 DEF TimeOf

\* The lease of a registered manager m over a beat: sent, answered, and stored.
LEMMA BeatSent ==
    ASSUME Prompt, NEW m, NEW q, NEW n, NEW k, HolderOK(m, q, k),
           q.pc = "idle", q.call = "none", q.clk \in Nat, q.clk <= Pause,
           n.pc = "sent", n.call = "hb", n.clk = 0, k.ttl \in Nat, m.lease \in Int
    PROVE  HolderOK(m, n, k)
<1>1. TTL \in Nat /\ Pause \in Nat
  BY TimeFacts
<1>2. m.healthy /\ m.lease # 0 => k.owner = m.instanceID
                                 /\ (m.lease <= k.ttl \/ k.ttl + q.clk >= TTL)
  BY <1>1 DEF HolderOK
<1>3. m.healthy /\ m.lease # 0 => m.lease <= k.ttl \/ k.ttl + n.clk + Pause >= TTL
  BY <1>1, <1>2
<1> QED BY <1>2, <1>3 DEF HolderOK

LEMMA LeaseRenewed ==
    ASSUME Prompt, NEW m, NEW n, NEW k, k.owner = m.instanceID, k.ttl + n.clk >= TTL,
           n.clk \in Nat, n.clk <= CallTimeout, k.ttl \in Nat,
           n.pc = "up", n.call = "none", m.lease = TTL
    PROVE  HolderOK(m, n, k)
<1>1. TTL \in Nat /\ TTL >= 1 /\ CallTimeout \in Nat /\ NoLease = -1
  BY TimeFacts
<1>2. m.lease # NoLease /\ m.lease <= k.ttl + CallTimeout
  BY <1>1
<1>3. k.ttl + n.clk + (IF n.call = "hb" THEN Pause ELSE 0) >= TTL
  BY <1>1
<1> QED BY <1>2, <1>3 DEF HolderOK

LEMMA HealthStored ==
    ASSUME Prompt, NEW m, NEW M, NEW q, NEW n, NEW k, HolderOK(m, q, k), SameID(m, M),
           M.lease = m.lease, q.pc = "up", n.pc = "idle", n.call = "none", n.clk = q.clk,
           q.clk \in Nat, k.ttl \in Nat, m.lease \in Int
    PROVE  HolderOK(M, n, k)
<1>1. TTL \in Nat
  BY TimeFacts
<1>2. /\ k.owner = M.instanceID /\ k.ttl + n.clk >= TTL
      /\ M.lease # NoLease /\ (k.owner = M.instanceID => M.lease <= k.ttl + CallTimeout)
  BY DEF HolderOK, SameID
<1>3. k.ttl + n.clk + (IF n.call = "hb" THEN Pause ELSE 0) >= TTL
  BY <1>1, <1>2
<1> QED BY <1>2, <1>3 DEF HolderOK

LEMMA HoldingInTime ==
    ASSUME Prompt, TypeInv, TypeInv', StopInv, KeysLive,
           NEW i \in Instances, Up(i), Holding(i), TimeOf(i), NEW p \in Procs,
           ProcStep(i, p) \/ Stop(i, p) \/ StartAgain(i, p)
    PROVE  TimeOf(i)'
<1> DEFINE m == mgr[i]
           h == m.loop
           w == m.workerID
           q == proc[i][h]
           k == key[w]
           M == mgr'[i]
           n == proc'[i][h]
           l == key'[w]
<1>1. /\ h \in Loops /\ h \in Procs /\ Loops \subseteq Procs /\ m.registered
      /\ w \in WorkerIDs /\ m.instanceID # NoToken /\ "running" \notin StartAgainFrom
      /\ "main" \notin Loops /\ "bg" \notin Loops /\ ~MayStop
  BY NumbersOK, NamesAssumption DEF Holding, Procs, Prompt
<1>2. /\ TTL \in Nat /\ CallTimeout \in Nat /\ Pause \in Nat /\ NoLease = -1
      /\ CallTimeout <= Pause /\ TTL >= 1
      /\ m.lease \in Int /\ m.lease <= TTL
      /\ k.ttl \in Nat /\ l.ttl \in Nat
      /\ \A r \in Procs : proc[i][r].clk \in Nat
  BY <1>1, TimeFacts, NumbersOK, NextNumbersOK
<1>3. GoroutineOK(i, p, proc[i][p]) /\ GoroutineOK(i, h, q) /\ GoroutineOK(i, h, n)
      /\ GoroutineOK(i, p, proc'[i][p])
  <2>1. GoroutinesOK /\ GoroutinesOK'
    BY DEF TypeInv
  <2> QED BY <1>1, <2>1 DEF GoroutinesOK
<1>4. proc[i][p].call \notin {"del", "reg", "spec"} /\ proc[i][p].pc # "spawn"
  BY <1>1, <1>3 DEF Holding, Ends, Lingers, Procs, GoroutineOK
<1>5. RestKept(i, p)
  BY <1>4, StepFrame DEF SpawnRecovery, RegisterSucceeds, SpecificSucceeds, At, Answered
<1>6. KeysGrow(proc[i][p]) /\ Grows(k, l) /\ l.owner = k.owner
      /\ \A v \in WorkerIDs : Grows(key[v], key'[v])
  BY <1>1, <1>4, StepGrowsKeys DEF KeysGrow
<1>7. /\ HolderOK(m, q, k) /\ \A r \in Loops \ {h} : EndingOK(m, proc[i][r], k)
      /\ ClockOK(q) /\ AnswerFresh(q, key[q.wid])
  BY <1>1 DEF TimeOf, LeaseInTime
<1>8. q.call # "none" => q.wid = w /\ q.tok = m.instanceID
  BY DEF Holding
<1>9. mgr' = mgr => SameID(m, M) /\ M.healthy = m.healthy /\ M.lease = m.lease
  BY DEF SameID
<1>10. CASE p = h
  <2>1. \A r \in Loops \ {h} : proc'[i][r].pc = "off"
    <3>1. \A r \in Procs \ {"main", h} : proc[i][r].pc = "off"
      BY <1>1, <1>10, HolderActsAlone
    <3> QED BY <1>1, <1>5, <1>10, <3>1 DEF RestKept
  <2>2. ASSUME SameID(m, M), HolderOK(M, n, l) PROVE LeaseInTime(i)'
    BY <2>1, <2>2 DEF LeaseInTime, SameID, EndingOK
  <2>3. ASSUME SameID(m, M), HolderOK(M, n, l), ClockOK(n),
               n.pc # "replied" \/ AnswerFresh(n, l), n.call # "none" => n.wid = w
        PROVE  TimeOf(i)'
    <3>1. LeaseInTime(i)'
      BY <2>2, <2>3
    <3>2. AnswerFresh(n, key'[n.wid])
      BY <1>3, <2>3 DEF AnswerFresh, GoroutineOK
    <3> QED BY <1>5, <1>6, <1>10, <2>3, <3>1, <3>2, TimeChanges
  <2>4. n.pc \in {"idle", "up", "rereg", "reacquire"} => n.call = "none"
    BY <1>3 DEF GoroutineOK
  <2>5. CASE Execute(i, p) \/ CallFails(i, p)
    <3>1. mgr' = mgr /\ q.pc = "sent"
      BY <1>10, <2>5 DEF Execute, CallFails, At
    <3>2. PICK a : /\ Answer(i, p, a)
                   /\ a = "ok" => a = Reply(q) /\ key' = Effect(q)
      BY <1>10, <2>5 DEF Execute, CallFails
    <3>3. /\ n.pc = "replied" /\ n.ans = a /\ n.call = q.call /\ n.wid = q.wid
          /\ n.tok = q.tok /\ n.clk = q.clk
      BY <1>10, <3>2, AnswerDoes DEF TypeInv
    <3>4. HolderOK(m, n, k)
      BY <1>7, <3>1, <3>3 DEF HolderOK
    <3>5. HolderOK(M, n, l)
      BY <1>1, <1>2, <1>6, <3>1, <3>3, <3>4, HolderStaysOK
    <3>6. ClockOK(n)
      BY <1>7, <3>1, <3>3 DEF ClockOK
    <3>7. AnswerFresh(n, l)
      <4>1. SUFFICES ASSUME a = "ok" PROVE n.tok # NoToken /\ l.owner = n.tok /\ l.ttl + n.clk >= TTL
        BY <3>3 DEF AnswerFresh
      <4>2. q.call \in {"hb", "rr"} /\ q.wid = w /\ q.tok = m.instanceID
        BY <1>3, <3>1 DEF Holding, GoroutineOK
      <4>3. Owned(q)
        BY <3>2, <4>1, <4>2 DEF Reply
      <4>4. key' = [key EXCEPT ![q.wid] = [owner |-> q.tok, ttl |-> TTL]]
        BY <3>2, <4>1, <4>2, <4>3 DEF Effect
      <4>5. l = [owner |-> q.tok, ttl |-> TTL]
        BY <1>1, <4>2, <4>4 DEF TypeInv, RedisOK
      <4> QED BY <1>1, <1>2, <3>3, <4>2, <4>5
    <3> QED BY <1>8, <1>9, <2>3, <3>1, <3>3, <3>5, <3>6, <3>7
  <2>6. CASE SendHeartbeat(i, p)
    <3>1. /\ mgr' = mgr /\ key' = key /\ q.pc = "idle" /\ n.pc = "sent" /\ n.call = "hb"
          /\ n.wid = w /\ n.clk = 0
      BY <1>10, <2>6, SendHeartbeatDoes
    <3>2. q.clk <= Pause /\ q.call = "none"
      BY <1>3, <1>7, <3>1 DEF ClockOK, GoroutineOK
    <3>3. HolderOK(M, n, l)
      BY <1>1, <1>2, <1>7, <3>1, <3>2, BeatSent
    <3>4. ClockOK(n)
      BY <1>2, <3>1 DEF ClockOK
    <3> QED BY <1>9, <2>3, <3>1, <3>3, <3>4
  <2>7. CASE HeartbeatReply(i, p)
    <3>1. /\ q.pc = "replied" /\ q.call = "hb" /\ key' = key
          /\ SameID(m, M) /\ n.clk = q.clk
          /\ \/ q.ans = "ok" /\ n.pc = "up" /\ M.healthy = m.healthy /\ M.lease = TTL
             \/ n.pc \in {"rereg", "idle"} /\ ~M.healthy /\ M.lease = m.lease
      BY <1>10, <2>7, HeartbeatReplyDoes
    <3>2. ClockOK(n) /\ q.clk <= CallTimeout
      BY <1>2, <1>7, <1>10, <3>1 DEF ClockOK
    <3>3. HolderOK(M, n, l)
      <4>1. CASE q.ans = "ok" /\ n.pc = "up" /\ M.healthy = m.healthy /\ M.lease = TTL
        <5>1. k.owner = m.instanceID /\ k.ttl + q.clk >= TTL
          BY <1>7, <1>8, <3>1, <4>1 DEF AnswerFresh
        <5> QED BY <1>1, <1>2, <2>4, <3>1, <3>2, <4>1, <5>1, LeaseRenewed DEF SameID
      <4>2. CASE n.pc \in {"rereg", "idle"} /\ ~M.healthy /\ M.lease = m.lease
        BY <1>7, <3>1, <4>2 DEF HolderOK, SameID
      <4> QED BY <3>1, <4>1, <4>2
    <3> QED BY <2>3, <2>4, <3>1, <3>2, <3>3
  <2>8. CASE StoreHealthy(i, p)
    <3>1. /\ q.pc = "up" /\ n.pc = "idle" /\ n.clk = q.clk /\ SameID(m, M) /\ M.healthy
          /\ M.lease = m.lease /\ key' = key
      BY <1>10, <2>8, StoreHealthyDoes
    <3>2. ClockOK(n)
      BY <1>2, <1>7, <1>10, <3>1 DEF ClockOK
    <3>3. HolderOK(M, n, l)
      BY <1>1, <1>2, <1>7, <2>4, <3>1, HealthStored
    <3> QED BY <2>3, <2>4, <3>1, <3>2, <3>3
  <2>9. CASE TryReRegister(i, p)
    <3>1. /\ mgr' = mgr /\ key' = key /\ q.pc = "rereg"
          /\ \/ n.pc = "sent" /\ n.call = "rr" /\ n.wid = w /\ n.clk = 0
             \/ n.pc = "idle" /\ n.clk = q.clk
      BY <1>10, <2>9, TryReRegisterDoes
    <3>2. ClockOK(n)
      BY <1>2, <1>7, <1>10, <3>1 DEF ClockOK
    <3>3. HolderOK(M, n, l)
      BY <1>2, <1>7, <3>1 DEF HolderOK
    <3> QED BY <1>9, <2>3, <2>4, <3>1, <3>2, <3>3
  <2>10. CASE ReRegisterReply(i, p)
    <3>1. /\ q.pc = "replied" /\ q.call = "rr" /\ key' = key
          /\ SameID(m, M) /\ M.healthy = m.healthy /\ n.clk = q.clk
          /\ \/ q.ans = "ok" /\ n.pc = "up" /\ M.lease = TTL
             \/ n.pc \in {"idle", "reacquire"} /\ M.lease = m.lease
      BY <1>10, <2>10, ReRegisterReplyDoes
    <3>2. ClockOK(n) /\ q.clk <= CallTimeout /\ ~m.healthy
      BY <1>2, <1>7, <1>10, <3>1 DEF ClockOK, HolderOK
    <3>3. HolderOK(M, n, l)
      <4>1. CASE q.ans = "ok" /\ n.pc = "up" /\ M.lease = TTL
        <5>1. k.owner = m.instanceID /\ k.ttl + q.clk >= TTL
          BY <1>7, <1>8, <3>1, <4>1 DEF AnswerFresh
        <5> QED BY <1>1, <1>2, <2>4, <3>1, <3>2, <4>1, <5>1, LeaseRenewed DEF SameID
      <4>2. CASE n.pc \in {"idle", "reacquire"} /\ M.lease = m.lease
        BY <1>7, <3>1, <3>2, <4>2 DEF HolderOK, SameID
      <4> QED BY <3>1, <4>1, <4>2
    <3> QED BY <2>3, <2>4, <3>1, <3>2, <3>3
  <2>11. CASE Reacquire(i, p)
    <3>1. ~M.registered /\ n.pc = "try"
      BY <1>10, <2>11, ReacquireDoes
    <3>2. LeaseInTime(i)'
      BY <3>1 DEF LeaseInTime
    <3>3. ClockOK(n) /\ AnswerFresh(n, key'[n.wid])
      BY <3>1 DEF ClockOK, AnswerFresh
    <3> QED BY <1>5, <1>6, <1>10, <3>2, <3>3, TimeChanges
  <2> QED BY <1>1, <1>10, <2>5, <2>6, <2>7, <2>8, <2>9, <2>10, <2>11, HoldingSteps
<1>11. CASE p # h
  <2> DEFINE r == proc[i][p]
             s == proc'[i][p]
  <2>1. n = q
    BY <1>1, <1>5, <1>11 DEF RestKept
  <2>2. CASE p \in Loops
    <3>1. /\ key' = key /\ SameID(m, M) /\ M.lease = m.lease
          /\ \/ s.pc = "off" /\ M.healthy = m.healthy
             \/ r.pc = "up" /\ s.pc = "idle" /\ s.clk = r.clk /\ M.healthy
      BY <1>1, <1>9, <1>11, <2>2, HoldingSteps, StoreHealthyDoes
    <3>2. ClockOK(s)
      BY <1>2, <3>1 DEF ClockOK, TimeOf
    <3>3. AnswerFresh(s, key'[s.wid])
      BY <3>1 DEF AnswerFresh
    <3>4. Lingers(q) /\ q.call = "none"
      <4>1. r.pc # "off"
        BY StepFrame
      <4>2. p \in Procs \ {"main", h}
        BY <1>1, <1>11, <2>2
      <4> QED BY <1>3, <4>1, <4>2 DEF Holding, Lingers, GoroutineOK
    <3>5. HolderOK(M, n, l)
      <4>1. CASE M.healthy = m.healthy
        BY <1>7, <2>1, <3>1, <4>1 DEF HolderOK, SameID
      <4>2. CASE r.pc = "up" /\ M.healthy
        <5>1. k.owner = m.instanceID /\ m.lease <= k.ttl
          BY <1>7, <1>11, <2>2, <4>2 DEF EndingOK
        <5> QED BY <1>7, <2>1, <3>1, <3>4, <4>2, <5>1 DEF HolderOK, SameID, Lingers
      <4> QED BY <3>1, <4>1, <4>2
    <3>6. ASSUME NEW x \in Loops \ {h} PROVE EndingOK(M, proc'[i][x], l)
      <4>1. x # p => proc'[i][x] = proc[i][x]
        BY <1>1, <1>5 DEF RestKept
      <4> QED BY <1>7, <3>1, <4>1 DEF EndingOK, SameID
    <3>7. LeaseInTime(i)'
      BY <3>1, <3>5, <3>6 DEF LeaseInTime, SameID
    <3> QED BY <1>5, <1>6, <3>2, <3>3, <3>7, TimeChanges
  <2>3. CASE p \notin Loops
    <3>1. key' = key /\ SameID(m, M) /\ M.lease = m.lease /\ M.healthy = m.healthy
          /\ s.pc \in {"off", "running"}
      <4>1. CASE p = "main"
        <5>1. StartSetsGenerator(i, p)
          BY <1>1, <2>3, <4>1, HoldingSteps DEF Stop
        <5> QED BY <4>1, <5>1, StartSetsGeneratorDoes DEF Holding
      <4>2. CASE p = "bg"
        <5>1. RecoveryEnds(i, p)
          BY <1>1, <2>3, <4>2, HoldingSteps, NamesAssumption
        <5> QED BY <5>1, RecoveryEndsDoes
      <4> QED BY <2>3, <4>1, <4>2 DEF Procs
    <3>2. ClockOK(s) /\ AnswerFresh(s, key'[s.wid])
      BY <3>1 DEF ClockOK, AnswerFresh
    <3>3. HolderOK(M, n, l)
      BY <1>7, <2>1, <3>1 DEF HolderOK, SameID
    <3>4. ASSUME NEW x \in Loops \ {h} PROVE EndingOK(M, proc'[i][x], l)
      <4>1. proc'[i][x] = proc[i][x]
        BY <1>1, <1>5, <2>3 DEF RestKept
      <4> QED BY <1>7, <3>1, <4>1 DEF EndingOK, SameID
    <3>5. LeaseInTime(i)'
      BY <3>1, <3>3, <3>4 DEF LeaseInTime, SameID
    <3> QED BY <1>5, <1>6, <3>2, <3>5, TimeChanges
  <2> QED BY <2>2, <2>3
<1> QED BY <1>10, <1>11

\* An instance without a registration has only its calls and clocks to keep.
LEMMA UnregisteredInTime ==
    ASSUME Prompt, TypeInv, TypeInv', NEW i \in Instances, NEW p \in Procs, TimeOf(i),
           RestKept(i, p), ~mgr'[i].registered,
           \A w \in WorkerIDs : Grows(key[w], key'[w]),
           \/ proc'[i][p].pc \notin {"idle", "sent", "replied", "up", "rereg"}
           \/ proc'[i][p].pc = "sent" /\ proc'[i][p].clk = 0
    PROVE  TimeOf(i)'
<1>1. CallTimeout \in Nat
  BY TimeFacts
<1>2. ClockOK(proc'[i][p]) /\ AnswerFresh(proc'[i][p], key'[proc'[i][p].wid])
  BY <1>1 DEF ClockOK, AnswerFresh
<1>3. LeaseInTime(i)'
  BY DEF LeaseInTime
<1> QED BY <1>2, <1>3, TimeChanges

\* A SetNX that created its key has started the key's time to live.
LEMMA RegistrationAnswered ==
    ASSUME Prompt, TypeInv, TypeInv', NEW i \in Instances, NEW p \in Procs, TimeOf(i),
           RestKept(i, p), ~mgr[i].registered,
           \A w \in WorkerIDs : Grows(key[w], key'[w]),
           Execute(i, p) \/ CallFails(i, p), proc[i][p].call \in {"reg", "spec"}
    PROVE  TimeOf(i)'
<1> DEFINE q == proc[i][p]
           n == proc'[i][p]
<1>1. mgr' = mgr /\ q.pc = "sent"
  BY DEF Execute, CallFails, At
<1>2. PICK a : /\ Answer(i, p, a)
               /\ a = "ok" => a = Reply(q) /\ key' = Effect(q)
  BY DEF Execute, CallFails
<1>3. /\ n.pc = "replied" /\ n.ans = a /\ n.call = q.call /\ n.wid = q.wid
      /\ n.tok = q.tok /\ n.clk = q.clk
  BY <1>2, AnswerDoes DEF TypeInv
<1>4. ClockOK(n)
  BY <1>1, <1>3 DEF TimeOf, ClockOK
<1>5. AnswerFresh(n, key'[n.wid])
  <2>1. SUFFICES ASSUME a = "ok"
                 PROVE  LET l == key'[q.wid] IN
                        q.tok # NoToken /\ l.owner = q.tok /\ l.ttl + q.clk >= TTL
    BY <1>3 DEF AnswerFresh
  <2>2. q.wid \in WorkerIDs /\ q.tok # NoToken /\ q.clk \in Nat /\ TTL \in Nat
    BY NumbersOK, TimeFacts DEF TypeInv, GoroutinesOK, GoroutineOK
  <2>3. Free(q)
    BY <1>2, <2>1 DEF Reply
  <2>4. key' = [key EXCEPT ![q.wid] = [owner |-> q.tok, ttl |-> TTL]]
    BY <1>2, <2>1, <2>3 DEF Effect
  <2>5. key'[q.wid] = [owner |-> q.tok, ttl |-> TTL]
    BY <2>2, <2>4 DEF TypeInv, RedisOK
  <2> QED BY <2>2, <2>5
<1>6. LeaseInTime(i)'
  BY <1>1 DEF LeaseInTime
<1> QED BY <1>4, <1>5, <1>6, TimeChanges

LEMMA StartingInTime ==
    ASSUME Prompt, TypeInv, TypeInv', StopInv, KeysLive,
           NEW i \in Instances, Up(i), Starting(i), TimeOf(i), NEW p \in Procs,
           ProcStep(i, p) \/ Stop(i, p) \/ StartAgain(i, p)
    PROVE  TimeOf(i)'
<1>1. /\ p = "main" /\ p \notin Loops /\ ~Past(i) /\ ~mgr[i].registered
      /\ GoroutineOK(i, p, proc[i][p])
  BY StartingSteps, NamesAssumption DEF Starting, StopInv, Up, TypeInv, GoroutinesOK
<1>2. proc[i][p].call \in {"none", "reg", "spec"}
  BY <1>1 DEF GoroutineOK, Past, Proc, Calls
<1>3. \A w \in WorkerIDs : Grows(key[w], key'[w])
  BY <1>2, StepGrowsKeys DEF KeysGrow
<1>4. CASE RegisterSucceeds(i, p) \/ SpecificSucceeds(i, p)
  <2>1. \E g, n : Commit(i, p, g, n) /\ n.pc \in {"startset", "running"} /\ n.clk = 0
    <3>1. CASE RegisterSucceeds(i, p)
      <4>1. Commit(i, p, proc[i][p].wid, AfterSuccess(p, proc[i][p]))
        BY <3>1 DEF RegisterSucceeds
      <4>2. /\ AfterSuccess(p, proc[i][p]).pc = "startset"
            /\ AfterSuccess(p, proc[i][p]).clk = 0
        BY <1>1 DEF AfterSuccess, Resting
      <4> QED BY <4>1, <4>2
    <3>2. CASE SpecificSucceeds(i, p)
      <4>1. Commit(i, p, mgr[i].generatorID, [Resting EXCEPT !.pc = "running"])
        BY <3>2 DEF SpecificSucceeds
      <4>2. /\ [Resting EXCEPT !.pc = "running"].pc = "running"
            /\ [Resting EXCEPT !.pc = "running"].clk = 0
        BY DEF Resting
      <4> QED BY <4>1, <4>2
    <3> QED BY <1>4, <3>1, <3>2
  <2>2. /\ proc[i][p].pc = "replied" /\ proc[i][p].ans = "ok"
        /\ proc[i][p].call \in {"reg", "spec"}
    BY <1>4 DEF RegisterSucceeds, SpecificSucceeds, Answered
  <2>3. \A r \in Loops \ {p} : proc[i][r].pc = "off"
    BY <1>1 DEF Starting, Procs
  <2> QED BY <1>1, <2>1, <2>2, <2>3, CommitInTime
<1>5. CASE ~RegisterSucceeds(i, p) /\ ~SpecificSucceeds(i, p)
  <2>1. RestKept(i, p)
    BY <1>1, <1>5, StepFrame DEF SpawnRecovery, At, Starting
  <2>2. CASE Execute(i, p) \/ CallFails(i, p)
    <3>1. proc[i][p].call \in {"reg", "spec"}
      BY <1>1, <1>2, <2>2 DEF Execute, CallFails, At, GoroutineOK
    <3> QED BY <1>1, <1>3, <2>1, <2>2, <3>1, RegistrationAnswered
  <2>3. CASE DrawWorkerID(i, p)
    BY <1>1, <1>3, <2>1, <2>3, DrawWorkerIDDoes, UnregisteredInTime
  <2>4. CASE Start(i, p)
    BY <1>1, <1>3, <2>1, <2>4, StartDoes, UnregisteredInTime
  <2>5. CASE KeepsManager(i) /\ proc'[i][p].pc \in {"start", "retry", "auto", "failed"}
    <3>1. ~mgr'[i].registered
      BY <1>1, <2>5 DEF KeepsManager, SameID
    <3> QED BY <1>3, <2>1, <2>5, <3>1, UnregisteredInTime
  <2> QED BY <1>5, <2>2, <2>3, <2>4, <2>5, StartingSteps
<1> QED BY <1>4, <1>5

LEMMA SearchingInTime ==
    ASSUME Prompt, TypeInv, TypeInv', StopInv, KeysLive,
           NEW i \in Instances, Up(i), Searching(i), TimeOf(i), NEW p \in Procs,
           ProcStep(i, p) \/ Stop(i, p) \/ StartAgain(i, p)
    PROVE  TimeOf(i)'
<1> DEFINE q == proc[i][p]
           n == proc'[i][p]
<1>1. /\ ~mgr[i].registered /\ GoroutineOK(i, p, q) /\ ~MayStop
      /\ "running" \notin StartAgainFrom
      /\ p \in Loops => p # "bg" /\ p # "main"
  BY NamesAssumption DEF Searching, TypeInv, GoroutinesOK, Prompt
<1>2. p = "bg" \/ p \in Loops
  BY <1>1, SearchingSteps DEF Stop
<1>3. q.call # "del"
  BY <1>1, <1>2, NamesAssumption DEF GoroutineOK
<1>4. \A w \in WorkerIDs : Grows(key[w], key'[w])
  BY <1>3, StepGrowsKeys DEF KeysGrow
<1>5. \/ p = "bg" /\ RecoverySearches(i)
      \/ p \in Loops /\ LoopSearches(i, p)
      \/ p \in Loops /\ n.pc = "off" /\ mgr' = mgr /\ ~RegisterSucceeds(i, p) /\ ~SpawnRecovery(i, p)
  <2>1. ASSUME p \in Loops, RecoverySearches(i)
        PROVE  Lingers(q) \/ q.pc = "off"
    BY <2>1 DEF RecoverySearches
  <2> QED BY <1>1, <1>2, <2>1, SearchingSteps
     DEF Stop, RegisterSucceeds, SpawnRecovery, At, Answered, Lingers
<1>6. CASE RegisterSucceeds(i, p)
  <2>1. Commit(i, p, q.wid, AfterSuccess(p, q))
    BY <1>6 DEF RegisterSucceeds
  <2>2. AfterSuccess(p, q).pc \in {"up", "exit"} /\ AfterSuccess(p, q).clk = 0
    BY <1>1, <1>2 DEF AfterSuccess, Resting
  <2>3. \A r \in Loops \ {p} : proc[i][r].pc = "off" \/ Lingers(proc[i][r])
    BY <1>5, <1>6 DEF RecoverySearches, LoopSearches
  <2>4. q.pc = "replied" /\ q.ans = "ok" /\ q.call \in {"reg", "spec"}
    BY <1>6 DEF RegisterSucceeds, Answered
  <2> QED BY <1>1, <2>1, <2>2, <2>3, <2>4, CommitInTime
<1>7. CASE SpawnRecovery(i, p)
  <2>1. q.pc = "spawn" /\ q.clk = 0 /\ p \in Loops /\ p # "bg"
    BY <1>1, <1>2, <1>5, <1>7 DEF SpawnRecovery, At, LoopSearches, RecoverySearches, Retries, GoroutineOK
  <2>2. /\ n.pc = "idle" /\ n.clk = 0 /\ ~mgr'[i].registered /\ key' = key
        /\ proc'[i]["bg"].pc \in {"check", "off"}
        /\ \A r \in Procs \ {p, "bg"} : proc'[i][r] = proc[i][r]
    BY <1>1, <1>5, <1>7, <2>1, SpawnRecoveryDoes DEF LoopSearches, SameID
  <2>3. Pause \in Nat /\ "bg" \in Procs
    BY TimeFacts DEF Procs
  <2>4. ASSUME NEW r \in Procs
        PROVE  ClockOK(proc'[i][r]) /\ AnswerFresh(proc'[i][r], key'[proc'[i][r].wid])
    <3>1. CASE r \in {p, "bg"}
      BY <2>2, <2>3, <3>1 DEF ClockOK, AnswerFresh
    <3>2. CASE r \notin {p, "bg"}
      BY <2>2, <3>2 DEF TimeOf
    <3> QED BY <3>1, <3>2
  <2>5. LeaseInTime(i)'
    BY <2>2 DEF LeaseInTime
  <2> QED BY <2>4, <2>5 DEF TimeOf
<1>8. CASE ~RegisterSucceeds(i, p) /\ ~SpawnRecovery(i, p)
  <2>1. RestKept(i, p)
    <3>1. ~SpecificSucceeds(i, p)
      BY <1>1, <1>2, NamesAssumption DEF SpecificSucceeds, Answered, GoroutineOK
    <3> QED BY <1>8, <3>1, StepFrame
  <2>2. CASE Execute(i, p) \/ CallFails(i, p)
    <3>1. q.pc = "sent"
      BY <2>2 DEF Execute, CallFails, At
    <3>2. q.call \in {"reg", "spec"}
      <4>1. n.pc = "replied"
        BY <2>2, AnswerDoes DEF Execute, CallFails, TypeInv
      <4> QED BY <1>1, <1>2, <1>5, <3>1, <4>1, NamesAssumption
         DEF GoroutineOK, Proc, Calls, LoopSearches, Retries
    <3> QED BY <1>1, <1>4, <2>1, <2>2, <3>2, RegistrationAnswered
  <2>3. CASE DrawWorkerID(i, p)
    BY <1>1, <1>4, <2>1, <2>3, DrawWorkerIDDoes, UnregisteredInTime
  <2>4. CASE /\ KeepsManager(i)
             /\ n.pc \in {"check", "retry", "sleep", "try", "spawn", "off"}
    <3>1. ~mgr'[i].registered
      BY <1>1, <2>4 DEF KeepsManager, SameID
    <3> QED BY <1>4, <2>1, <2>4, <3>1, UnregisteredInTime
  <2>5. mgr' = mgr => KeepsManager(i)
    BY DEF KeepsManager, SameID
  <2> QED BY <1>1, <1>2, <1>8, <2>2, <2>3, <2>4, <2>5, SearchingSteps DEF Stop
<1> QED BY <1>6, <1>7, <1>8

\* A tick takes one from the time to live of every key, or ends it.
KeyTicks(k, l) ==
    \/ k.ttl >= 2 /\ l.owner = k.owner /\ l.ttl = k.ttl - 1
    \/ k.ttl <= 1 /\ l.owner = NoToken

LEMMA KeysTick ==
    ASSUME TypeInv, KeysLive, Tick
    PROVE  (\A w \in WorkerIDs : KeyTicks(key[w], key'[w])) /\ KeysLive'
<1>1. ASSUME NEW w \in WorkerIDs
      PROVE  KeyTicks(key[w], key'[w]) /\ (key'[w].owner # NoToken => key'[w].ttl >= 1)
  <2>1. /\ key[w] \in [owner : Tokens \union {NoToken}, ttl : 0 .. TTL]
        /\ TTL \in Nat
        /\ key'[w] = IF key[w].ttl > 1 THEN [key[w] EXCEPT !.ttl = @ - 1]
                     ELSE [owner |-> NoToken, ttl |-> 0]
    BY TimeAssumption DEF TypeInv, RedisOK, Tick
  <2>2. key[w].ttl \in Nat
    BY <2>1
  <2>3. CASE key[w].ttl > 1
    <3>1. key'[w].owner = key[w].owner /\ key'[w].ttl = key[w].ttl - 1
      BY <2>1, <2>3
    <3> QED BY <2>2, <2>3, <3>1 DEF KeyTicks
  <2>4. CASE ~(key[w].ttl > 1)
    BY <2>1, <2>2, <2>4 DEF KeyTicks
  <2> QED BY <2>3, <2>4
<1> QED BY <1>1 DEF KeysLive

\* While a lease lasts its key has a tick to spare: the next beat is not due yet, or
\* its answer is not late yet.
LEMMA HolderTicks ==
    ASSUME Prompt, NEW m, NEW M, NEW q, NEW n, NEW k, NEW l,
           HolderOK(m, q, k), KeyTicks(k, l), SameID(m, M), M.healthy = m.healthy,
           M.lease = (IF m.lease > 0 THEN m.lease - 1 ELSE m.lease),
           n.pc = q.pc, n.call = q.call, n.clk = q.clk + 1,
           m.lease \in Int, m.lease >= -1, k.ttl \in Nat, q.clk \in Nat, m.instanceID # NoToken,
           \/ q.pc = "idle" /\ q.clk < HeartbeatInterval /\ q.call = "none"
           \/ q.pc \in {"sent", "replied"} /\ q.clk < CallTimeout /\ q.call \in {"hb", "rr"}
    PROVE  HolderOK(M, n, l)
<1>1. /\ TTL \in Nat /\ HeartbeatInterval \in Nat /\ CallTimeout \in Nat /\ Pause \in Nat
      /\ CallTimeout >= 1 /\ HeartbeatInterval <= Pause /\ Pause + CallTimeout < TTL
      /\ NoLease = -1
  BY TimeFacts
<1>2. m.lease >= 0 /\ M.lease \in Int /\ M.lease >= 0 /\ M.lease # NoLease
  <2>1. m.lease # -1
    BY <1>1 DEF HolderOK
  <2> QED BY <1>1, <2>1
<1>3. l.owner = M.instanceID => M.lease <= l.ttl + CallTimeout
  <2>1. SUFFICES ASSUME l.owner = m.instanceID PROVE M.lease <= l.ttl + CallTimeout
    BY DEF SameID
  <2>2. k.ttl >= 2 /\ l.owner = k.owner /\ l.ttl = k.ttl - 1
    BY <2>1 DEF KeyTicks
  <2>3. m.lease <= k.ttl + CallTimeout
    BY <2>1, <2>2 DEF HolderOK
  <2> QED BY <1>1, <1>2, <2>2, <2>3
<1>4. M.healthy => n.call # "rr" /\ n.pc \notin {"rereg", "reacquire"}
  BY DEF HolderOK
<1>5. ASSUME M.healthy, M.lease # 0
      PROVE  /\ l.owner = M.instanceID
             /\ M.lease <= l.ttl \/ l.ttl + n.clk + (IF n.call = "hb" THEN Pause ELSE 0) >= TTL
  <2> DEFINE e == IF q.call = "hb" THEN Pause ELSE 0
  <2>1. m.lease >= 2 /\ M.lease = m.lease - 1
    BY <1>2, <1>5
  <2>2. k.owner = m.instanceID /\ (m.lease <= k.ttl \/ k.ttl + q.clk + e >= TTL)
    BY <1>5, <2>1 DEF HolderOK
  <2>3. e \in Nat /\ q.clk + e + 2 <= TTL
    <3>1. q.call # "rr"
      BY <1>5 DEF HolderOK
    <3> QED BY <1>1, <3>1
  <2>4. n.call = q.call
    OBVIOUS
  <2> HIDE DEF e
  <2>5. k.ttl >= 2
    BY <1>1, <2>1, <2>2, <2>3
  <2>6. l.owner = m.instanceID /\ l.ttl = k.ttl - 1
    BY <2>2, <2>5 DEF KeyTicks
  <2>7. M.lease <= l.ttl \/ l.ttl + n.clk + e >= TTL
    BY <1>1, <2>1, <2>2, <2>3, <2>6
  <2> QED BY <2>4, <2>6, <2>7 DEF SameID, e
<1>6. n.pc # "up"
  OBVIOUS
<1> QED BY <1>2, <1>3, <1>4, <1>5, <1>6 DEF HolderOK

LEMMA TimeTick ==
    ASSUME Prompt, TypeInv, TypeInv', KeysLive, Tick, NEW i \in Instances,
           StructureOf(i), ~mgr[i].shuttingDown, TimeOf(i)
    PROVE  TimeOf(i)'
<1>1. /\ TTL \in Nat /\ HeartbeatInterval \in Nat /\ CallTimeout \in Nat /\ Pause \in Nat
      /\ TTL >= 1 /\ CallTimeout >= 1 /\ HeartbeatInterval <= Pause /\ CallTimeout <= Pause
      /\ Pause + CallTimeout < TTL
      /\ \A p \in Procs : proc[i][p].clk \in Nat
      /\ \A w \in WorkerIDs : key[w].ttl \in Nat /\ key'[w].ttl \in Nat
      /\ mgr[i].lease \in Int
  BY TimeFacts, NumbersOK, NextNumbersOK
<1>2. \A w \in WorkerIDs : KeyTicks(key[w], key'[w])
  BY KeysTick
<1>3. /\ SameID(mgr[i], mgr'[i]) /\ mgr'[i].healthy = mgr[i].healthy
      /\ mgr'[i].lease = IF mgr[i].lease > 0 THEN mgr[i].lease - 1 ELSE mgr[i].lease
      /\ \A p \in Procs :
           /\ proc'[i][p].pc = proc[i][p].pc /\ proc'[i][p].call = proc[i][p].call
           /\ proc'[i][p].wid = proc[i][p].wid /\ proc'[i][p].tok = proc[i][p].tok
           /\ proc'[i][p].ans = proc[i][p].ans
           /\ proc'[i][p].clk =
                IF proc[i][p].pc \in {"idle", "sent", "replied"} /\ proc[i][p].clk < TTL
                THEN proc[i][p].clk + 1 ELSE proc[i][p].clk
  BY TickDoes
<1>4. mgr[i].alive => \A p \in Procs : ~Awaited(i, p)
  BY DEF Tick, InTime, Prompt
<1>5. \A p \in Procs : GoroutineOK(i, p, proc[i][p])
  BY DEF TypeInv, GoroutinesOK
<1>6. ManagerOK(i, mgr[i]) /\ mgr[i] \in Manager /\ NoLoop \notin Loops
  BY NamesAssumption DEF TypeInv, ManagersOK
<1>7. mgr[i].registered => Holding(i) /\ Up(i)
  BY <1>6 DEF StructureOf, Up, Starting, Searching, ManagerOK
<1>8. \A p \in Procs : proc[i][p].pc # "off" => mgr[i].alive
  BY DEF StructureOf
<1>9. mgr[i].registered => MuFree(i)
  <2>1. SUFFICES ASSUME mgr[i].registered, NEW p \in Procs PROVE ~HoldsMu(i, p)
    BY DEF MuFree
  <2>2. CASE p \in Loops
    BY <1>5, <1>7, <2>1, <2>2 DEF Holding, Ends, HoldsMu
  <2>3. CASE p \notin Loops
    BY <1>5, <1>7, <2>1, <2>3 DEF Holding, HoldsMu, Procs
  <2> QED BY <2>2, <2>3
<1>10. ASSUME NEW p \in Procs
       PROVE  /\ proc[i][p].pc \in {"sent", "replied"} => proc[i][p].clk < CallTimeout
              /\ proc[i][p].pc # "up"
              /\ proc[i][p].pc = "idle" =>
                    mgr[i].loop = p /\ mgr[i].registered /\ proc[i][p].clk < HeartbeatInterval
  <2>1. proc[i][p].clk \in Nat
    BY <1>1
  <2>2. ASSUME proc[i][p].pc \in {"sent", "replied", "up", "idle"} PROVE ~Awaited(i, p)
    BY <1>4, <1>8, <2>2
  <2>3. proc[i][p].pc \in {"sent", "replied"} => proc[i][p].clk < CallTimeout
    BY <1>1, <2>1, <2>2 DEF Awaited
  <2>4. proc[i][p].pc # "up"
    BY <2>2 DEF Awaited
  <2>5. ASSUME proc[i][p].pc = "idle"
        PROVE  mgr[i].loop = p /\ mgr[i].registered /\ proc[i][p].clk < HeartbeatInterval
    <3>1. p \in Loops
      BY <1>5, <2>5 DEF GoroutineOK, BgLabels, MainLabels, Procs
    <3>2. mgr[i].loop = p
      BY <2>2, <2>5 DEF Awaited
    <3>3. mgr[i].registered
      BY <1>6, <3>1, <3>2 DEF ManagerOK
    <3> QED BY <1>1, <1>9, <2>1, <2>2, <2>5, <3>2, <3>3 DEF Awaited
  <2> QED BY <2>3, <2>4, <2>5
<1>11. ASSUME NEW p \in Procs
       PROVE  /\ ClockOK(proc'[i][p])
              /\ AnswerFresh(proc'[i][p], key'[proc'[i][p].wid])
  <2> DEFINE q == proc[i][p]
             n == proc'[i][p]
             k == key[q.wid]
             l == key'[q.wid]
  <2>1. /\ n.pc = q.pc /\ n.call = q.call /\ n.wid = q.wid /\ n.tok = q.tok /\ n.ans = q.ans
        /\ n.clk = IF q.pc \in {"idle", "sent", "replied"} /\ q.clk < TTL
                   THEN q.clk + 1 ELSE q.clk
        /\ q.clk \in Nat
    BY <1>1, <1>3
  <2>2. ClockOK(q) /\ AnswerFresh(q, k)
    BY DEF TimeOf
  <2>3. ClockOK(n)
    BY <1>1, <1>10, <2>1, <2>2 DEF ClockOK
  <2>4. AnswerFresh(n, l)
    <3>1. SUFFICES ASSUME q.pc = "replied", q.ans = "ok", q.call \in {"hb", "rr", "reg", "spec"}
                   PROVE  q.tok # NoToken /\ l.owner = q.tok /\ l.ttl + n.clk >= TTL
      BY <2>1 DEF AnswerFresh
    <3>2. q.clk < CallTimeout /\ n.clk = q.clk + 1
      BY <1>1, <1>10, <2>1, <3>1
    <3>3. q.tok # NoToken /\ k.owner = q.tok /\ k.ttl + q.clk >= TTL
      BY <2>2, <3>1 DEF AnswerFresh
    <3>4. q.wid \in WorkerIDs
      BY <1>5, <3>1 DEF GoroutineOK
    <3>5. k.ttl \in Nat /\ KeyTicks(k, l)
      BY <1>1, <1>2, <3>4
    <3>6. k.ttl >= 2
      BY <1>1, <2>1, <3>2, <3>3, <3>5
    <3>7. l.owner = k.owner /\ l.ttl = k.ttl - 1
      BY <3>5, <3>6 DEF KeyTicks
    <3> QED BY <1>1, <2>1, <3>2, <3>3, <3>5, <3>7
  <2> QED BY <2>1, <2>3, <2>4
<1>12. LeaseInTime(i)'
  <2>1. SUFFICES ASSUME mgr[i].registered PROVE LeaseInTime(i)'
    BY <1>3 DEF LeaseInTime, SameID
  <2> DEFINE m == mgr[i]
             h == m.loop
             q == proc[i][h]
             n == proc'[i][h]
             k == key[m.workerID]
             l == key'[m.workerID]
  <2>2. h \in Loops /\ h \in Procs /\ m.workerID \in WorkerIDs /\ m.instanceID # NoToken
    BY <1>6, <1>7, <2>1 DEF Holding, Procs, ManagerOK
  <2>3. HolderOK(m, q, k)
    BY <2>1 DEF TimeOf, LeaseInTime
  <2>4. k.ttl \in Nat /\ KeyTicks(k, l) /\ q.clk \in Nat
    BY <1>1, <1>2, <2>2
  <2>5. m.lease \in Int /\ m.lease >= -1
    BY <1>1, <1>6 DEF Manager, NoLease
  <2>6. /\ n.pc = q.pc /\ n.call = q.call
        /\ n.clk = IF q.pc \in {"idle", "sent", "replied"} /\ q.clk < TTL
                   THEN q.clk + 1 ELSE q.clk
    BY <1>3, <2>2
  <2>7. /\ q.pc \in {"idle", "sent", "replied", "rereg", "reacquire"}
        /\ q.pc \notin {"rereg", "reacquire"}
    BY <1>4, <1>7, <1>9, <1>10, <2>1, <2>2 DEF Holding, Awaited, Up
  <2>8. \/ q.pc = "idle" /\ q.clk < HeartbeatInterval /\ q.call = "none"
        \/ q.pc \in {"sent", "replied"} /\ q.clk < CallTimeout /\ q.call \in {"hb", "rr"}
    BY <1>5, <1>7, <1>10, <2>1, <2>2, <2>7 DEF Holding, GoroutineOK
  <2>9. n.clk = q.clk + 1
    BY <1>1, <2>4, <2>6, <2>7, <2>8
  <2>10. HolderOK(mgr'[i], n, l)
    BY <1>3, <2>2, <2>3, <2>4, <2>5, <2>6, <2>8, <2>9, HolderTicks
  <2>11. \A p \in Loops \ {h} : proc'[i][p].pc # "up"
    BY <1>3, <1>10 DEF Procs
  <2> QED BY <1>3, <2>10, <2>11 DEF LeaseInTime, SameID, EndingOK
<1> QED BY <1>11, <1>12 DEF TimeOf

LEMMA TimingStep ==
    ASSUME Prompt, TypeInv, StopInv, Structure, Timing, [Next]_vars
    PROVE  Timing'
<1>1. /\ KeysLive
      /\ \A i \in Instances : ~mgr[i].shuttingDown /\ TimeOf(i) /\ StructureOf(i)
      /\ Timely /\ ~MayStop /\ "running" \notin StartAgainFrom
  BY DEF Timing, TimeOf, Structure, StructureOf, Prompt
<1>2. TypeInv'
  BY TypeInvStep
<1>3. ASSUME KeysLive', \A j \in Instances : ~mgr'[j].shuttingDown /\ TimeOf(j)'
      PROVE  Timing'
  BY <1>3 DEF Timing, TimeOf
<1>4. \A w \in WorkerIDs : key[w].ttl \in Nat
  BY TimeAssumption DEF TypeInv, RedisOK
<1>5. ASSUME key' = key PROVE KeysLive' /\ \A w \in WorkerIDs : Grows(key[w], key'[w])
  BY <1>1, <1>4, <1>5 DEF KeysLive, Grows
<1>6. ASSUME NEW i \in Instances, NEW p \in Procs,
             ProcStep(i, p) \/ Stop(i, p) \/ StartAgain(i, p)
      PROVE  Timing'
  <2>1. mgr[i].alive /\ OthersKept(i) /\ Up(i) /\ ~Stop(i, p)
    BY <1>1, <1>6, StepFrame DEF Up, Stop
  <2>2. GoroutineOK(i, p, proc[i][p])
    BY DEF TypeInv, GoroutinesOK
  <2>3. proc[i][p].call # "del"
    BY <1>1, <2>2 DEF GoroutineOK, StopInv, Past
  <2>4. KeysGrow(proc[i][p]) /\ KeysLive'
    BY <1>1, <1>6, <2>3, StepGrowsKeys
  <2>5. TimeOf(i)'
    BY <1>1, <1>2, <1>6, <2>1, StartingInTime, HoldingInTime, SearchingInTime DEF StructureOf
  <2>6. ~mgr'[i].shuttingDown
    BY <1>1, <1>6, <2>1, ShuttingDownKept
  <2>7. ASSUME NEW j \in Instances \ {i} PROVE ~mgr'[j].shuttingDown /\ TimeOf(j)'
    <3>1. mgr'[j] = mgr[j] /\ proc'[j] = proc[j]
      BY <2>1 DEF OthersKept
    <3>2. ASSUME NEW w \in WorkerIDs, key'[w].owner = mgr[j].instanceID, mgr[j].registered
          PROVE  key[w].owner = mgr[j].instanceID
      <4>1. mgr[j].instanceID \in TokensOf(j) /\ mgr[j].instanceID # NoToken
        BY <3>2 DEF TypeInv, ManagersOK, ManagerOK
      <4>2. proc[i][p].tok # mgr[j].instanceID
        BY <2>2, <4>1, TokensApart DEF GoroutineOK
      <4> QED BY <2>4, <3>2, <4>2 DEF KeysGrow
    <3>3. TimeOf(j)'
      BY <1>1, <1>2, <2>4, <3>1, <3>2, TimeStutters DEF KeysGrow
    <3> QED BY <1>1, <3>1, <3>3
  <2> QED BY <1>3, <2>4, <2>5, <2>6, <2>7
<1>7. ASSUME NEW j \in Instances, mgr'[j] = mgr[j], proc'[j] = proc[j], key' = key
      PROVE  ~mgr'[j].shuttingDown /\ TimeOf(j)'
  BY <1>1, <1>2, <1>5, <1>7, TimeStutters
<1>8. ASSUME NEW i \in Instances, SeeExpired(i) \/ ClearHealthy(i)
      PROVE  Timing'
  <2>1. KeepsManager(i) /\ mgr'[i].lease = mgr[i].lease /\ proc' = proc /\ key' = key
        /\ OthersKept(i)
    BY <1>8, LookDoes
  <2>2. TimeOf(i)'
    <3>1. SameID(mgr[i], mgr'[i]) /\ (mgr[i].healthy \/ ~mgr'[i].healthy)
      BY <2>1 DEF KeepsManager
    <3>2. LeaseInTime(i)'
      BY <1>1, <2>1, <3>1 DEF TimeOf, LeaseInTime, HolderOK, EndingOK, SameID
    <3> QED BY <1>1, <2>1, <3>2 DEF TimeOf
  <2>3. ~mgr'[i].shuttingDown
    BY <1>1, <2>1 DEF KeepsManager, SameID
  <2>4. \A j \in Instances : ~mgr'[j].shuttingDown /\ TimeOf(j)'
    BY <1>7, <2>1, <2>2, <2>3 DEF OthersKept
  <2> QED BY <1>3, <1>5, <2>1, <2>4
<1>9. ASSUME NEW i \in Instances, Crash(i) PROVE Timing'
  <2>1. /\ \A p \in Procs : proc'[i][p] = Resting
        /\ ~mgr'[i].registered /\ OthersKept(i) /\ key' = key
    BY <1>9, CrashDoes
  <2>2. TimeOf(i)'
    BY <2>1 DEF TimeOf, LeaseInTime, ClockOK, AnswerFresh, Resting
  <2>3. ~mgr'[i].shuttingDown
    <3>1. mgr \in [Instances -> Manager] /\ mgr[i] \in Manager
      BY DEF TypeInv, ManagersOK
    <3> QED BY <1>1, <1>9, <3>1 DEF Crash, Manager
  <2>4. \A j \in Instances : ~mgr'[j].shuttingDown /\ TimeOf(j)'
    BY <1>7, <2>1, <2>2, <2>3 DEF OthersKept
  <2> QED BY <1>3, <1>5, <2>1, <2>4
<1>10. CASE ListMissing \/ RemoveMissing \/ UNCHANGED vars
  BY <1>3, <1>5, <1>7, <1>10 DEF ListMissing, RemoveMissing, vars, redis
<1>11. CASE Tick
  <2>1. KeysLive'
    BY <1>1, <1>11, KeysTick
  <2>2. \A j \in Instances : TimeOf(j)'
    BY <1>1, <1>2, <1>11, TimeTick
  <2>3. \A j \in Instances : ~mgr'[j].shuttingDown
    BY <1>1, <1>11, TickDoes DEF SameID
  <2> QED BY <1>3, <2>1, <2>2, <2>3
<1> QED BY <1>6, <1>8, <1>9, <1>10, <1>11 DEF Next

LEMMA TimingInit == Init => Timing
<1> SUFFICES ASSUME Init PROVE Timing
  OBVIOUS
<1>1. KeysLive
  BY DEF Init, KeysLive
<1>2. ASSUME NEW i \in Instances PROVE ~mgr[i].shuttingDown /\ ~mgr[i].registered
  BY DEF Init
<1>3. ASSUME NEW i \in Instances, NEW p \in Procs PROVE proc[i][p].pc \in {"off", "start"}
  BY DEF Init, Resting
<1> QED BY <1>1, <1>2, <1>3 DEF Timing, ClockOK, AnswerFresh, LeaseInTime

\* While goroutines and Redis keep their deadlines and nobody is stopped, every
\* registration, heartbeat, recovery and crash keeps the invariant PromptInv.
THEOREM InstancesKeepDeadlines ==
    ASSUME Prompt
    PROVE  Spec => []PromptInv
<1>1. Init => PromptInv
  BY TypeInvInit, StopInvInit, StructureInit, TimingInit DEF PromptInv
<1>2. PromptInv /\ [Next]_vars => PromptInv'
  BY TypeInvStep, StopInvStep, StructureStep, TimingStep DEF PromptInv, Prompt
<1> QED BY <1>1, <1>2, PTL DEF Spec

\* setLeaseDeadline: while answers arrive within CallTimeout and nobody is stopped, a
\* lease outlives the worker key by no more than the time an answer takes.
THEOREM LeasesAreBoundedByKeys ==
    ASSUME Prompt
    PROVE  Spec => []LeaseBoundedByKey
<1>1. PromptInv => LeaseBoundedByKey
  BY DEF PromptInv, Timing, LeaseInTime, HolderOK, LeaseBoundedByKey
<1> QED BY <1>1, InstancesKeepDeadlines, PTL

\* "To avoid cross-instance duplicate IDs": under the same hypotheses the generator
\* of whoever may generate stamps a worker ID whose key belongs to that instance.
THEOREM InstancesGenerateWithTheirOwnIDs ==
    ASSUME Prompt
    PROVE  Spec => []GeneratesWithOwnID
<1>1. PromptInv => GeneratesWithOwnID
  <2> SUFFICES ASSUME PromptInv, NEW i \in Instances, MayGenerate(i)
               PROVE  key[mgr[i].generatorID].owner = mgr[i].instanceID
    BY DEF GeneratesWithOwnID
  <2>1. Holding(i)
    BY DEF PromptInv, Structure, Timing, Up, MayGenerate, Starting, Searching
  <2>2. HolderOK(mgr[i], proc[i][mgr[i].loop], key[mgr[i].workerID])
    BY <2>1 DEF PromptInv, Timing, LeaseInTime, Holding
  <2> QED BY <2>1, <2>2 DEF Holding, HolderOK, MayGenerate
<1> QED BY <1>1, InstancesKeepDeadlines, PTL
=============================================================================
