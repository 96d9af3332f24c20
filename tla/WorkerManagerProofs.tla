------------------------ MODULE WorkerManagerProofs ------------------------
(***************************************************************************)
(* What holds of the worker ID manager however long its goroutines and      *)
(* Redis take, for any instances, worker IDs, durations and limits.         *)
(***************************************************************************)
EXTENDS WorkerInvariants, WellFoundedInduction, TLAPS

LEMMA LeastNatural ==
    ASSUME NEW S \in SUBSET Nat, NEW n \in S
    PROVE  \E k \in S : \A m \in S : k <= m
<1> DEFINE R == OpToRel(<, Nat)
<1>1. IsWellFoundedOn(R, Nat)
  BY NatLessThanWellFounded
<1>2. \A k, m \in Nat : m < k => <<m, k>> \in R
  BY DEF OpToRel
<1> HIDE DEF R
<1>3. PICK k \in S : \A m \in S : ~ (<<m, k>> \in R)
  BY <1>1, WFMin
<1>4. ASSUME NEW m \in S PROVE k <= m
  <2>1. k \in Nat /\ m \in Nat
    OBVIOUS
  <2>2. ~ (m < k)
    BY <1>2, <1>3, <2>1, Zenon
  <2> QED BY <2>1, <2>2
<1> QED BY <1>4

\* generateInstanceID makes an instance ID of this instance that nobody knows.
LEMMA FreshTokenIsFresh ==
    ASSUME NEW i \in Instances, HasFreshToken(i)
    PROVE  FreshToken(i) \in TokensOf(i) /\ FreshToken(i) \notin InUse(i)
<1> DEFINE S == {k \in 1 .. MaxTokens : <<i, k>> \notin InUse(i)}
<1>1. MaxTokens \in Nat
  BY TimeAssumption
<1>2. S \in SUBSET Nat /\ \E n \in S : TRUE
  BY <1>1 DEF HasFreshToken
<1>3. PICK k \in S : \A m \in S : k <= m
  BY <1>2, LeastNatural
<1>4. ASSUME NEW m \in 1 .. k - 1 PROVE <<i, m>> \in InUse(i)
  BY <1>1, <1>3
<1>5. \E n \in 1 .. MaxTokens : /\ <<i, n>> \notin InUse(i)
                                /\ \A m \in 1 .. n - 1 : <<i, m>> \in InUse(i)
  BY <1>4
<1> DEFINE c == CHOOSE n \in 1 .. MaxTokens :
                   /\ <<i, n>> \notin InUse(i)
                   /\ \A m \in 1 .. n - 1 : <<i, m>> \in InUse(i)
<1>6. c \in 1 .. MaxTokens /\ <<i, c>> \notin InUse(i)
  BY <1>5
<1>7. FreshToken(i) = <<i, c>>
  BY DEF FreshToken
<1> HIDE DEF c
<1> QED BY <1>6, <1>7 DEF TokensOf

\* LuaScriptIncrWithReset counts from 1 to the number of worker IDs.
LEMMA NextCounterInRange ==
    ASSUME counter \in 0 .. Total
    PROVE  NextCounter \in 1 .. Total /\ NextCounter - 1 \in WorkerIDs
<1>1. MaxWorkerID \in Nat /\ Total = MaxWorkerID + 1
  BY TimeAssumption DEF Total
<1>2. CASE counter + 1 > Total
  <2>1. counter = Total
    BY <1>1, <1>2
  <2>2. counter % Total = 0
    BY <1>1, <2>1
  <2> QED BY <1>1, <1>2, <2>2 DEF NextCounter, WorkerIDs
<1>3. CASE ~(counter + 1 > Total)
  BY <1>1, <1>3 DEF NextCounter, WorkerIDs
<1> QED BY <1>2, <1>3

-----------------------------------------------------------------------------
(* Types.                                                                   *)

LEMMA RestingOK ==
    ASSUME NEW i \in Instances, NEW p \in Procs
    PROVE  Resting \in Proc /\ GoroutineOK(i, p, Resting)
BY TimeAssumption
   DEF Resting, Proc, Labels, Calls, Answers, GoroutineOK, LoopLabels, BgLabels,
       MainLabels, Total, WorkerIDs

\* One goroutine changes.
LEMMA GoroutineChanges ==
    ASSUME GoroutinesOK, NEW i \in Instances, NEW p \in Procs,
           NEW q, GoroutineOK(i, p, q),
           proc' = [proc EXCEPT ![i] = [proc[i] EXCEPT ![p] = q]]
    PROVE  GoroutinesOK'
BY DEF GoroutinesOK, GoroutineOK

\* One manager changes.
LEMMA ManagerChanges ==
    ASSUME ManagersOK, NEW i \in Instances, NEW m, ManagerOK(i, m),
           mgr' = [mgr EXCEPT ![i] = m]
    PROVE  ManagersOK'
BY DEF ManagersOK, ManagerOK

LEMMA GoToOK ==
    ASSUME GoroutinesOK, NEW i \in Instances, NEW p \in Procs, NEW label,
           GoTo(i, p, label), GoroutineOK(i, p, [proc[i][p] EXCEPT !.pc = label])
    PROVE  GoroutinesOK'
BY GoroutineChanges DEF GoTo

\* A label a goroutine may go on to when its call is over.
LEMMA FinishOK ==
    ASSUME GoroutinesOK, NEW i \in Instances, NEW p \in Procs, NEW label,
           Finish(i, p, label), label \in Labels,
           label \notin {"sent", "replied", "startset", "try"},
           label = "retry" => proc[i][p].call = "reg" /\ proc[i][p].draws < Total,
           label # "retry" => proc[i][p].draws = 0,
           p \in Loops => label \in LoopLabels,
           p = "bg" => label \in BgLabels,
           p = "main" => label \in MainLabels
    PROVE  GoroutinesOK'
<1> DEFINE q == [proc[i][p] EXCEPT !.pc = label, !.call = "none", !.ans = "none",
                                   !.wid = -1, !.tok = NoToken]
<1>1. proc' = [proc EXCEPT ![i] = [proc[i] EXCEPT ![p] = q]]
  BY DEF Finish
<1>2. GoroutineOK(i, p, proc[i][p]) /\ proc[i][p] \in Proc
  BY DEF GoroutinesOK, GoroutineOK
<1>3. q \in Proc
  BY <1>2 DEF Proc, Calls, Answers
<1>4. /\ q.pc = label /\ q.call = "none" /\ q.tok = NoToken
      /\ q.draws = proc[i][p].draws /\ q.left = proc[i][p].left
  BY <1>2 DEF Proc
<1>5. label # "retry" => proc[i][p].draws = 0
  OBVIOUS
<1>6. p \in Loops /\ label = "retry" => proc[i][p].left >= 1
  BY <1>2 DEF GoroutineOK
<1> HIDE DEF q
<1>7. GoroutineOK(i, p, q)
  BY <1>3, <1>4, <1>5, <1>6 DEF GoroutineOK
<1> QED BY <1>1, <1>7, GoroutineChanges

\* Calling(q, ...) is what SendHeartbeat, DrawWorkerID and the others make of q.
LEMMA CallingOK ==
    ASSUME NEW i \in Instances, NEW p \in Procs, NEW q, GoroutineOK(i, p, q),
           NEW call \in Calls \ {"none", "reg"}, NEW wid \in WorkerIDs,
           NEW tok \in TokensOf(i) \union {NoToken},
           call = "spec" => tok # NoToken,
           call \in {"hb", "rr"} => p \in Loops,
           call \in {"spec", "get", "del"} => p = "main",
           p \in Loops \/ p = "main", q.draws = 0
    PROVE  GoroutineOK(i, p, Calling(q, call, wid, tok))
<1>1. tok \in Tokens \union {NoToken}
  BY DEF Tokens, TokensOf
<1> DEFINE n == Calling(q, call, wid, tok)
<1>2. q \in Proc /\ TTL \in Nat
  BY TimeAssumption DEF GoroutineOK
<1>3. n \in Proc
  <2>1. /\ "sent" \in Labels /\ call \in Calls /\ "none" \in Answers
        /\ wid \in WorkerIDs \union {-1} /\ 0 \in 0 .. TTL
    BY <1>2 DEF Labels, Calls, Answers
  <2> QED BY <1>1, <1>2, <2>1 DEF Calling, Proc
<1>4. /\ n.pc = "sent" /\ n.call = call /\ n.wid = wid /\ n.tok = tok
      /\ n.draws = 0
  BY <1>2 DEF Proc, Calling
<1>5. p # "bg"
  BY NamesAssumption
<1> HIDE DEF n
<1>6. GoroutineOK(i, p, n)
  BY <1>3, <1>4, <1>5 DEF GoroutineOK, LoopLabels, BgLabels, MainLabels, Calls
<1> QED BY <1>6 DEF n

\* How a goroutine goes on after RegisterWorkerID failed or succeeded.
LEMMA AfterFailureOK ==
    ASSUME NEW i \in Instances, NEW p \in Procs, NEW q, GoroutineOK(i, p, q),
           p \in Loops => q.left >= 1
    PROVE  GoroutineOK(i, p, AfterFailure(p, q))
<1>1. p \in Loops => p # "bg" /\ p # "main"
  BY NamesAssumption
<1>2. SyncAttempts \in Nat /\ MaxConsecutiveFailures \in Nat /\ TTL \in Nat
      /\ Total \in Nat /\ q.left \in 0 .. SyncAttempts
  BY TimeAssumption DEF Total, GoroutineOK, Proc
<1> DEFINE n == AfterFailure(p, q)
           m == IF p \in Loops THEN q.left - 1 ELSE 0
           f == IF p \in Loops THEN q.fails ELSE 0
           l == IF p = "bg" THEN "sleep" ELSE IF p = "main" THEN "failed"
                ELSE IF q.left = 1 THEN "spawn" ELSE "try"
<1>3. n = [pc |-> l, call |-> "none", ans |-> "none", wid |-> -1, tok |-> NoToken,
           clk |-> 0, fails |-> f, left |-> m, draws |-> 0]
  <2>1. CASE p = "bg"
    BY <1>1, <2>1 DEF AfterFailure, Resting
  <2>2. CASE p = "main"
    BY <1>1, <2>2 DEF AfterFailure, Resting
  <2>3. CASE p \in Loops
    BY <1>1, <2>3 DEF AfterFailure, Resting
  <2> QED BY <2>1, <2>2, <2>3 DEF Procs
<1>4. /\ m \in 0 .. SyncAttempts /\ f \in 0 .. MaxConsecutiveFailures
      /\ l = "try" => m >= 1
  BY <1>1, <1>2 DEF GoroutineOK, Proc, Procs
<1>5. /\ l \in Labels \ {"sent", "replied", "startset", "retry"}
      /\ p \in Loops => l \in LoopLabels
      /\ p = "bg" => l \in BgLabels
      /\ p = "main" => l \in MainLabels
  BY <1>1 DEF Labels, LoopLabels, BgLabels, MainLabels, Procs
<1> HIDE DEF n, m, f, l
<1>6. n \in Proc
  BY <1>2, <1>3, <1>4, <1>5 DEF Proc, Calls, Answers
<1>7. /\ n.pc = l /\ n.call = "none" /\ n.tok = NoToken /\ n.draws = 0
      /\ n.left = m
  BY <1>3
<1>8. GoroutineOK(i, p, n)
  BY <1>4, <1>5, <1>6, <1>7 DEF GoroutineOK
<1> QED BY <1>8 DEF n

LEMMA AfterSuccessOK ==
    ASSUME NEW i \in Instances, NEW p \in Procs, NEW q, q.wid \in WorkerIDs,
           q.fails \in 0 .. MaxConsecutiveFailures
    PROVE  GoroutineOK(i, p, AfterSuccess(p, q))
<1>1. p \in Loops => p # "bg" /\ p # "main"
  BY NamesAssumption
<1>2. SyncAttempts \in Nat /\ MaxConsecutiveFailures \in Nat /\ TTL \in Nat
      /\ Total \in Nat
  BY TimeAssumption DEF Total
<1> DEFINE n == AfterSuccess(p, q)
           w == IF p = "main" THEN q.wid ELSE -1
           f == IF p \in Loops THEN q.fails ELSE 0
           l == IF p = "bg" THEN "exit" ELSE IF p = "main" THEN "startset" ELSE "up"
<1>3. n = [pc |-> l, call |-> "none", ans |-> "none", wid |-> w, tok |-> NoToken,
           clk |-> 0, fails |-> f, left |-> 0, draws |-> 0]
  <2>1. CASE p = "bg"
    BY <1>1, <2>1 DEF AfterSuccess, Resting
  <2>2. CASE p = "main"
    BY <1>1, <2>2 DEF AfterSuccess, Resting
  <2>3. CASE p \in Loops
    BY <1>1, <2>3 DEF AfterSuccess, Resting
  <2> QED BY <2>1, <2>2, <2>3 DEF Procs
<1>4. /\ w \in WorkerIDs \union {-1} /\ f \in 0 .. MaxConsecutiveFailures
      /\ l = "startset" => w \in WorkerIDs
  BY <1>1, <1>2
<1>5. /\ l \in Labels \ {"sent", "replied", "try", "retry"}
      /\ p \in Loops => l \in LoopLabels
      /\ p = "bg" => l \in BgLabels
      /\ p = "main" => l \in MainLabels
  BY <1>1 DEF Labels, LoopLabels, BgLabels, MainLabels, Procs
<1> HIDE DEF n, w, f, l
<1>6. n \in Proc
  BY <1>2, <1>3, <1>4, <1>5 DEF Proc, Calls, Answers
<1>7. /\ n.pc = l /\ n.call = "none" /\ n.tok = NoToken /\ n.draws = 0
      /\ n.wid = w
  BY <1>3
<1>8. GoroutineOK(i, p, n)
  BY <1>4, <1>5, <1>6, <1>7 DEF GoroutineOK
<1> QED BY <1>8 DEF n

\* A Redis call is executed or fails.
LEMMA AnswerOK ==
    ASSUME GoroutinesOK, NEW i \in Instances, NEW p \in Procs, NEW a \in Answers,
           At(i, p, "sent"), Answer(i, p, a)
    PROVE  GoroutinesOK'
<1> DEFINE q == [proc[i][p] EXCEPT !.pc = "replied", !.ans = a]
<1>1. proc' = [proc EXCEPT ![i] = [proc[i] EXCEPT ![p] = q]]
  BY DEF Answer
<1>2. GoroutineOK(i, p, proc[i][p]) /\ proc[i][p] \in Proc
  BY DEF GoroutinesOK, GoroutineOK
<1>3. GoroutineOK(i, p, q)
  BY <1>2 DEF GoroutineOK, Proc, Labels, At, LoopLabels, BgLabels, MainLabels
<1> HIDE DEF q
<1> QED BY <1>1, <1>3, GoroutineChanges

LEMMA ReplyOK ==
    ASSUME NEW q
    PROVE  Reply(q) \in Answers
BY DEF Reply, Answers

\* SETNX, EXPIRE and DEL write an instance ID and a TTL, or nothing.
LEMMA EffectOK ==
    ASSUME RedisOK, NEW q \in Proc
    PROVE  Effect(q) \in [WorkerIDs -> [owner : Tokens \union {NoToken}, ttl : 0 .. TTL]]
<1>1. TTL \in Nat /\ q.tok \in Tokens \union {NoToken}
  BY TimeAssumption DEF Proc
<1>2. [owner |-> q.tok, ttl |-> TTL] \in [owner : Tokens \union {NoToken}, ttl : 0 .. TTL]
  BY <1>1
<1>3. [owner |-> NoToken, ttl |-> 0] \in [owner : Tokens \union {NoToken}, ttl : 0 .. TTL]
  BY <1>1
<1> QED BY <1>2, <1>3 DEF Effect, RedisOK

-----------------------------------------------------------------------------
(* Each step keeps the goroutines well formed.                              *)

LEMMA RedisCallGoroutine ==
    ASSUME TypeInv, NEW i \in Instances, NEW p \in Procs,
           Execute(i, p) \/ CallFails(i, p)
    PROVE  GoroutinesOK'
<1>1. GoroutinesOK /\ "bad" \in Answers
  BY DEF TypeInv, Answers
<1>2. CASE Execute(i, p)
  BY <1>1, <1>2, AnswerOK, ReplyOK DEF Execute
<1>3. CASE CallFails(i, p)
  BY <1>1, <1>3, AnswerOK DEF CallFails
<1> QED BY <1>2, <1>3

LEMMA BeatFailedOK ==
    ASSUME GoroutinesOK, NEW i \in Instances, NEW p \in Loops, NEW c \in 0 .. TTL,
           BeatFailed(i, p, c), proc[i][p].draws = 0
    PROVE  GoroutinesOK'
<1> DEFINE f == NextFails(proc[i][p])
           l == IF f = MaxConsecutiveFailures THEN "rereg" ELSE "idle"
           q == [proc[i][p] EXCEPT !.pc = l, !.fails = f, !.clk = c,
                    !.call = "none", !.ans = "none", !.wid = -1, !.tok = NoToken]
<1>1. proc' = [proc EXCEPT ![i] = [proc[i] EXCEPT ![p] = q]]
  BY DEF BeatFailed
<1>2. p \in Procs /\ p # "bg" /\ p # "main"
  BY NamesAssumption DEF Procs
<1>3. proc[i][p] \in Proc
  BY <1>2 DEF GoroutinesOK
<1>4. f \in 0 .. MaxConsecutiveFailures
  BY <1>3, TimeAssumption DEF NextFails, Proc
<1>5. l \in {"rereg", "idle"} /\ l \in Labels
  BY DEF Labels
<1> HIDE DEF f, l
<1>6. "none" \in Calls /\ "none" \in Answers
  BY DEF Calls, Answers
<1>7. q \in Proc
  BY <1>3, <1>4, <1>5, <1>6 DEF Proc
<1>8. q.pc = l /\ q.call = "none" /\ q.tok = NoToken /\ q.draws = 0
  BY <1>3 DEF Proc
<1> HIDE DEF q
<1>9. GoroutineOK(i, p, q)
  BY <1>2, <1>5, <1>7, <1>8 DEF GoroutineOK, LoopLabels
<1> QED BY <1>1, <1>2, <1>9, GoroutineChanges

LEMMA HeartbeatGoroutine ==
    ASSUME TypeInv, NEW i \in Instances, NEW p \in Procs, HeartbeatStep(i, p)
    PROVE  GoroutinesOK'
<1> DEFINE q == proc[i][p]
<1>1. /\ GoroutinesOK /\ GoroutineOK(i, p, q) /\ q \in Proc
      /\ mgr[i] \in Manager /\ ManagerOK(i, mgr[i])
  BY DEF TypeInv, GoroutinesOK, ManagersOK
<1>2. p \in Loops => p # "bg" /\ p # "main"
  BY NamesAssumption
<1>3. /\ q.pc \in {"idle", "rereg", "reacquire", "up", "spawn"} => q.draws = 0 /\ q.call = "none"
      /\ q.call \in {"hb", "rr"} => q.draws = 0 /\ p \in Loops
      /\ q.pc \in {"rereg", "reacquire", "idle", "up", "spawn"} => p \in Loops
      /\ q.call = "none" => q.tok = NoToken
      /\ q.clk \in 0 .. TTL /\ 0 \in 0 .. TTL
  BY <1>1, TimeAssumption DEF GoroutineOK, BgLabels, MainLabels, Proc, Procs
<1>4. mgr[i].instanceID \in TokensOf(i) \union {NoToken}
      /\ (mgr[i].workerID # -1 => mgr[i].workerID \in WorkerIDs)
  BY <1>1 DEF ManagerOK, Manager
<1>5. CASE SendHeartbeat(i, p)
  <2>1. GoroutineOK(i, p, Calling(q, "hb", mgr[i].workerID, mgr[i].instanceID))
    BY <1>1, <1>3, <1>4, <1>5, CallingOK
       DEF SendHeartbeat, BeatDue, At, Calls
  <2> QED BY <1>1, <1>5, <2>1, GoroutineChanges DEF SendHeartbeat
<1>6. CASE HeartbeatUnregistered(i, p)
  BY <1>1, <1>3, <1>6, BeatFailedOK DEF HeartbeatUnregistered, BeatDue, At
<1>7. CASE HeartbeatReply(i, p)
  <2>1. q.call = "hb"
    BY <1>7 DEF HeartbeatReply, Answered
  <2>2. CASE Finish(i, p, "up")
    BY <1>1, <1>2, <1>3, <2>1, <2>2, FinishOK DEF Labels, LoopLabels
  <2>3. CASE BeatFailed(i, p, q.clk)
    BY <1>1, <1>3, <2>1, <2>3, BeatFailedOK
  <2> QED BY <1>7, <2>2, <2>3 DEF HeartbeatReply
<1>8. CASE StoreHealthy(i, p)
  <2> DEFINE n == [q EXCEPT !.pc = "idle", !.fails = 0]
  <2>1. proc' = [proc EXCEPT ![i] = [proc[i] EXCEPT ![p] = n]]
    BY <1>8 DEF StoreHealthy
  <2>2. "idle" \in Labels /\ 0 \in 0 .. MaxConsecutiveFailures
    BY TimeAssumption DEF Labels
  <2>3. n \in Proc
    BY <1>1, <2>2 DEF Proc
  <2>4. q.pc = "up"
    BY <1>8 DEF StoreHealthy, At
  <2>5. /\ n.pc = "idle" /\ n.call = "none" /\ n.draws = 0
        /\ n.wid = q.wid /\ n.tok = NoToken
    BY <1>1, <1>3, <2>4 DEF Proc
  <2> HIDE DEF n
  <2>6. GoroutineOK(i, p, n)
    BY <1>2, <1>3, <2>3, <2>4, <2>5 DEF GoroutineOK, LoopLabels
  <2> QED BY <1>1, <2>1, <2>6, GoroutineChanges
<1>9. CASE LoopEnds(i, p)
  BY <1>1, <1>9, RestingOK, GoroutineChanges DEF LoopEnds
<1>10. CASE TryReRegister(i, p)
  <2>1. q.pc = "rereg"
    BY <1>10 DEF TryReRegister, At
  <2>2. CASE mgr[i].registered /\ mgr[i].workerID >= 0 /\ mgr[i].loop = p
    <3>1. mgr[i].workerID \in WorkerIDs
      BY <1>1, <2>2 DEF ManagerOK
    <3>2. GoroutineOK(i, p, Calling(q, "rr", mgr[i].workerID, mgr[i].instanceID))
      BY <1>1, <1>3, <1>4, <2>1, <3>1, CallingOK DEF Calls
    <3> QED BY <1>1, <1>10, <2>2, <3>2, GoroutineChanges DEF TryReRegister
  <2>3. CASE ~(mgr[i].registered /\ mgr[i].workerID >= 0 /\ mgr[i].loop = p)
    <3> DEFINE n == [q EXCEPT !.pc = "idle"]
    <3>1. GoTo(i, p, "idle")
      BY <1>10, <2>3 DEF TryReRegister
    <3>2. n \in Proc /\ n.pc = "idle" /\ n.call = "none" /\ n.draws = 0 /\ n.tok = NoToken
      BY <1>1, <1>3, <2>1 DEF Proc, Labels
    <3> HIDE DEF n
    <3>3. GoroutineOK(i, p, n)
      BY <1>2, <1>3, <2>1, <3>2 DEF GoroutineOK, LoopLabels
    <3> USE DEF n
    <3> QED BY <1>1, <3>1, <3>3, GoToOK
  <2> QED BY <2>2, <2>3
<1>11. CASE ReRegisterReply(i, p)
  <2>1. q.call = "rr"
    BY <1>11 DEF ReRegisterReply, Answered
  <2>2. PICK l \in {"up", "idle", "reacquire"} : Finish(i, p, l)
    BY <1>11 DEF ReRegisterReply
  <2> QED BY <1>1, <1>2, <1>3, <2>1, <2>2, FinishOK DEF Labels, LoopLabels
<1>12. CASE Reacquire(i, p)
  <2> DEFINE n == [q EXCEPT !.pc = "try", !.left = SyncAttempts]
  <2>1. proc' = [proc EXCEPT ![i] = [proc[i] EXCEPT ![p] = n]]
    BY <1>12 DEF Reacquire
  <2>2. "try" \in Labels /\ SyncAttempts \in 0 .. SyncAttempts /\ SyncAttempts >= 1
    BY TimeAssumption DEF Labels
  <2>3. n \in Proc
    BY <1>1, <2>2 DEF Proc
  <2>4. q.pc = "reacquire"
    BY <1>12 DEF Reacquire, At
  <2>5. /\ n.pc = "try" /\ n.call = "none" /\ n.draws = 0
        /\ n.tok = NoToken /\ n.left = SyncAttempts
    BY <1>1, <1>3, <2>4 DEF Proc
  <2> HIDE DEF n
  <2>6. GoroutineOK(i, p, n)
    BY <1>2, <1>3, <2>2, <2>3, <2>4, <2>5 DEF GoroutineOK, LoopLabels
  <2> QED BY <1>1, <2>1, <2>6, GoroutineChanges
<1>13. CASE SpawnRecovery(i, p)
  <2> DEFINE n == [q EXCEPT !.pc = "idle"]
             b == IF mgr[i].recovering THEN proc[i]["bg"]
                  ELSE [proc[i]["bg"] EXCEPT !.pc = "check"]
  <2>1. q.pc = "spawn" /\ p \in Loops /\ p # "bg"
    BY <1>2, <1>3, <1>13 DEF SpawnRecovery, At
  <2>2. /\ "bg" \in Procs /\ "bg" \notin Loops /\ "bg" # "main"
        /\ {"idle", "check"} \subseteq Labels
    BY NamesAssumption DEF Procs, Labels
  <2>3. proc[i]["bg"] \in Proc /\ GoroutineOK(i, "bg", proc[i]["bg"])
    BY <1>1, <2>2 DEF GoroutinesOK
  <2>4. n \in Proc /\ b \in Proc
    BY <1>1, <2>2, <2>3 DEF Proc
  <2>5. n.pc = "idle" /\ n.call = "none" /\ n.draws = 0 /\ n.tok = NoToken
    BY <1>1, <1>3, <2>1 DEF Proc
  <2>6. GoroutineOK(i, p, n)
    <3> HIDE DEF n, b
    <3> QED BY <1>2, <2>1, <2>4, <2>5 DEF GoroutineOK, LoopLabels
  <2>7. GoroutineOK(i, "bg", b)
    <3>1. CASE mgr[i].recovering
      BY <2>3, <3>1
    <3>2. CASE ~mgr[i].recovering
      <4>1. proc[i]["bg"].pc = "off"
        BY <3>2 DEF TypeInv, RecoveryOK
      <4>2. /\ b.pc = "check" /\ b.call = "none" /\ b.draws = 0
            /\ b.tok = NoToken
        BY <2>3, <3>2, <4>1 DEF Proc, GoroutineOK
      <4> HIDE DEF n, b
      <4> QED BY <2>2, <2>4, <4>2 DEF GoroutineOK, BgLabels
    <3> QED BY <3>1, <3>2
  <2>8. proc' = [proc EXCEPT ![i] = IF mgr[i].recovering THEN [proc[i] EXCEPT ![p] = n]
                                    ELSE [[proc[i] EXCEPT ![p] = n] EXCEPT !["bg"] = b]]
    <3>1. CASE mgr[i].recovering
      BY <1>1, <1>13, <3>1 DEF SpawnRecovery, GoroutinesOK
    <3>2. CASE ~mgr[i].recovering
      BY <1>1, <1>13, <2>1, <2>2, <3>2 DEF SpawnRecovery, GoroutinesOK
    <3> QED BY <3>1, <3>2
  <2> HIDE DEF n, b
  <2> QED BY <1>1, <2>2, <2>4, <2>6, <2>7, <2>8 DEF GoroutinesOK
<1> QED
  BY <1>5, <1>6, <1>7, <1>8, <1>9, <1>10, <1>11, <1>12, <1>13 DEF HeartbeatStep

LEMMA RecoveryGoroutine ==
    ASSUME TypeInv, NEW i \in Instances, NEW p \in Procs, RecoveryStep(i, p)
    PROVE  GoroutinesOK'
<1> DEFINE q == proc[i][p]
<1>1. GoroutinesOK /\ GoroutineOK(i, p, q) /\ q \in Proc
  BY DEF TypeInv, GoroutinesOK
<1>2. p \in Loops => p # "bg" /\ p # "main"
  BY NamesAssumption
<1>3. ASSUME NEW l \in {"spawn", "exit", "check"}, GoTo(i, p, l),
             q.pc \in {"try", "check", "sleep"},
             l = "spawn" => q.pc = "try", l # "spawn" => q.pc # "try"
      PROVE  GoroutinesOK'
  <2> DEFINE n == [q EXCEPT !.pc = l]
  <2>1. n \in Proc
    BY <1>1 DEF Proc, Labels
  <2>2. q.draws = 0 /\ q.call = "none" /\ q.tok = NoToken
    BY <1>1, <1>3 DEF GoroutineOK
  <2>3. (l = "spawn" => p \in Loops) /\ (l # "spawn" => p = "bg")
    BY <1>1, <1>2, <1>3 DEF GoroutineOK, LoopLabels, BgLabels, MainLabels, Procs
  <2>4. n.pc = l /\ n.draws = 0 /\ n.call = "none" /\ n.tok = NoToken
    BY <1>1, <2>2 DEF Proc
  <2> HIDE DEF n
  <2>5. GoroutineOK(i, p, n)
    BY <1>2, <1>3, <2>1, <2>3, <2>4 DEF GoroutineOK, LoopLabels, BgLabels, MainLabels
  <2> USE DEF n
  <2> QED BY <1>1, <1>3, <2>5, GoToOK
<1>4. CASE StopTrying(i, p)
  BY <1>3, <1>4 DEF StopTrying, At
<1>5. CASE RecoveryNotNeeded(i, p)
  BY <1>3, <1>5 DEF RecoveryNotNeeded, At
<1>6. CASE RecoveryWakes(i, p)
  BY <1>3, <1>6 DEF RecoveryWakes, At
<1>7. CASE RecoveryEnds(i, p)
  BY <1>1, <1>7, RestingOK, GoroutineChanges DEF RecoveryEnds
<1> QED BY <1>4, <1>5, <1>6, <1>7 DEF RecoveryStep

LEMMA IdleLoopIsALoop ==
    ASSUME NEW i \in Instances, LoopAvailable(i), ManagersOK
    PROVE  /\ LoopAfterStart(i) \in Loops
           /\ mgr[i].loop = NoLoop => proc[i][LoopAfterStart(i)].pc = "off"
<1>1. mgr[i].loop \in Loops \union {NoLoop}
  BY DEF ManagersOK, Manager
<1> QED BY <1>1 DEF LoopAvailable, LoopAfterStart, IdleLoop

\* A registration that is committed starts a loop, another than its caller.
LEMMA CommitGoroutine ==
    ASSUME GoroutinesOK, ManagersOK, NEW i \in Instances, NEW p \in Procs,
           NEW g, NEW next, Commit(i, p, g, next), GoroutineOK(i, p, next),
           proc[i][p].pc = "replied"
    PROVE  GoroutinesOK'
<1> DEFINE l == LoopAfterStart(i)
           n == [Resting EXCEPT !.pc = "idle"]
<1>1. l \in Loops /\ l \in Procs /\ l # "bg" /\ l # "main"
      /\ (mgr[i].loop = NoLoop => proc[i][l].pc = "off")
  BY IdleLoopIsALoop, NamesAssumption DEF Commit, Procs
<1>2. GoroutineOK(i, l, n)
  <2>1. Resting \in Proc
    BY <1>1, RestingOK
  <2>2. n \in Proc /\ n.pc = "idle" /\ n.call = "none" /\ n.tok = NoToken /\ n.draws = 0
    BY <2>1 DEF Proc, Labels, Resting
  <2> HIDE DEF n
  <2> QED BY <1>1, <2>2 DEF GoroutineOK, LoopLabels
<1>3. CASE mgr[i].loop = NoLoop
  <2>1. l # p
    BY <1>1, <1>3
  <2>2. proc' = [proc EXCEPT ![i] = [[proc[i] EXCEPT ![p] = next] EXCEPT ![l] = n]]
    BY <1>3 DEF Commit
  <2> HIDE DEF l, n
  <2> QED BY <1>1, <1>2, <2>1, <2>2 DEF GoroutinesOK, GoroutineOK
<1>4. CASE mgr[i].loop # NoLoop
  <2>1. proc' = [proc EXCEPT ![i] = [proc[i] EXCEPT ![p] = next]]
    BY <1>4 DEF Commit
  <2> QED BY <2>1, GoroutineChanges
<1> QED BY <1>3, <1>4

LEMMA RegisterGoroutine ==
    ASSUME TypeInv, NEW i \in Instances, NEW p \in Procs, RegisterStep(i, p)
    PROVE  GoroutinesOK'
<1> DEFINE q == proc[i][p]
<1>1. /\ GoroutinesOK /\ GoroutineOK(i, p, q) /\ q \in Proc
      /\ ManagersOK /\ ManagerOK(i, mgr[i]) /\ mgr[i] \in Manager
      /\ counter \in 0 .. Total
  BY DEF TypeInv, GoroutinesOK, ManagersOK, RedisOK
<1>2. p \in Loops => p # "bg" /\ p # "main"
  BY NamesAssumption
<1>3. Registering(i, p) => q.pc \in {"try", "check", "auto"}
  BY DEF Registering, At
<1>4. Drawing(i, p) => q.pc \in {"try", "check", "auto", "retry"}
  BY <1>3 DEF Drawing, At
<1>5. Answered(i, p, "reg") => q.call = "reg" /\ q.pc = "replied"
  BY DEF Answered
<1>6. ASSUME RegisterFailed(i, p),
             q.pc \in {"try", "check", "auto", "retry"} \/ q.call = "reg"
      PROVE  GoroutinesOK'
  <2>1. p \in Loops => q.left >= 1
    BY <1>1, <1>2, <1>6 DEF GoroutineOK, LoopLabels
  <2>2. GoroutineOK(i, p, AfterFailure(p, q))
    BY <1>1, <2>1, AfterFailureOK
  <2> QED BY <1>1, <1>6, <2>2, GoroutineChanges DEF RegisterFailed
<1>7. CASE RegisterRefused(i, p)
  BY <1>3, <1>6, <1>7 DEF RegisterRefused
<1>8. CASE AlreadyRegistered(i, p)
  <2> DEFINE n == [q EXCEPT !.wid = mgr[i].workerID]
  <2>1. n.wid \in WorkerIDs /\ n.fails \in 0 .. MaxConsecutiveFailures
    BY <1>1, <1>8 DEF AlreadyRegistered, ManagerOK, Proc
  <2>2. proc' = [proc EXCEPT ![i] = [proc[i] EXCEPT ![p] = AfterSuccess(p, n)]]
    BY <1>8 DEF AlreadyRegistered
  <2> HIDE DEF n
  <2>3. GoroutineOK(i, p, AfterSuccess(p, n))
    BY <2>1, AfterSuccessOK
  <2> QED BY <1>1, <2>2, <2>3, GoroutineChanges
<1>9. CASE DrawWorkerID(i, p)
  <2> DEFINE w == NextCounter - 1
             t == FreshToken(i)
             n == [Calling(q, "reg", w, t) EXCEPT !.draws = q.draws + 1]
  <2>1. w \in WorkerIDs /\ t \in TokensOf(i) /\ t \in Tokens /\ t # NoToken
    <3>1. t \in TokensOf(i)
      BY <1>9, FreshTokenIsFresh DEF DrawWorkerID
    <3> QED BY <1>1, <3>1, NextCounterInRange, NamesAssumption DEF TokensOf, Tokens
  <2>2. proc' = [proc EXCEPT ![i] = [proc[i] EXCEPT ![p] = n]]
    BY <1>9 DEF DrawWorkerID
  <2> HIDE DEF w, t
  <2>3. Total \in Nat /\ TTL \in Nat /\ Total >= 1
    BY TimeAssumption DEF Total
  <2>4. q.draws \in 0 .. Total /\ q.draws < Total
    BY <1>1, <1>4, <1>9, <2>3 DEF DrawWorkerID, GoroutineOK, Proc
  <2>6. /\ "sent" \in Labels /\ "reg" \in Calls /\ "none" \in Answers
        /\ w \in WorkerIDs \union {-1} /\ 0 \in 0 .. TTL
        /\ q.draws + 1 \in 0 .. Total
    BY <2>1, <2>3, <2>4 DEF Labels, Calls, Answers
  <2>7. n \in Proc
    BY <1>1, <2>1, <2>6 DEF Calling, Proc
  <2>8. n.pc = "sent" /\ n.call = "reg" /\ n.wid = w /\ n.tok = t /\ n.left = q.left
    BY <1>1 DEF Calling, Proc
  <2>9. p \in Loops => q.left >= 1
    BY <1>1, <1>2, <1>4, <1>9 DEF GoroutineOK, LoopLabels, DrawWorkerID
  <2> HIDE DEF n
  <2>10. GoroutineOK(i, p, n)
    BY <2>1, <2>7, <2>8, <2>9 DEF GoroutineOK, LoopLabels, BgLabels, MainLabels
  <2> QED BY <1>1, <2>2, <2>10, GoroutineChanges
<1>10. CASE DrawFails(i, p)
  BY <1>4, <1>6, <1>10 DEF DrawFails
<1>11. CASE RegisterSucceeds(i, p)
  <2>1. q.call = "reg" /\ q.pc = "replied" /\ Commit(i, p, q.wid, AfterSuccess(p, q))
    BY <1>5, <1>11 DEF RegisterSucceeds
  <2>2. q.wid \in WorkerIDs /\ q.fails \in 0 .. MaxConsecutiveFailures
    BY <1>1, <2>1 DEF GoroutineOK, Proc
  <2>3. GoroutineOK(i, p, AfterSuccess(p, q))
    BY <2>2, AfterSuccessOK
  <2> QED BY <1>1, <2>1, <2>3, CommitGoroutine
<1>12. CASE WorkerIDTaken(i, p)
  BY <1>1, <1>2, <1>5, <1>12, FinishOK
     DEF WorkerIDTaken, Labels, LoopLabels, BgLabels, MainLabels
<1>13. CASE AllOccupied(i, p)
  BY <1>5, <1>6, <1>13 DEF AllOccupied
<1>14. CASE RegisterErrs(i, p)
  BY <1>5, <1>6, <1>14 DEF RegisterErrs
<1> QED
  BY <1>7, <1>8, <1>9, <1>10, <1>11, <1>12, <1>13, <1>14 DEF RegisterStep

LEMMA LifecycleGoroutine ==
    ASSUME TypeInv, NEW i \in Instances, NEW p \in Procs,
           LifecycleStep(i, p) \/ Stop(i, p) \/ StartAgain(i, p)
    PROVE  GoroutinesOK'
<1> DEFINE q == proc[i][p]
<1>1. /\ GoroutinesOK /\ GoroutineOK(i, p, q) /\ q \in Proc
      /\ ManagersOK /\ ManagerOK(i, mgr[i]) /\ mgr[i] \in Manager
  BY DEF TypeInv, GoroutinesOK, ManagersOK
<1>2. p \in Loops => p # "bg" /\ p # "main"
  BY NamesAssumption
<1>3. /\ mgr[i].instanceID \in TokensOf(i) \union {NoToken}
      /\ mgr[i].want \in WorkerIDs /\ q.tok \in TokensOf(i) \union {NoToken}
      /\ (mgr[i].registered => mgr[i].workerID \in WorkerIDs)
  BY <1>1 DEF ManagerOK, Manager, GoroutineOK
\* Only the main goroutine gets to these labels and makes these calls.
<1>4. q.pc \in {"start", "failed", "running", "startset", "unreg", "shutdown"} =>
          p = "main" /\ q.call = "none" /\ q.draws = 0 /\ q.tok = NoToken
  BY <1>1, <1>2 DEF GoroutineOK, LoopLabels, BgLabels, Procs
<1>5. q.call \in {"spec", "get", "del"} =>
          p = "main" /\ q.draws = 0 /\ q.wid \in WorkerIDs
  BY <1>1 DEF GoroutineOK
<1>6. ASSUME NEW l \in {"start", "auto", "running", "unreg", "shutdown", "stopped"},
             GoTo(i, p, l), p = "main", q.call = "none", q.draws = 0, q.tok = NoToken
      PROVE  GoroutinesOK'
  <2> DEFINE n == [q EXCEPT !.pc = l]
  <2>1. n \in Proc
    BY <1>1 DEF Proc, Labels
  <2>2. n.pc = l /\ n.draws = 0 /\ n.call = "none" /\ n.tok = NoToken
    BY <1>1, <1>6 DEF Proc
  <2> HIDE DEF n
  <2>3. GoroutineOK(i, p, n)
    BY <1>2, <1>6, <2>1, <2>2 DEF GoroutineOK, MainLabels
  <2> USE DEF n
  <2> QED BY <1>1, <1>6, <2>3, GoToOK
<1>7. ASSUME NEW l \in {"auto", "running", "shutdown"}, Finish(i, p, l),
             p = "main", q.draws = 0
      PROVE  GoroutinesOK'
  BY <1>1, <1>2, <1>7, FinishOK DEF Labels, MainLabels
<1>8. CASE Start(i, p)
  <2>1. q.pc = "start"
    BY <1>8 DEF Start, At
  <2>2. CASE HasFreshToken(i) /\ proc' = [proc EXCEPT ![i][p] =
                 Calling(@, "spec", mgr[i].want, FreshToken(i))]
    <3>1. FreshToken(i) \in TokensOf(i) /\ FreshToken(i) # NoToken
      BY <2>2, FreshTokenIsFresh, NamesAssumption DEF TokensOf
    <3>2. GoroutineOK(i, p, Calling(q, "spec", mgr[i].want, FreshToken(i)))
      <4> HIDE DEF q
      <4> QED BY <1>1, <1>3, <1>4, <2>1, <3>1, CallingOK DEF Calls
    <3> QED BY <1>1, <2>2, <3>2, GoroutineChanges
  <2>3. CASE GoTo(i, p, IF mgr[i].workerID = mgr[i].want THEN "running" ELSE "auto")
    BY <1>4, <1>6, <2>1, <2>3
  <2>4. CASE GoTo(i, p, "auto")
    BY <1>4, <1>6, <2>1, <2>4
  <2> QED BY <1>8, <2>2, <2>3, <2>4 DEF Start
<1>9. CASE SpecificSucceeds(i, p)
  <2> DEFINE n == [Resting EXCEPT !.pc = "running"]
  <2>1. q.call = "spec" /\ q.pc = "replied" /\ Commit(i, p, mgr[i].generatorID, n)
    BY <1>9 DEF SpecificSucceeds, Answered
  <2>2. Resting \in Proc
    BY RestingOK
  <2>3. n \in Proc /\ n.pc = "running" /\ n.call = "none" /\ n.draws = 0 /\ n.tok = NoToken
    BY <2>2 DEF Proc, Labels, Resting
  <2> HIDE DEF n
  <2>4. GoroutineOK(i, p, n)
    BY <1>2, <1>5, <2>1, <2>3 DEF GoroutineOK, MainLabels
  <2> QED BY <1>1, <2>1, <2>4, CommitGoroutine
<1>10. CASE SpecificFails(i, p)
  BY <1>5, <1>7, <1>10 DEF SpecificFails, Answered
<1>11. CASE StartSetsGenerator(i, p)
  BY <1>4, <1>7, <1>11 DEF StartSetsGenerator, At
<1>12. CASE Unregister(i, p)
  <2>1. q.pc = "unreg"
    BY <1>12 DEF Unregister, At
  <2>2. CASE mgr[i].registered
    <3>1. GoroutineOK(i, p, Calling(q, "get", mgr[i].workerID, mgr[i].instanceID))
      <4> HIDE DEF q
      <4> QED BY <1>1, <1>3, <1>4, <2>1, <2>2, CallingOK DEF Calls
    <3> QED BY <1>1, <1>12, <2>2, <3>1, GoroutineChanges DEF Unregister
  <2>3. CASE ~mgr[i].registered
    BY <1>4, <1>6, <1>12, <2>1, <2>3 DEF Unregister
  <2> QED BY <2>2, <2>3
<1>13. CASE UnregisterGetReply(i, p)
  <2>1. q.call = "get"
    BY <1>13 DEF UnregisterGetReply, Answered
  <2>2. CASE Finish(i, p, "shutdown")
    BY <1>5, <1>7, <2>1, <2>2
  <2> DEFINE c == Calling(q, "del", q.wid, q.tok)
             n == [c EXCEPT !.clk = q.clk]
  <2>3. CASE proc' = [proc EXCEPT ![i][p] = n]
    <3>1. GoroutineOK(i, p, c)
      BY <1>1, <1>3, <1>5, <2>1, CallingOK DEF Calls
    <3>2. q.clk \in 0 .. TTL
      BY <1>1 DEF Proc
    <3> HIDE DEF c
    <3>3. c \in Proc
      BY <3>1 DEF GoroutineOK
    <3>4. n \in Proc
      BY <3>2, <3>3 DEF Proc
    <3>5. /\ n.pc = c.pc /\ n.call = c.call /\ n.wid = c.wid /\ n.tok = c.tok
          /\ n.draws = c.draws /\ n.left = c.left
      BY <3>3 DEF Proc
    <3> HIDE DEF n
    <3>6. GoroutineOK(i, p, n)
      BY <3>1, <3>4, <3>5 DEF GoroutineOK
    <3> QED BY <1>1, <2>3, <3>6, GoroutineChanges
  <2> QED BY <1>13, <2>2, <2>3 DEF UnregisterGetReply
<1>14. CASE UnregisterDelReply(i, p)
  BY <1>5, <1>7, <1>14 DEF UnregisterDelReply, Answered
<1>15. CASE GeneratorShutdown(i, p)
  BY <1>4, <1>6, <1>15 DEF GeneratorShutdown, At
<1>16. CASE Stop(i, p)
  BY <1>4, <1>6, <1>16 DEF Stop, At
<1>17. CASE StartAgain(i, p)
  BY <1>4, <1>6, <1>17, TimeAssumption DEF StartAgain, At
<1> QED
  BY <1>8, <1>9, <1>10, <1>11, <1>12, <1>13, <1>14, <1>15, <1>16, <1>17 DEF LifecycleStep

LEMMA CrashGoroutine ==
    ASSUME TypeInv, NEW i \in Instances, Crash(i)
    PROVE  GoroutinesOK'
BY RestingOK DEF Crash, TypeInv, GoroutinesOK

LEMMA LaterOK ==
    ASSUME NEW i \in Instances, NEW p \in Procs, NEW q, GoroutineOK(i, p, q)
    PROVE  GoroutineOK(i, p, Later(q))
<1> DEFINE n == [q EXCEPT !.clk = q.clk + 1]
<1>1. CASE q.clk < TTL
  <2>1. q \in Proc /\ TTL \in Nat
    BY TimeAssumption DEF GoroutineOK
  <2>2. q.clk + 1 \in 0 .. TTL
    BY <1>1, <2>1 DEF Proc
  <2>3. n \in Proc
    BY <2>1, <2>2 DEF Proc
  <2>4. /\ n.pc = q.pc /\ n.call = q.call /\ n.wid = q.wid /\ n.tok = q.tok
        /\ n.draws = q.draws /\ n.left = q.left
    BY <2>1 DEF Proc
  <2> HIDE DEF n
  <2>5. GoroutineOK(i, p, n)
    BY <2>3, <2>4 DEF GoroutineOK
  <2> QED BY <2>5 DEF Later, n
<1>2. CASE ~(q.clk < TTL)
  BY <1>2 DEF Later
<1> QED BY <1>1, <1>2

LEMMA TickGoroutine ==
    ASSUME TypeInv, Tick
    PROVE  GoroutinesOK'
<1>1. \A i \in Instances, p \in Procs : GoroutineOK(i, p, Later(proc[i][p]))
  BY LaterOK DEF TypeInv, GoroutinesOK
<1>2. \A i \in Instances, p \in Procs : Later(proc[i][p]) \in Proc
  BY <1>1 DEF GoroutineOK
<1>3. proc' = [i \in Instances |-> [p \in Procs |-> Later(proc[i][p])]]
  BY DEF Tick
<1> QED BY <1>1, <1>2, <1>3 DEF GoroutinesOK

-----------------------------------------------------------------------------
(* What a step leaves alone.                                                *)

OnlyManager(i)      == mgr' = [mgr EXCEPT ![i] = mgr'[i]]
OnlyGoroutine(i, p) == proc' = [proc EXCEPT ![i] = [proc[i] EXCEPT ![p] = proc'[i][p]]]

\* A goroutine's step is its own, but for the recovery and the loop it may start.
LEMMA StepIsLocal ==
    ASSUME TypeInv, NEW i \in Instances, NEW p \in Procs,
           ProcStep(i, p) \/ Stop(i, p) \/ StartAgain(i, p)
    PROVE  /\ mgr[i].alive /\ proc[i][p].pc # "off"
           /\ OnlyManager(i)
           /\ \/ OnlyGoroutine(i, p)
              \/ SpawnRecovery(i, p)
              \/ RegisterSucceeds(i, p)
              \/ SpecificSucceeds(i, p)
<1>1. mgr \in [Instances -> Manager] /\ proc \in [Instances -> [Procs -> Proc]]
  BY DEF TypeInv, ManagersOK, GoroutinesOK
<1>2. ASSUME NEW n, proc' = [proc EXCEPT ![i] = [proc[i] EXCEPT ![p] = n]]
      PROVE  OnlyGoroutine(i, p)
  BY <1>1, <1>2 DEF OnlyGoroutine
<1>3. ASSUME NEW m, mgr' = [mgr EXCEPT ![i] = m]
      PROVE  OnlyManager(i)
  BY <1>1, <1>3 DEF OnlyManager
<1>4. ASSUME UNCHANGED mgr PROVE OnlyManager(i)
  BY <1>1, <1>4 DEF OnlyManager
<1>5. ASSUME NEW l, GoTo(i, p, l) PROVE OnlyGoroutine(i, p)
  BY <1>2, <1>5 DEF GoTo
<1>6. ASSUME NEW l, Finish(i, p, l) PROVE OnlyGoroutine(i, p)
  BY <1>2, <1>6 DEF Finish
<1>7. ASSUME RegisterFailed(i, p) PROVE OnlyGoroutine(i, p)
  BY <1>2, <1>7 DEF RegisterFailed
<1>8. CASE Execute(i, p) \/ CallFails(i, p)
  BY <1>2, <1>4, <1>8 DEF Execute, CallFails, Answer, At
<1>9. CASE HeartbeatStep(i, p)
  <2>1. ASSUME NEW c, BeatFailed(i, p, c)
        PROVE  OnlyManager(i) /\ OnlyGoroutine(i, p)
    BY <1>2, <1>3, <2>1 DEF BeatFailed
  <2>2. CASE SendHeartbeat(i, p)
    BY <1>2, <1>4, <2>2 DEF SendHeartbeat, BeatDue, At
  <2>3. CASE HeartbeatUnregistered(i, p)
    BY <2>1, <2>3 DEF HeartbeatUnregistered, BeatDue, At
  <2>4. CASE HeartbeatReply(i, p)
    BY <1>3, <1>6, <2>1, <2>4 DEF HeartbeatReply, Answered
  <2>5. CASE StoreHealthy(i, p)
    BY <1>2, <1>3, <2>5 DEF StoreHealthy, At
  <2>6. CASE LoopEnds(i, p)
    BY <1>2, <1>4, <2>6 DEF LoopEnds, At
  <2>7. CASE TryReRegister(i, p)
    BY <1>2, <1>4, <1>5, <2>7 DEF TryReRegister, At
  <2>8. CASE ReRegisterReply(i, p)
    BY <1>3, <1>4, <1>6, <2>8 DEF ReRegisterReply, Answered
  <2>9. CASE Reacquire(i, p)
    BY <1>2, <1>3, <2>9 DEF Reacquire, At
  <2>10. CASE SpawnRecovery(i, p)
    BY <1>3, <2>10 DEF SpawnRecovery, At
  <2> QED
    BY <1>9, <2>2, <2>3, <2>4, <2>5, <2>6, <2>7, <2>8, <2>9, <2>10 DEF HeartbeatStep
<1>10. CASE RecoveryStep(i, p)
  <2>1. CASE StopTrying(i, p)
    BY <1>4, <1>5, <2>1 DEF StopTrying, At
  <2>2. CASE RecoveryNotNeeded(i, p)
    BY <1>4, <1>5, <2>2 DEF RecoveryNotNeeded, At
  <2>3. CASE RecoveryWakes(i, p)
    BY <1>4, <1>5, <2>3 DEF RecoveryWakes, At
  <2>4. CASE RecoveryEnds(i, p)
    BY <1>2, <1>3, <2>4 DEF RecoveryEnds, At
  <2> QED BY <1>10, <2>1, <2>2, <2>3, <2>4 DEF RecoveryStep
<1>11. CASE RegisterStep(i, p)
  <2>1. CASE RegisterRefused(i, p)
    BY <1>3, <1>7, <2>1 DEF RegisterRefused, Registering, At
  <2>2. CASE AlreadyRegistered(i, p)
    BY <1>2, <1>4, <2>2 DEF AlreadyRegistered, Registering, At
  <2>3. CASE DrawWorkerID(i, p)
    BY <1>2, <1>4, <2>3 DEF DrawWorkerID, Drawing, Registering, At
  <2>4. CASE DrawFails(i, p)
    BY <1>4, <1>7, <2>4 DEF DrawFails, Drawing, Registering, At
  <2>5. CASE RegisterSucceeds(i, p)
    BY <1>3, <2>5 DEF RegisterSucceeds, Answered, Commit
  <2>6. CASE WorkerIDTaken(i, p)
    BY <1>4, <1>6, <2>6 DEF WorkerIDTaken, Answered
  <2>7. CASE AllOccupied(i, p)
    BY <1>3, <1>7, <2>7 DEF AllOccupied, Answered
  <2>8. CASE RegisterErrs(i, p)
    BY <1>4, <1>7, <2>8 DEF RegisterErrs, Answered
  <2> QED
    BY <1>11, <2>1, <2>2, <2>3, <2>4, <2>5, <2>6, <2>7, <2>8 DEF RegisterStep
<1>12. CASE LifecycleStep(i, p)
  <2>1. CASE Start(i, p)
    BY <1>2, <1>4, <1>5, <2>1 DEF Start, At
  <2>2. CASE SpecificSucceeds(i, p)
    BY <1>3, <2>2 DEF SpecificSucceeds, Answered, Commit
  <2>3. CASE SpecificFails(i, p)
    BY <1>3, <1>4, <1>6, <2>3 DEF SpecificFails, Answered
  <2>4. CASE StartSetsGenerator(i, p)
    BY <1>3, <1>6, <2>4 DEF StartSetsGenerator, At
  <2>5. CASE Unregister(i, p)
    BY <1>2, <1>3, <1>4, <1>5, <2>5 DEF Unregister, At
  <2>6. CASE UnregisterGetReply(i, p)
    BY <1>2, <1>4, <1>6, <2>6 DEF UnregisterGetReply, Answered
  <2>7. CASE UnregisterDelReply(i, p)
    BY <1>4, <1>6, <2>7 DEF UnregisterDelReply, Answered
  <2>8. CASE GeneratorShutdown(i, p)
    BY <1>4, <1>5, <2>8 DEF GeneratorShutdown, At
  <2> QED
    BY <1>12, <2>1, <2>2, <2>3, <2>4, <2>5, <2>6, <2>7, <2>8 DEF LifecycleStep
<1>13. CASE Stop(i, p)
  BY <1>3, <1>5, <1>13 DEF Stop, At
<1>14. CASE StartAgain(i, p)
  <2>1. "off" \notin StartAgainFrom
    BY TimeAssumption
  <2> QED BY <1>4, <1>5, <1>14, <2>1 DEF StartAgain, At
<1> QED
  BY <1>8, <1>9, <1>10, <1>11, <1>12, <1>13, <1>14 DEF ProcStep

LEMMA RecoveryFlagKept ==
    ASSUME TypeInv, NEW i \in Instances, NEW p \in Procs,
           ProcStep(i, p) \/ Stop(i, p) \/ StartAgain(i, p)
    PROVE  RecoveryOK'
<1>1. /\ mgr \in [Instances -> Manager] /\ proc \in [Instances -> [Procs -> Proc]]
      /\ ManagersOK /\ GoroutinesOK /\ GoroutineOK(i, p, proc[i][p])
  BY DEF TypeInv, ManagersOK, GoroutinesOK
<1>2. "bg" \in Procs /\ "bg" \notin Loops
  BY NamesAssumption DEF Procs
<1>3. \A j \in Instances : proc[j]["bg"].pc # "off" => mgr[j].recovering
  BY DEF TypeInv, RecoveryOK
<1>4. OnlyManager(i) /\ proc[i][p].pc # "off"
  BY StepIsLocal
<1>5. \A j \in Instances \ {i} : mgr'[j] = mgr[j]
  BY <1>1, <1>4 DEF OnlyManager
\* recovering is reset by the recovery's own last step only.
<1>6. mgr'[i].recovering = mgr[i].recovering \/ RecoveryEnds(i, p) \/ SpawnRecovery(i, p)
  <2>0. mgr[i] \in Manager
    BY <1>1
  <2>1. CASE UNCHANGED mgr
    BY <2>1
  <2>2. ASSUME NEW m, mgr' = [mgr EXCEPT ![i] = m], m.recovering = mgr[i].recovering
        PROVE  mgr'[i].recovering = mgr[i].recovering
    BY <1>1, <2>2
  <2>3. CASE Execute(i, p) \/ CallFails(i, p)
    BY <2>1, <2>3 DEF Execute, CallFails
  <2>4. CASE HeartbeatStep(i, p)
    BY <2>0, <2>1, <2>2, <2>4 DEF HeartbeatStep, SendHeartbeat, HeartbeatUnregistered,
       HeartbeatReply, StoreHealthy, LoopEnds, TryReRegister, ReRegisterReply,
       Reacquire, BeatFailed, Manager
  <2>5. CASE RecoveryStep(i, p)
    BY <2>1, <2>5 DEF RecoveryStep, StopTrying, RecoveryNotNeeded, RecoveryWakes
  <2>6. CASE RegisterStep(i, p)
    BY <2>0, <2>1, <2>2, <2>6 DEF RegisterStep, RegisterRefused, AlreadyRegistered,
       DrawWorkerID, DrawFails, RegisterSucceeds, WorkerIDTaken, AllOccupied,
       RegisterErrs, Commit, Manager
  <2>7. CASE LifecycleStep(i, p)
    BY <2>0, <2>1, <2>2, <2>7 DEF LifecycleStep, Start, SpecificSucceeds, SpecificFails,
       StartSetsGenerator, Unregister, UnregisterGetReply, UnregisterDelReply,
       GeneratorShutdown, Commit, Manager
  <2>8. CASE Stop(i, p) \/ StartAgain(i, p)
    BY <2>0, <2>1, <2>2, <2>8 DEF Stop, StartAgain, Manager
  <2> QED BY <2>3, <2>4, <2>5, <2>6, <2>7, <2>8 DEF ProcStep
<1>7. CASE SpawnRecovery(i, p)
  <2>1. mgr'[i].recovering /\ \A j \in Instances \ {i} : proc'[j] = proc[j]
    BY <1>1, <1>7 DEF SpawnRecovery, Manager
  <2> QED BY <1>3, <1>5, <2>1 DEF RecoveryOK
<1>8. CASE RecoveryEnds(i, p)
  <2>1. p = "bg"
    BY <1>1, <1>8, NamesAssumption DEF RecoveryEnds, At, GoroutineOK, LoopLabels, MainLabels, Procs
  <2>2. proc' = [proc EXCEPT ![i] = [proc[i] EXCEPT !["bg"] = Resting]]
    BY <1>8, <2>1 DEF RecoveryEnds
  <2>3. proc'[i]["bg"].pc = "off" /\ \A j \in Instances \ {i} : proc'[j] = proc[j]
    BY <1>1, <1>2, <2>2 DEF Resting
  <2> QED BY <1>3, <1>5, <2>3 DEF RecoveryOK
<1>9. CASE OnlyGoroutine(i, p) /\ mgr'[i].recovering = mgr[i].recovering
  <2>1. \A j \in Instances : proc'[j]["bg"].pc # "off" => proc[j]["bg"].pc # "off"
    BY <1>1, <1>2, <1>4, <1>9 DEF OnlyGoroutine
  <2> QED BY <1>3, <1>5, <1>9, <2>1 DEF RecoveryOK
<1>10. ASSUME NEW g, NEW n, Commit(i, p, g, n), mgr'[i].recovering = mgr[i].recovering
       PROVE  RecoveryOK'
  <2> DEFINE l == LoopAfterStart(i)
  <2>1. l \in Loops
    BY <1>1, <1>10, IdleLoopIsALoop DEF Commit
  <2>2. /\ \A j \in Instances \ {i} : proc'[j] = proc[j]
        /\ \A r \in Procs \ {p, l} : proc'[i][r] = proc[i][r]
    BY <1>1, <1>10 DEF Commit
  <2> HIDE DEF l
  <2>3. \A j \in Instances : proc'[j]["bg"].pc # "off" => proc[j]["bg"].pc # "off"
    BY <1>2, <1>4, <2>1, <2>2
  <2> QED BY <1>3, <1>5, <1>10, <2>3 DEF RecoveryOK
<1>11. CASE RegisterSucceeds(i, p) \/ SpecificSucceeds(i, p)
  <2>1. mgr'[i].recovering = mgr[i].recovering
    <3>1. mgr[i] \in Manager
      BY <1>1
    <3>2. ASSUME NEW g, NEW n, Commit(i, p, g, n)
          PROVE  mgr'[i].recovering = mgr[i].recovering
      <4> DEFINE m == [mgr[i] EXCEPT !.workerID = proc[i][p].wid, !.registered = TRUE,
                   !.instanceID = proc[i][p].tok, !.lease = RegisteredLease(proc[i][p]),
                   !.generatorID = g, !.loop = LoopAfterStart(i), !.healthy = TRUE]
      <4>1. mgr' = [mgr EXCEPT ![i] = m]
        BY <3>2 DEF Commit
      <4>2. m.recovering = mgr[i].recovering
        BY <3>1 DEF Manager
      <4> HIDE DEF m
      <4> QED BY <1>1, <4>1, <4>2
    <3> QED BY <1>11, <3>2 DEF RegisterSucceeds, SpecificSucceeds
  <2> QED BY <1>10, <1>11, <2>1 DEF RegisterSucceeds, SpecificSucceeds
<1> QED BY <1>6, <1>7, <1>8, <1>9, <1>11, StepIsLocal

-----------------------------------------------------------------------------
(* Each step keeps the managers and Redis well formed.                      *)

LEMMA CommitManager ==
    ASSUME TypeInv, NEW i \in Instances, NEW p \in Procs, NEW g \in WorkerIDs,
           NEW next, Commit(i, p, g, next), Answered(i, p, "reg") \/ Answered(i, p, "spec")
    PROVE  ManagersOK'
<1> DEFINE q == proc[i][p]
           l == LoopAfterStart(i)
           d == RegisteredLease(q)
           m == [mgr[i] EXCEPT !.workerID = q.wid, !.registered = TRUE,
                   !.instanceID = q.tok, !.lease = d, !.generatorID = g,
                   !.loop = l, !.healthy = TRUE]
<1>1. /\ ManagersOK /\ ManagerOK(i, mgr[i]) /\ mgr[i] \in Manager
      /\ GoroutineOK(i, p, q) /\ q \in Proc
  BY DEF TypeInv, ManagersOK, GoroutinesOK
<1>2. l \in Loops
  BY <1>1, IdleLoopIsALoop DEF Commit
<1>3. /\ q.call \in {"reg", "spec"} /\ mgr[i].alive
      /\ q.wid \in WorkerIDs /\ q.tok # NoToken /\ q.tok \in TokensOf(i)
      /\ q.tok \in Tokens
  BY <1>1 DEF Answered, GoroutineOK, TokensOf, Tokens
<1>4. d \in NoLease .. TTL
  BY <1>1, TimeAssumption DEF RegisteredLease, Proc, NoLease
<1>5. mgr' = [mgr EXCEPT ![i] = m]
  BY DEF Commit
<1> HIDE DEF l, d, q
<1>6. m \in Manager
  BY <1>1, <1>2, <1>3, <1>4 DEF Manager
<1>7. /\ m.instanceID = q.tok /\ m.workerID = q.wid /\ m.registered
      /\ m.alive = mgr[i].alive /\ m.loop = l
  BY <1>1 DEF Manager
<1> HIDE DEF m
<1>8. ManagerOK(i, m)
  BY <1>2, <1>3, <1>6, <1>7, NamesAssumption DEF ManagerOK
<1> QED BY <1>1, <1>5, <1>8, ManagerChanges

LEMMA ManagerKept ==
    ASSUME TypeInv, NEW i \in Instances, NEW p \in Procs,
           ProcStep(i, p) \/ Stop(i, p) \/ StartAgain(i, p)
    PROVE  ManagersOK'
<1>1. ManagersOK /\ ManagerOK(i, mgr[i]) /\ mgr[i] \in Manager
      /\ GoroutineOK(i, p, proc[i][p]) /\ proc[i][p] \in Proc
  BY DEF TypeInv, ManagersOK, GoroutinesOK
<1>2. TTL \in NoLease .. TTL /\ NoLease \in NoLease .. TTL /\ -1 \in WorkerIDs \union {-1}
  BY TimeAssumption DEF NoLease
<1>3. CASE UNCHANGED mgr
  BY <1>1, <1>3 DEF ManagersOK
<1>4. ASSUME NEW h \in BOOLEAN, mgr' = [mgr EXCEPT ![i].healthy = h] PROVE ManagersOK'
  <2>1. ManagerOK(i, [mgr[i] EXCEPT !.healthy = h])
    BY <1>1 DEF ManagerOK, Manager
  <2> QED BY <1>1, <1>4, <2>1, ManagerChanges
<1>5. ASSUME mgr' = [mgr EXCEPT ![i].lease = TTL] PROVE ManagersOK'
  <2>1. ManagerOK(i, [mgr[i] EXCEPT !.lease = TTL])
    BY <1>1, <1>2 DEF ManagerOK, Manager
  <2> QED BY <1>1, <1>5, <2>1, ManagerChanges
<1>6. ASSUME NEW b \in BOOLEAN, mgr' = [mgr EXCEPT ![i].recovering = b] PROVE ManagersOK'
  <2>1. ManagerOK(i, [mgr[i] EXCEPT !.recovering = b])
    BY <1>1 DEF ManagerOK, Manager
  <2> QED BY <1>1, <1>6, <2>1, ManagerChanges
<1>7. CASE Execute(i, p) \/ CallFails(i, p)
  BY <1>3, <1>7 DEF Execute, CallFails
<1>8. CASE HeartbeatStep(i, p)
  <2>1. CASE Reacquire(i, p)
    <3> DEFINE m == [mgr[i] EXCEPT !.healthy = FALSE, !.lease = NoLease, !.workerID = -1,
                       !.registered = FALSE, !.instanceID = NoToken, !.loop = NoLoop]
    <3>1. mgr' = [mgr EXCEPT ![i] = m]
      BY <2>1 DEF Reacquire
    <3>2. ManagerOK(i, m)
      BY <1>1, <1>2 DEF ManagerOK, Manager
    <3> QED BY <1>1, <3>1, <3>2, ManagerChanges
  <2> QED
    BY <1>3, <1>4, <1>5, <1>6, <1>8, <2>1 DEF HeartbeatStep, SendHeartbeat,
       HeartbeatUnregistered, HeartbeatReply, StoreHealthy, LoopEnds, TryReRegister,
       ReRegisterReply, SpawnRecovery, BeatFailed, RenewedLease
<1>9. CASE RecoveryStep(i, p)
  BY <1>3, <1>6, <1>9 DEF RecoveryStep, StopTrying, RecoveryNotNeeded, RecoveryWakes,
     RecoveryEnds
<1>10. CASE RegisterStep(i, p)
  <2>1. CASE RegisterSucceeds(i, p)
    <3>1. proc[i][p].wid \in WorkerIDs
      BY <1>1, <2>1 DEF RegisterSucceeds, Answered, GoroutineOK
    <3> QED BY <2>1, <3>1, CommitManager DEF RegisterSucceeds
  <2> QED
    BY <1>3, <1>4, <1>10, <2>1 DEF RegisterStep, RegisterRefused, AlreadyRegistered,
       DrawWorkerID, DrawFails, WorkerIDTaken, AllOccupied, RegisterErrs
<1>11. CASE LifecycleStep(i, p)
  <2>1. CASE SpecificSucceeds(i, p)
    <3>1. mgr[i].generatorID \in WorkerIDs
      BY <1>1 DEF Manager
    <3> QED BY <2>1, <3>1, CommitManager DEF SpecificSucceeds
  <2>2. CASE StartSetsGenerator(i, p)
    <3>1. proc[i][p].wid \in WorkerIDs
      BY <1>1, <2>2 DEF StartSetsGenerator, At, GoroutineOK
    <3>2. ManagerOK(i, [mgr[i] EXCEPT !.generatorID = proc[i][p].wid])
      BY <1>1, <3>1 DEF ManagerOK, Manager
    <3> QED BY <1>1, <2>2, <3>2, ManagerChanges DEF StartSetsGenerator
  <2>3. CASE Unregister(i, p)
    <3> DEFINE m == [mgr[i] EXCEPT !.healthy = FALSE, !.workerID = -1,
                       !.registered = FALSE, !.instanceID = NoToken, !.loop = NoLoop]
    <3>1. ManagerOK(i, m)
      BY <1>1, <1>2 DEF ManagerOK, Manager
    <3>2. CASE mgr[i].registered
      BY <1>1, <2>3, <3>1, <3>2, ManagerChanges DEF Unregister
    <3>3. CASE ~mgr[i].registered
      BY <1>3, <2>3, <3>3 DEF Unregister
    <3> QED BY <3>2, <3>3
  <2> QED
    BY <1>3, <1>4, <1>11, <2>1, <2>2, <2>3 DEF LifecycleStep, Start, SpecificFails,
       UnregisterGetReply, UnregisterDelReply, GeneratorShutdown
<1>12. CASE Stop(i, p)
  <2>1. ManagerOK(i, [mgr[i] EXCEPT !.shuttingDown = TRUE])
    BY <1>1 DEF ManagerOK, Manager
  <2> QED BY <1>1, <1>12, <2>1, ManagerChanges DEF Stop
<1>13. CASE StartAgain(i, p)
  BY <1>3, <1>13 DEF StartAgain
<1> QED BY <1>7, <1>8, <1>9, <1>10, <1>11, <1>12, <1>13 DEF ProcStep

LEMMA OneManagerKept ==
    ASSUME TypeInv, NEW i \in Instances, SeeExpired(i) \/ ClearHealthy(i) \/ Crash(i)
    PROVE  ManagersOK'
<1>1. ManagersOK /\ ManagerOK(i, mgr[i]) /\ mgr[i] \in Manager
  BY DEF TypeInv, ManagersOK
<1>2. NoLease \in NoLease .. TTL
  BY TimeAssumption DEF NoLease
<1>3. CASE SeeExpired(i)
  <2>1. ManagerOK(i, [mgr[i] EXCEPT !.expiredSeen = TRUE])
    BY <1>1 DEF ManagerOK, Manager
  <2> QED BY <1>1, <1>3, <2>1, ManagerChanges DEF SeeExpired
<1>4. CASE ClearHealthy(i)
  <2> DEFINE m == [mgr[i] EXCEPT !.expiredSeen = FALSE, !.healthy = FALSE]
  <2>1. ManagerOK(i, m)
    BY <1>1 DEF ManagerOK, Manager
  <2>2. mgr' = [mgr EXCEPT ![i] = m]
    BY <1>1, <1>4 DEF ClearHealthy, ManagersOK, Manager
  <2> QED BY <1>1, <2>1, <2>2, ManagerChanges
<1>5. CASE Crash(i)
  <2> DEFINE m == [mgr[i] EXCEPT !.alive = FALSE, !.lease = NoLease,
                   !.healthy = FALSE, !.loop = NoLoop, !.expiredSeen = FALSE,
                   !.registered = FALSE, !.instanceID = NoToken]
  <2>1. ManagerOK(i, m)
    BY <1>1, <1>2 DEF ManagerOK, Manager
  <2>2. mgr' = [mgr EXCEPT ![i] = m]
    BY <1>5 DEF Crash
  <2> QED BY <1>1, <2>1, <2>2, ManagerChanges
<1> QED BY <1>3, <1>4, <1>5

LEMMA TickManager ==
    ASSUME TypeInv, Tick
    PROVE  ManagersOK'
<1> DEFINE m(i) == [mgr[i] EXCEPT !.lease = IF mgr[i].lease > 0 THEN mgr[i].lease - 1
                                            ELSE mgr[i].lease]
<1>1. ASSUME NEW i \in Instances PROVE ManagerOK(i, m(i))
  <2>1. ManagerOK(i, mgr[i]) /\ mgr[i] \in Manager
    BY DEF TypeInv, ManagersOK
  <2>2. (IF mgr[i].lease > 0 THEN mgr[i].lease - 1 ELSE mgr[i].lease) \in NoLease .. TTL
    BY <2>1, TimeAssumption DEF Manager, NoLease
  <2> QED BY <2>1, <2>2 DEF ManagerOK, Manager
<1>2. mgr' = [i \in Instances |-> m(i)]
  BY DEF Tick
<1> HIDE DEF m
<1> QED BY <1>1, <1>2 DEF ManagersOK, ManagerOK

LEMMA RedisKept ==
    ASSUME TypeInv, Next
    PROVE  RedisOK'
<1>1. /\ RedisOK
      /\ \A i \in Instances, p \in Procs :
            GoroutineOK(i, p, proc[i][p]) /\ proc[i][p] \in Proc
  BY DEF TypeInv, GoroutinesOK
<1>2. CASE UNCHANGED <<redis, lister, stable>>
  BY <1>1, <1>2 DEF redis, RedisOK
<1>3. NextCounter \in 0 .. Total
  BY <1>1, NextCounterInRange, TimeAssumption DEF RedisOK, Total
<1>4. ASSUME NEW i \in Instances, NEW p \in Procs, ProcStep(i, p)
      PROVE  RedisOK'
  <2>1. CASE Execute(i, p) \/ CallFails(i, p)
    <3>1. key' \in {key, Effect(proc[i][p])} /\ UNCHANGED <<counter, registry, lister, stable>>
      BY <2>1 DEF Execute, CallFails
    <3>2. key' \in [WorkerIDs -> [owner : Tokens \union {NoToken}, ttl : 0 .. TTL]]
      BY <1>1, <3>1, EffectOK DEF RedisOK
    <3> QED BY <1>1, <3>1, <3>2 DEF RedisOK
  <2>2. CASE HeartbeatStep(i, p)
    BY <1>2, <2>2 DEF HeartbeatStep, SendHeartbeat, HeartbeatUnregistered,
       HeartbeatReply, StoreHealthy, LoopEnds, TryReRegister, ReRegisterReply, Reacquire,
       SpawnRecovery
  <2>3. CASE RecoveryStep(i, p)
    BY <1>2, <2>3 DEF RecoveryStep, StopTrying, RecoveryNotNeeded, RecoveryWakes,
       RecoveryEnds
  <2>4. ASSUME NEW g, NEW n, Commit(i, p, g, n), proc[i][p].wid \in WorkerIDs
        PROVE  RedisOK'
    BY <1>1, <2>4 DEF Commit, RedisOK, Additions
  <2>5. CASE RegisterStep(i, p)
    <3>1. CASE DrawWorkerID(i, p) \/ DrawFails(i, p)
      BY <1>1, <1>3, <3>1 DEF DrawWorkerID, DrawFails, RedisOK
    <3>2. CASE RegisterSucceeds(i, p)
      BY <1>1, <2>4, <3>2 DEF RegisterSucceeds, Answered, GoroutineOK
    <3> QED
      BY <1>2, <2>5, <3>1, <3>2 DEF RegisterStep, RegisterRefused, AlreadyRegistered,
         WorkerIDTaken, AllOccupied, RegisterErrs
  <2>6. CASE LifecycleStep(i, p)
    <3>1. CASE SpecificSucceeds(i, p)
      BY <1>1, <2>4, <3>1 DEF SpecificSucceeds, Answered, GoroutineOK
    <3>2. CASE UnregisterGetReply(i, p) \/ UnregisterDelReply(i, p)
      BY <1>1, <3>2 DEF UnregisterGetReply, UnregisterDelReply, Removals, RedisOK
    <3> QED
      BY <1>2, <2>6, <3>1, <3>2 DEF LifecycleStep, Start, SpecificFails,
         StartSetsGenerator, Unregister, GeneratorShutdown
  <2> QED BY <1>4, <2>1, <2>2, <2>3, <2>5, <2>6 DEF ProcStep
<1>5. ASSUME NEW i \in Instances, NEW p \in Procs, Stop(i, p) \/ StartAgain(i, p)
      PROVE  RedisOK'
  BY <1>2, <1>5 DEF Stop, StartAgain
<1>6. ASSUME NEW i \in Instances, SeeExpired(i) \/ ClearHealthy(i) \/ Crash(i)
      PROVE  RedisOK'
  BY <1>2, <1>6 DEF SeeExpired, ClearHealthy, Crash, redis
<1>7. CASE ListMissing \/ RemoveMissing
  BY <1>1, <1>7 DEF ListMissing, RemoveMissing, RedisOK, redis
<1>8. CASE Tick
  <2>1. TTL \in Nat
    BY TimeAssumption
  <2>2. ASSUME NEW w \in WorkerIDs, key[w].ttl > 1
        PROVE  [key[w] EXCEPT !.ttl = key[w].ttl - 1]
                  \in [owner : Tokens \union {NoToken}, ttl : 0 .. TTL]
    <3>1. key[w] \in [owner : Tokens \union {NoToken}, ttl : 0 .. TTL]
      BY <1>1 DEF RedisOK
    <3>2. key[w].ttl - 1 \in 0 .. TTL
      BY <2>1, <2>2, <3>1
    <3> QED BY <3>1, <3>2
  <2>3. [owner |-> NoToken, ttl |-> 0] \in [owner : Tokens \union {NoToken}, ttl : 0 .. TTL]
    BY <2>1
  <2>4. key' \in [WorkerIDs -> [owner : Tokens \union {NoToken}, ttl : 0 .. TTL]]
    BY <1>8, <2>2, <2>3 DEF Tick
  <2> QED BY <1>1, <1>8, <2>4 DEF Tick, RedisOK
<1> QED BY <1>4, <1>5, <1>6, <1>7, <1>8 DEF Next

LEMMA TypeInvStep ==
    ASSUME TypeInv, [Next]_vars
    PROVE  TypeInv'
<1>1. RecoveryOK /\ ManagersOK /\ GoroutinesOK
  BY DEF TypeInv
<1>2. ASSUME Next PROVE RedisOK'
  BY <1>2, RedisKept
<1>3. ASSUME NEW i \in Instances, NEW p \in Procs,
             ProcStep(i, p) \/ Stop(i, p) \/ StartAgain(i, p), Next
      PROVE  TypeInv'
  <2>1. GoroutinesOK'
    BY <1>3, RedisCallGoroutine, HeartbeatGoroutine, RecoveryGoroutine, RegisterGoroutine,
       LifecycleGoroutine DEF ProcStep
  <2> QED BY <1>2, <1>3, <2>1, ManagerKept, RecoveryFlagKept DEF TypeInv
<1>4. ASSUME NEW i \in Instances, SeeExpired(i) \/ ClearHealthy(i), Next
      PROVE  TypeInv'
  <2>1. UNCHANGED proc /\ ManagersOK'
    BY <1>4, OneManagerKept DEF SeeExpired, ClearHealthy
  <2>2. \A j \in Instances : mgr'[j].recovering = mgr[j].recovering
    BY <1>1, <1>4 DEF SeeExpired, ClearHealthy, ManagersOK, Manager
  <2> QED BY <1>1, <1>2, <1>4, <2>1, <2>2 DEF TypeInv, GoroutinesOK, RecoveryOK
<1>5. ASSUME NEW i \in Instances, Crash(i), Next
      PROVE  TypeInv'
  <2>1. ManagersOK' /\ GoroutinesOK'
    BY <1>5, OneManagerKept, CrashGoroutine
  <2>2. \A j \in Instances \ {i} : mgr'[j] = mgr[j] /\ proc'[j] = proc[j]
    BY <1>1, <1>5 DEF Crash, ManagersOK, GoroutinesOK
  <2>3. proc'[i]["bg"].pc = "off"
    BY <1>1, <1>5 DEF Crash, GoroutinesOK, Resting, Procs
  <2>4. RecoveryOK'
    BY <1>1, <2>2, <2>3 DEF RecoveryOK
  <2> QED BY <1>2, <1>5, <2>1, <2>4 DEF TypeInv
<1>6. CASE ListMissing \/ RemoveMissing
  <2>1. UNCHANGED <<mgr, proc>> /\ Next
    BY <1>6 DEF ListMissing, RemoveMissing, Next
  <2> QED BY <1>1, <1>2, <2>1 DEF TypeInv, ManagersOK, GoroutinesOK, RecoveryOK
<1>7. CASE Tick
  <2>1. ManagersOK' /\ GoroutinesOK' /\ RedisOK'
    BY <1>2, <1>7, TickManager, TickGoroutine DEF Next
  <2>2. ASSUME NEW j \in Instances
        PROVE  /\ mgr'[j].recovering = mgr[j].recovering
               /\ proc'[j]["bg"].pc = proc[j]["bg"].pc
    <3>1. mgr[j] \in Manager /\ proc[j]["bg"] \in Proc /\ "bg" \in Procs
      BY <1>1 DEF ManagersOK, GoroutinesOK, Procs
    <3>2. proc'[j]["bg"] = Later(proc[j]["bg"])
      BY <1>7, <3>1 DEF Tick
    <3>3. Later(proc[j]["bg"]).pc = proc[j]["bg"].pc
      BY <3>1 DEF Later, Proc
    <3> QED BY <1>7, <3>1, <3>2, <3>3 DEF Tick, Manager
  <2>3. RecoveryOK'
    BY <1>1, <2>2 DEF RecoveryOK
  <2> QED BY <2>1, <2>3 DEF TypeInv
<1>8. CASE UNCHANGED vars
  BY <1>8 DEF vars, redis, TypeInv, RedisOK, ManagersOK, GoroutinesOK, RecoveryOK
<1> QED BY <1>3, <1>4, <1>5, <1>6, <1>7, <1>8 DEF Next

LEMMA TypeInvInit ==
    ASSUME Init
    PROVE  TypeInv
<1>1. TTL \in Nat /\ Total \in Nat /\ MaxWorkerID \in Nat /\ MaxConsecutiveFailures \in Nat
      /\ SyncAttempts \in Nat /\ 0 \in 0 .. Total
  BY TimeAssumption DEF Total
<1>2. RedisOK
  <2>1. [owner |-> NoToken, ttl |-> 0] \in [owner : Tokens \union {NoToken}, ttl : 0 .. TTL]
    BY <1>1
  <2> QED BY <1>1, <2>1 DEF Init, RedisOK
<1>3. ManagersOK
  <2>1. PICK want \in [Instances -> ConfiguredIDs] :
           mgr = [i \in Instances |->
                    [want |-> want[i], workerID |-> want[i], registered |-> FALSE,
                     instanceID |-> NoToken, healthy |-> FALSE,
                     lease |-> NoLease, shuttingDown |-> FALSE,
                     recovering |-> FALSE, loop |-> NoLoop,
                     expiredSeen |-> FALSE, generatorID |-> want[i],
                     alive |-> TRUE]]
    BY DEF Init
  <2>2. \A i \in Instances : want[i] \in WorkerIDs
    BY TimeAssumption DEF WorkerIDs
  <2>3. NoLease \in NoLease .. TTL
    BY <1>1 DEF NoLease
  <2>4. \A i \in Instances : mgr[i] \in Manager
    BY <2>1, <2>2, <2>3 DEF Manager
  <2>5. \A i \in Instances : ~mgr[i].registered /\ mgr[i].instanceID = NoToken
    BY <2>1
  <2> QED BY <2>1, <2>4, <2>5 DEF ManagersOK, ManagerOK
<1>4. GoroutinesOK
  <2> DEFINE n == [Resting EXCEPT !.pc = "start"]
  <2>1. ASSUME NEW i \in Instances, NEW p \in Procs
        PROVE  /\ GoroutineOK(i, p, Resting) /\ Resting \in Proc
               /\ p = "main" => GoroutineOK(i, p, n)
    <3>1. GoroutineOK(i, p, Resting) /\ Resting \in Proc
      BY RestingOK
    <3>2. n \in Proc /\ n.pc = "start" /\ n.call = "none" /\ n.tok = NoToken /\ n.draws = 0
      BY <3>1 DEF Proc, Labels, Resting
    <3> HIDE DEF n
    <3>3. p = "main" => GoroutineOK(i, p, n)
      BY <3>2, NamesAssumption DEF GoroutineOK, MainLabels
    <3> QED BY <3>1, <3>3
  <2>2. proc = [i \in Instances |-> [p \in Procs |-> IF p = "main" THEN n ELSE Resting]]
    BY DEF Init
  <2> HIDE DEF n
  <2>3. \A i \in Instances, p \in Procs : GoroutineOK(i, p, proc[i][p])
    BY <2>1, <2>2
  <2>4. \A i \in Instances, p \in Procs : (IF p = "main" THEN n ELSE Resting) \in Proc
    BY <2>1 DEF GoroutineOK
  <2> QED BY <2>2, <2>3, <2>4 DEF GoroutinesOK
<1>5. RecoveryOK
  BY DEF Init, RecoveryOK, Resting, Procs
<1> QED BY <1>2, <1>3, <1>4, <1>5 DEF TypeInv

\* The managers, their goroutines and Redis keep their types: among them, each
\* goroutine is at labels of its own, a registered manager has a worker ID and an
\* instance ID of its own, and the INCR counter stays within the worker IDs.
THEOREM WorkerManagerTypes == Spec => [](TypeOK /\ TypeInv)
<1>1. TypeInv => TypeOK
  BY DEF TypeInv, TypeOK, RedisOK, ManagersOK, GoroutinesOK
<1>2. TypeInv /\ [Next]_vars => TypeInv'
  BY TypeInvStep
<1> QED BY <1>1, <1>2, TypeInvInit, PTL DEF Spec

-----------------------------------------------------------------------------
(* Stop.                                                                    *)

\* Only Stop sets shuttingDown, nothing resets it, and only a crash ends an instance.
LEMMA ShuttingDownKept ==
    ASSUME TypeInv, NEW i \in Instances, NEW p \in Procs,
           ProcStep(i, p) \/ Stop(i, p) \/ StartAgain(i, p)
    PROVE  /\ mgr'[i].alive = mgr[i].alive
           /\ mgr'[i].shuttingDown = mgr[i].shuttingDown \/ Stop(i, p)
           /\ Stop(i, p) => mgr'[i].shuttingDown
<1> DEFINE Kept(m) == m.alive = mgr[i].alive /\ m.shuttingDown = mgr[i].shuttingDown
<1>0. SUFFICES Kept(mgr'[i]) \/ (Stop(i, p) /\ mgr'[i].shuttingDown)
  BY DEF Stop, TypeInv, ManagersOK, Manager
<1>1. mgr[i] \in Manager /\ mgr \in [Instances -> Manager]
  BY DEF TypeInv, ManagersOK
<1>2. CASE UNCHANGED mgr
  BY <1>2
<1>3. ASSUME NEW m, mgr' = [mgr EXCEPT ![i] = m], Kept(m)
      PROVE  Kept(mgr'[i])
  BY <1>1, <1>3
<1>4. CASE Execute(i, p) \/ CallFails(i, p)
  BY <1>2, <1>4 DEF Execute, CallFails
<1>5. CASE HeartbeatStep(i, p)
  <2>1. CASE Reacquire(i, p)
    <3> DEFINE m == [mgr[i] EXCEPT !.healthy = FALSE, !.lease = NoLease,
                        !.workerID = -1, !.registered = FALSE,
                        !.instanceID = NoToken, !.loop = NoLoop]
    <3>1. mgr' = [mgr EXCEPT ![i] = m]
      BY <1>1, <2>1 DEF Reacquire
    <3>2. Kept(m)
      BY <1>1 DEF Manager
    <3> HIDE DEF m
    <3> QED BY <1>3, <3>1, <3>2
  <2>2. CASE SpawnRecovery(i, p)
    BY <1>1, <2>2 DEF SpawnRecovery, Manager
  <2>3. ASSUME NEW c, BeatFailed(i, p, c) PROVE Kept(mgr'[i])
    BY <1>1, <2>3 DEF BeatFailed, Manager
  <2>4. CASE StoreHealthy(i, p)
    BY <1>1, <2>4 DEF StoreHealthy, Manager
  <2>5. CASE HeartbeatReply(i, p) \/ ReRegisterReply(i, p)
    BY <1>1, <1>2, <2>3, <2>5 DEF HeartbeatReply, ReRegisterReply, Manager
  <2>6. CASE \/ SendHeartbeat(i, p) \/ HeartbeatUnregistered(i, p)
             \/ LoopEnds(i, p) \/ TryReRegister(i, p)
    BY <1>2, <2>3, <2>6 DEF SendHeartbeat, HeartbeatUnregistered, LoopEnds, TryReRegister
  <2> QED BY <1>5, <2>1, <2>2, <2>4, <2>5, <2>6 DEF HeartbeatStep
<1>6. CASE RecoveryStep(i, p)
  BY <1>1, <1>2, <1>3, <1>6
     DEF RecoveryStep, StopTrying, RecoveryNotNeeded, RecoveryWakes, RecoveryEnds, Manager
<1>7. ASSUME NEW g, NEW n, Commit(i, p, g, n) PROVE Kept(mgr'[i])
  <2> DEFINE q == proc[i][p]
             l == LoopAfterStart(i)
             m == [mgr[i] EXCEPT !.workerID = q.wid, !.registered = TRUE,
                     !.instanceID = q.tok, !.lease = RegisteredLease(q),
                     !.generatorID = g, !.loop = l, !.healthy = TRUE]
  <2>1. mgr' = [mgr EXCEPT ![i] = m]
    BY <1>7 DEF Commit
  <2>2. Kept(m)
    BY <1>1 DEF Manager
  <2> HIDE DEF m
  <2> QED BY <1>3, <2>1, <2>2
<1>8. CASE RegisterStep(i, p)
  BY <1>1, <1>2, <1>3, <1>7, <1>8 DEF RegisterStep, RegisterRefused, AlreadyRegistered,
     DrawWorkerID, DrawFails, RegisterSucceeds, WorkerIDTaken, AllOccupied, RegisterErrs,
     Manager
<1>9. CASE LifecycleStep(i, p)
  <2>1. CASE Unregister(i, p)
    <3> DEFINE m == [mgr[i] EXCEPT !.healthy = FALSE, !.workerID = -1,
                        !.registered = FALSE, !.instanceID = NoToken, !.loop = NoLoop]
    <3>1. mgr' = [mgr EXCEPT ![i] = m] \/ mgr' = mgr
      BY <1>1, <2>1 DEF Unregister
    <3>2. Kept(m)
      BY <1>1 DEF Manager
    <3> HIDE DEF m
    <3> QED BY <1>2, <1>3, <3>1, <3>2
  <2>2. CASE StartSetsGenerator(i, p) \/ SpecificFails(i, p)
    BY <1>1, <1>2, <2>2 DEF StartSetsGenerator, SpecificFails, Manager
  <2>3. CASE SpecificSucceeds(i, p)
    BY <1>7, <2>3 DEF SpecificSucceeds
  <2>4. CASE \/ Start(i, p) \/ UnregisterGetReply(i, p)
             \/ UnregisterDelReply(i, p) \/ GeneratorShutdown(i, p)
    BY <1>2, <2>4 DEF Start, UnregisterGetReply, UnregisterDelReply, GeneratorShutdown
  <2> QED BY <1>9, <2>1, <2>2, <2>3, <2>4 DEF LifecycleStep
<1>10. CASE Stop(i, p) \/ StartAgain(i, p)
  BY <1>1, <1>2, <1>3, <1>10 DEF Stop, StartAgain, Manager
<1> QED BY <1>4, <1>5, <1>6, <1>8, <1>9, <1>10 DEF ProcStep

\* The mutex is taken by who draws a worker ID or registers the configured one,
\* and nobody else registers.
LEMMA MutexTaken ==
    ASSUME TypeInv, NEW i \in Instances, NEW p \in Procs, MuFree(i),
           ProcStep(i, p) \/ Stop(i, p) \/ StartAgain(i, p)
    PROVE  /\ MuFree(i)' \/ DrawWorkerID(i, p) \/ Start(i, p)
           /\ mgr'[i].registered => mgr[i].registered
<1>1. /\ ManagersOK /\ GoroutinesOK /\ mgr[i] \in Manager
      /\ mgr \in [Instances -> Manager] /\ proc \in [Instances -> [Procs -> Proc]]
      /\ GoroutineOK(i, p, proc[i][p]) /\ proc[i][p] \in Proc
  BY DEF TypeInv, ManagersOK, GoroutinesOK
<1>2. /\ proc[i][p].pc # "retry"
      /\ proc[i][p].pc \in {"sent", "replied"} => proc[i][p].call \notin {"reg", "spec"}
  BY DEF MuFree, HoldsMu
<1>3. ~RegisterSucceeds(i, p) /\ ~SpecificSucceeds(i, p) /\ ~WorkerIDTaken(i, p)
  BY <1>2 DEF RegisterSucceeds, SpecificSucceeds, WorkerIDTaken, Answered
<1>4. mgr'[i].registered => mgr[i].registered
  <2>1. CASE UNCHANGED mgr
    BY <2>1
  <2>2. ASSUME NEW m, mgr' = [mgr EXCEPT ![i] = m],
               m.registered \in {mgr[i].registered, FALSE}
        PROVE  mgr'[i].registered => mgr[i].registered
    BY <1>1, <2>2
  <2>3. CASE Execute(i, p) \/ CallFails(i, p)
    BY <2>1, <2>3 DEF Execute, CallFails
  <2>4. CASE HeartbeatStep(i, p)
    BY <1>1, <2>1, <2>2, <2>4 DEF HeartbeatStep, SendHeartbeat, HeartbeatUnregistered,
       HeartbeatReply, StoreHealthy, LoopEnds, TryReRegister, ReRegisterReply,
       Reacquire, BeatFailed, SpawnRecovery, Manager
  <2>5. CASE RecoveryStep(i, p)
    BY <1>1, <2>1, <2>2, <2>5
       DEF RecoveryStep, StopTrying, RecoveryNotNeeded, RecoveryWakes, RecoveryEnds, Manager
  <2>6. CASE RegisterStep(i, p)
    BY <1>1, <1>3, <2>1, <2>2, <2>6 DEF RegisterStep, RegisterRefused, AlreadyRegistered,
       DrawWorkerID, DrawFails, AllOccupied, RegisterErrs, Manager
  <2>7. CASE LifecycleStep(i, p)
    BY <1>1, <1>3, <2>1, <2>2, <2>7 DEF LifecycleStep, Start, SpecificFails,
       StartSetsGenerator, Unregister, UnregisterGetReply, UnregisterDelReply,
       GeneratorShutdown, Manager
  <2>8. CASE Stop(i, p) \/ StartAgain(i, p)
    BY <1>1, <2>1, <2>2, <2>8 DEF Stop, StartAgain, Manager
  <2> QED BY <2>3, <2>4, <2>5, <2>6, <2>7, <2>8 DEF ProcStep
<1>5. MuFree(i)' \/ DrawWorkerID(i, p) \/ Start(i, p)
  <2> DEFINE n == proc'[i][p]
             Holds == n.pc = "retry" \/ (n.pc \in {"sent", "replied"} /\ n.call \in {"reg", "spec"})
  <2>1. ASSUME ~Holds, ~SpawnRecovery(i, p) PROVE MuFree(i)'
    <3>1. OnlyGoroutine(i, p)
      BY <1>3, <2>1, StepIsLocal
    <3> QED BY <1>1, <2>1, <3>1 DEF MuFree, HoldsMu, OnlyGoroutine
  <2>3. ASSUME NEW l, GoTo(i, p, l), l \notin {"retry", "sent", "replied"} PROVE ~Holds
    BY <1>1, <2>3 DEF GoTo, Proc
  <2>4. ASSUME NEW l, Finish(i, p, l), l # "retry" PROVE ~Holds
    BY <1>1, <2>4 DEF Finish, Proc
  <2>5. ASSUME RegisterFailed(i, p) PROVE ~Holds
    <3>1. AfterFailure(p, proc[i][p]).pc \in {"sleep", "failed", "spawn", "try"}
      BY DEF AfterFailure, Resting
    <3> QED BY <1>1, <2>5, <3>1 DEF RegisterFailed
  <2>6. CASE Execute(i, p) \/ CallFails(i, p)
    <3>1. PICK a : Answer(i, p, a)
      BY <2>6 DEF Execute, CallFails
    <3>2. proc[i][p].pc = "sent"
      BY <2>6 DEF Execute, CallFails, At
    <3>3. n.call = proc[i][p].call /\ n.pc = "replied"
      BY <1>1, <3>1 DEF Answer, Proc
    <3>4. ~SpawnRecovery(i, p)
      BY <3>2 DEF SpawnRecovery, At
    <3> QED BY <1>2, <2>1, <3>2, <3>3, <3>4
  <2>7. CASE HeartbeatStep(i, p)
    <3>1. ASSUME NEW c, BeatFailed(i, p, c) PROVE ~Holds
      BY <1>1, <3>1 DEF BeatFailed, Proc
    <3>2. ASSUME NEW w, NEW t, NEW call \in {"hb", "rr"},
                 proc' = [proc EXCEPT ![i][p] = Calling(@, call, w, t)]
          PROVE  ~Holds
      BY <1>1, <3>2 DEF Calling, Proc
    <3>3. CASE SpawnRecovery(i, p)
      <4> DEFINE e == [proc[i] EXCEPT ![p].pc = "idle"]
                 f == [e EXCEPT !["bg"].pc = "check"]
      <4>1. \A r \in Procs : /\ e[r].pc \in {proc[i][r].pc, "idle"} /\ e[r].call = proc[i][r].call
                             /\ f[r].pc \in {e[r].pc, "check"} /\ f[r].call = e[r].call
        BY <1>1 DEF Proc, Procs
      <4>2. proc'[i] \in {e, f}
        BY <1>1, <3>3 DEF SpawnRecovery
      <4> HIDE DEF e, f
      <4> QED BY <4>1, <4>2 DEF MuFree, HoldsMu
    <3>4. ASSUME StoreHealthy(i, p) \/ LoopEnds(i, p) \/ Reacquire(i, p) PROVE ~Holds
      <4>1. CASE StoreHealthy(i, p)
        <5>1. n = [proc[i][p] EXCEPT !.pc = "idle", !.fails = 0]
          BY <1>1, <4>1 DEF StoreHealthy
        <5> QED BY <1>1, <5>1 DEF Proc
      <4>2. CASE LoopEnds(i, p)
        BY <1>1, <4>2 DEF LoopEnds, Resting
      <4>3. CASE Reacquire(i, p)
        <5>1. n = [proc[i][p] EXCEPT !.pc = "try", !.left = SyncAttempts]
          BY <1>1, <4>3 DEF Reacquire
        <5> QED BY <1>1, <5>1 DEF Proc
      <4> QED BY <3>4, <4>1, <4>2, <4>3
    <3>5. ASSUME HeartbeatReply(i, p) \/ ReRegisterReply(i, p) PROVE ~Holds
      BY <2>4, <3>1, <3>5 DEF HeartbeatReply, ReRegisterReply
    <3>6. ASSUME SendHeartbeat(i, p) \/ HeartbeatUnregistered(i, p) PROVE ~Holds
      BY <3>1, <3>2, <3>6 DEF SendHeartbeat, HeartbeatUnregistered
    <3>7. ASSUME TryReRegister(i, p) PROVE ~Holds
      BY <2>3, <3>2, <3>7 DEF TryReRegister
    <3> HIDE DEF Holds
    <3> QED
      BY <2>1, <2>7, <3>3, <3>4, <3>5, <3>6, <3>7 DEF HeartbeatStep
  <2>8. CASE RecoveryStep(i, p)
    <3>1. ASSUME RecoveryEnds(i, p) PROVE ~Holds
      BY <1>1, <3>1 DEF RecoveryEnds, Resting
    <3>2. ~Holds
      BY <2>3, <2>8, <3>1 DEF RecoveryStep, StopTrying, RecoveryNotNeeded, RecoveryWakes
    <3>3. ~SpawnRecovery(i, p)
      BY <2>8 DEF RecoveryStep, StopTrying, RecoveryNotNeeded, RecoveryWakes, RecoveryEnds,
         SpawnRecovery, At
    <3> QED BY <2>1, <3>2, <3>3
  <2>9. CASE RegisterStep(i, p) /\ ~SpawnRecovery(i, p)
    <3>1. ASSUME AlreadyRegistered(i, p) PROVE ~Holds
      <4>1. PICK q : proc' = [proc EXCEPT ![i] = [proc[i] EXCEPT ![p] = AfterSuccess(p, q)]]
        BY <3>1 DEF AlreadyRegistered
      <4>2. AfterSuccess(p, q).pc \in {"exit", "startset", "up"}
        BY DEF AfterSuccess, Resting
      <4> QED BY <1>1, <4>1, <4>2
    <3>2. ~Holds \/ DrawWorkerID(i, p)
      BY <1>3, <2>5, <2>9, <3>1
         DEF RegisterStep, RegisterRefused, DrawFails, AllOccupied, RegisterErrs
    <3> QED BY <2>1, <2>9, <3>2
  <2>10. CASE LifecycleStep(i, p) /\ ~SpawnRecovery(i, p)
    <3>1. ASSUME Unregister(i, p) PROVE ~Holds
      <4>1. CASE mgr[i].registered
        <5>1. n = Calling(proc[i][p], "get", mgr[i].workerID, mgr[i].instanceID)
          BY <1>1, <3>1, <4>1 DEF Unregister
        <5> QED BY <1>1, <5>1 DEF Calling, Proc
      <4>2. CASE ~mgr[i].registered
        BY <2>3, <3>1, <4>2 DEF Unregister
      <4> QED BY <4>1, <4>2
    <3>2. ASSUME UnregisterGetReply(i, p) PROVE ~Holds
      <4>1. ASSUME proc' = [proc EXCEPT ![i][p] =
                       [Calling(@, "del", proc[i][p].wid, proc[i][p].tok)
                           EXCEPT !.clk = proc[i][p].clk]]
            PROVE  ~Holds
        BY <1>1, <4>1 DEF Calling, Proc
      <4> QED BY <2>4, <3>2, <4>1 DEF UnregisterGetReply
    <3>3. ~Holds \/ Start(i, p)
      BY <1>3, <2>3, <2>4, <2>10, <3>1, <3>2
         DEF LifecycleStep, SpecificFails, StartSetsGenerator, UnregisterDelReply,
             GeneratorShutdown
    <3> QED BY <2>1, <2>10, <3>3
  <2>11. CASE (Stop(i, p) \/ StartAgain(i, p)) /\ ~SpawnRecovery(i, p)
    BY <2>1, <2>3, <2>11 DEF Stop, StartAgain
  <2> QED
    BY <2>6, <2>7, <2>8, <2>9, <2>10, <2>11 DEF ProcStep, HeartbeatStep
<1> QED BY <1>4, <1>5

\* The main goroutine is left alone by the others.
LEMMA MainLeftAlone ==
    ASSUME TypeInv, NEW i \in Instances, NEW p \in Procs \ {"main"},
           ProcStep(i, p) \/ Stop(i, p) \/ StartAgain(i, p)
    PROVE  proc'[i]["main"] = proc[i]["main"]
<1>1. /\ ManagersOK /\ proc \in [Instances -> [Procs -> Proc]] /\ "main" \in Procs
      /\ "main" \notin Loops
  BY NamesAssumption DEF TypeInv, GoroutinesOK, Procs
<1>2. CASE OnlyGoroutine(i, p)
  BY <1>1, <1>2 DEF OnlyGoroutine
<1>3. CASE SpawnRecovery(i, p)
  BY <1>1, <1>3 DEF SpawnRecovery
<1>4. CASE RegisterSucceeds(i, p) \/ SpecificSucceeds(i, p)
  <2>1. PICK g, n : Commit(i, p, g, n)
    BY <1>4 DEF RegisterSucceeds, SpecificSucceeds
  <2>2. LoopAfterStart(i) \in Loops
    BY <1>1, <2>1, IdleLoopIsALoop DEF Commit
  <2> QED BY <1>1, <2>1, <2>2 DEF Commit
<1> QED BY <1>2, <1>3, <1>4, StepIsLocal

\* Only Stop leads to UnregisterWorkerID, and only through it Stop goes on.
LEMMA OnlyStopUnregisters ==
    ASSUME TypeInv, NEW i \in Instances, NEW p \in Procs, ~Past(i),
           ProcStep(i, p) \/ Stop(i, p) \/ StartAgain(i, p)
    PROVE  /\ Past(i)' => Unregister(i, p)
           /\ proc'[i]["main"].pc = "unreg" => proc[i]["main"].pc = "unreg" \/ Stop(i, p)
<1> DEFINE n == proc'[i]["main"]
           Late == \/ n.pc \in {"shutdown", "stopped", "unreg"}
                   \/ n.call \in {"get", "del"}
<1>1. /\ proc \in [Instances -> [Procs -> Proc]] /\ "main" \in Procs
      /\ GoroutineOK(i, p, proc[i][p]) /\ proc[i][p] \in Proc
  BY DEF TypeInv, GoroutinesOK, Procs
<1>2. CASE p # "main"
  BY <1>2, MainLeftAlone DEF Past
<1>3. CASE p = "main"
  <2>1. /\ proc[i][p].pc \notin {"shutdown", "stopped"} /\ proc[i][p].call \notin {"get", "del"}
        /\ "main" \notin Loops
    BY <1>3, NamesAssumption DEF Past
  <2>2. ASSUME NEW l, GoTo(i, p, l), l \notin {"shutdown", "stopped", "unreg"} PROVE ~Late
    BY <1>1, <1>3, <2>1, <2>2 DEF GoTo, Proc
  <2>3. ASSUME NEW l, Finish(i, p, l), l \notin {"shutdown", "stopped", "unreg"} PROVE ~Late
    BY <1>1, <1>3, <2>3 DEF Finish, Proc
  <2>4. ASSUME RegisterFailed(i, p) PROVE ~Late
    <3>1. n = [Resting EXCEPT !.pc = "failed"]
      BY <1>1, <1>3, <2>4 DEF RegisterFailed, AfterFailure
    <3> QED BY <3>1 DEF Resting
  <2>5. CASE Execute(i, p) \/ CallFails(i, p)
    <3>1. PICK a : Answer(i, p, a)
      BY <2>5 DEF Execute, CallFails
    <3>2. n = [proc[i][p] EXCEPT !.pc = "replied", !.ans = a]
      BY <1>1, <1>3, <3>1 DEF Answer
    <3>3. n.call = proc[i][p].call /\ n.pc = "replied"
      BY <1>1, <3>2 DEF Proc
    <3> QED BY <2>1, <3>3 DEF Past
  <2>6. CASE HeartbeatStep(i, p)
    BY <1>1, <1>3, <2>1, <2>6 DEF HeartbeatStep, SendHeartbeat, HeartbeatUnregistered,
       BeatDue, HeartbeatReply, StoreHealthy, LoopEnds, TryReRegister, ReRegisterReply,
       Reacquire, SpawnRecovery, At, Answered, GoroutineOK, MainLabels
  <2>7. CASE RecoveryStep(i, p)
    BY <1>1, <1>3, <2>7 DEF RecoveryStep, StopTrying, RecoveryNotNeeded, RecoveryWakes,
       RecoveryEnds, At, GoroutineOK, MainLabels
  <2>8. CASE RegisterStep(i, p)
    <3>1. ASSUME AlreadyRegistered(i, p) PROVE ~Late
      <4>1. PICK q : proc' = [proc EXCEPT ![i] = [proc[i] EXCEPT ![p] = AfterSuccess(p, q)]]
        BY <3>1 DEF AlreadyRegistered
      <4>2. n = [Resting EXCEPT !.pc = "startset", !.wid = q.wid]
        BY <1>1, <1>3, <4>1 DEF AfterSuccess
      <4> QED BY <4>2 DEF Resting
    <3>2. ASSUME DrawWorkerID(i, p) PROVE ~Late
      <4> DEFINE w == NextCounter - 1
                 d == proc[i][p].draws + 1
      <4>1. n = [Calling(proc[i][p], "reg", w, FreshToken(i)) EXCEPT !.draws = d]
        BY <1>1, <1>3, <3>2 DEF DrawWorkerID
      <4> HIDE DEF w, d
      <4> QED BY <1>1, <4>1 DEF Calling, Proc
    <3>3. ASSUME RegisterSucceeds(i, p) PROVE ~Late
      <4>1. Commit(i, p, proc[i][p].wid, AfterSuccess(p, proc[i][p]))
        BY <3>3 DEF RegisterSucceeds
      <4>2. LoopAfterStart(i) # "main"
        BY <2>1, <4>1, IdleLoopIsALoop DEF Commit, TypeInv
      <4>3. n = AfterSuccess(p, proc[i][p])
        BY <1>1, <1>3, <4>1, <4>2 DEF Commit
      <4> QED BY <1>3, <4>3 DEF AfterSuccess, Resting
    <3>4. ~Late
      BY <2>3, <2>4, <2>8, <3>1, <3>2, <3>3
         DEF RegisterStep, RegisterRefused, DrawFails, WorkerIDTaken, AllOccupied, RegisterErrs
    <3> QED BY <3>4 DEF Past
  <2>9. CASE LifecycleStep(i, p) /\ ~Unregister(i, p)
    <3>1. ASSUME Start(i, p) PROVE ~Late
      <4>1. ASSUME proc' = [proc EXCEPT ![i][p] =
                          Calling(@, "spec", mgr[i].want, FreshToken(i))]
            PROVE  ~Late
        <5>1. n = Calling(proc[i][p], "spec", mgr[i].want, FreshToken(i))
          BY <1>1, <1>3, <4>1
        <5> QED BY <1>1, <5>1 DEF Calling, Proc
      <4> QED BY <2>2, <3>1, <4>1 DEF Start
    <3>2. ASSUME SpecificSucceeds(i, p) PROVE ~Late
      <4>1. Commit(i, p, mgr[i].generatorID, [Resting EXCEPT !.pc = "running"])
        BY <3>2 DEF SpecificSucceeds
      <4>2. LoopAfterStart(i) # "main"
        BY <2>1, <4>1, IdleLoopIsALoop DEF Commit, TypeInv
      <4>3. n = [Resting EXCEPT !.pc = "running"]
        BY <1>1, <1>3, <4>1, <4>2 DEF Commit
      <4> QED BY <4>3 DEF Resting
    <3>3. ~Late
      BY <2>1, <2>3, <2>9, <3>1, <3>2
         DEF LifecycleStep, SpecificFails, StartSetsGenerator, UnregisterGetReply,
             UnregisterDelReply, GeneratorShutdown, At, Answered
    <3> QED BY <3>3 DEF Past
  <2>10. CASE Unregister(i, p)
    BY <1>3, <2>10 DEF Unregister, At
  <2>11. CASE Stop(i, p)
    <3>1. n.pc = "unreg" /\ n.call = proc[i][p].call
      BY <1>1, <1>3, <2>11 DEF Stop, GoTo, Proc
    <3> QED BY <2>1, <2>11, <3>1 DEF Past
  <2>12. CASE StartAgain(i, p)
    <3>1. ~Late
      BY <2>2, <2>12 DEF StartAgain
    <3> QED BY <3>1 DEF Past
  <2> QED BY <2>5, <2>6, <2>7, <2>8, <2>9, <2>10, <2>11, <2>12 DEF ProcStep
<1> QED BY <1>2, <1>3

LEMMA StopInvStep ==
    ASSUME TypeInv, StopInv, [Next]_vars
    PROVE  StopInv'
<1>1. /\ ManagersOK /\ GoroutinesOK
      /\ mgr \in [Instances -> Manager] /\ proc \in [Instances -> [Procs -> Proc]]
      /\ "main" \in Procs
  BY DEF TypeInv, ManagersOK, GoroutinesOK, Procs
<1> DEFINE Inv(i) == /\ Past(i) => ~mgr[i].registered /\ MuFree(i)
                     /\ Past(i) \/ proc[i]["main"].pc = "unreg" => mgr[i].shuttingDown
<1>2. \A i \in Instances : Inv(i)
  BY DEF StopInv
<1>3. ASSUME NEW i \in Instances, proc'[i] = proc[i],
             mgr'[i].registered = mgr[i].registered,
             mgr'[i].shuttingDown = mgr[i].shuttingDown
      PROVE  Inv(i)'
  BY <1>2, <1>3 DEF Past, MuFree, HoldsMu
<1>4. ASSUME NEW i \in Instances, NEW p \in Procs,
             ProcStep(i, p) \/ Stop(i, p) \/ StartAgain(i, p)
      PROVE  StopInv'
  <2>1. ASSUME NEW j \in Instances \ {i} PROVE Inv(j)'
    <3>1. mgr'[j] = mgr[j]
      BY <1>1, <1>4, StepIsLocal DEF OnlyManager
    <3>2. proc'[j] = proc[j]
      <4>1. ASSUME NEW f, proc' = [proc EXCEPT ![i] = f] PROVE proc'[j] = proc[j]
        BY <1>1, <4>1
      <4>2. CASE OnlyGoroutine(i, p)
        BY <1>1, <4>2 DEF OnlyGoroutine
      <4>3. CASE SpawnRecovery(i, p)
        BY <4>1, <4>3 DEF SpawnRecovery
      <4>4. CASE RegisterSucceeds(i, p) \/ SpecificSucceeds(i, p)
        <5>1. PICK g, n : Commit(i, p, g, n)
          BY <4>4 DEF RegisterSucceeds, SpecificSucceeds
        <5> QED BY <4>1, <5>1 DEF Commit
      <4> QED BY <1>1, <1>4, <4>2, <4>3, <4>4, StepIsLocal
    <3> QED BY <1>3, <3>1, <3>2
  <2>2. Inv(i)'
    <3>1. CASE Past(i)
      <4>1. ~mgr[i].registered /\ MuFree(i) /\ mgr[i].shuttingDown
        BY <1>2, <3>1
      <4>2. ~DrawWorkerID(i, p)
        <5>1. ~At(i, p, "retry")
          BY <4>1 DEF MuFree, HoldsMu, At
        <5> QED BY <4>1, <5>1 DEF DrawWorkerID, Drawing
      <4>3. ~Start(i, p)
        <5>1. GoroutineOK(i, p, proc[i][p]) /\ p # "main" => p \in Loops \/ p = "bg"
          BY DEF Procs
        <5>2. Start(i, p) => p = "main" /\ proc[i][p].call = "none"
          BY <1>1, <5>1 DEF Start, At, GoroutinesOK, GoroutineOK, LoopLabels, BgLabels
        <5> QED BY <3>1, <5>2 DEF Start, At, Past
      <4> QED BY <1>4, <4>1, <4>2, <4>3, MutexTaken, ShuttingDownKept
    <3>2. CASE ~Past(i) /\ Past(i)'
      <4>1. Unregister(i, p)
        BY <1>4, <3>2, OnlyStopUnregisters
      <4>2. p = "main" /\ proc[i][p].pc = "unreg" /\ MuFree(i)
        <5>1. proc[i][p].pc = "unreg" /\ MuFree(i) /\ GoroutineOK(i, p, proc[i][p])
          BY <1>1, <4>1 DEF Unregister, At, GoroutinesOK
        <5> QED BY <5>1 DEF GoroutineOK, LoopLabels, BgLabels, Procs
      <4>3. mgr[i].shuttingDown
        BY <1>2, <4>2
      <4>4. ~mgr'[i].registered
        <5>1. mgr[i] \in Manager
          BY <1>1
        <5> QED BY <1>1, <4>1, <5>1 DEF Unregister, Manager
      <4>5. ~DrawWorkerID(i, p) /\ ~Start(i, p)
        BY <4>2 DEF DrawWorkerID, Drawing, Registering, Start, At
      <4> QED BY <1>4, <4>2, <4>3, <4>4, <4>5, MutexTaken, ShuttingDownKept
    <3>3. CASE ~Past(i) /\ ~Past(i)' /\ proc'[i]["main"].pc = "unreg"
      <4>1. CASE Stop(i, p)
        <5>1. mgr[i] \in Manager
          BY <1>1
        <5>2. mgr'[i].shuttingDown
          BY <1>1, <4>1, <5>1 DEF Stop, Manager
        <5> QED BY <3>3, <5>2
      <4>2. CASE proc[i]["main"].pc = "unreg"
        <5>1. mgr[i].shuttingDown
          BY <1>2, <4>2
        <5>2. mgr'[i].shuttingDown
          BY <1>4, <5>1, ShuttingDownKept
        <5> QED BY <3>3, <5>2
      <4> QED BY <1>4, <3>3, <4>1, <4>2, OnlyStopUnregisters
    <3> QED BY <3>1, <3>2, <3>3
  <2> QED BY <2>1, <2>2 DEF StopInv
<1>5. ASSUME NEW i \in Instances, SeeExpired(i) \/ ClearHealthy(i)
      PROVE  StopInv'
  <2>1. ASSUME NEW j \in Instances
        PROVE  /\ mgr'[j].registered = mgr[j].registered
               /\ mgr'[j].shuttingDown = mgr[j].shuttingDown
               /\ proc'[j] = proc[j]
    <3>1. mgr[j] \in Manager
      BY <1>1
    <3>2. CASE SeeExpired(i)
      BY <1>1, <3>1, <3>2 DEF SeeExpired, Manager
    <3>3. CASE ClearHealthy(i)
      <4>1. mgr' = [mgr EXCEPT ![i] = [mgr[i] EXCEPT !.expiredSeen = FALSE, !.healthy = FALSE]]
        BY <1>1, <3>3 DEF ClearHealthy
      <4> QED BY <1>1, <3>1, <3>3, <4>1 DEF ClearHealthy, Manager
    <3> QED BY <1>5, <3>2, <3>3
  <2>2. \A j \in Instances : Inv(j)'
    BY <1>3, <2>1
  <2> QED BY <2>2 DEF StopInv
<1>6. ASSUME NEW i \in Instances, Crash(i)
      PROVE  StopInv'
  <2>1. ASSUME NEW j \in Instances \ {i} PROVE Inv(j)'
    BY <1>1, <1>3, <1>6 DEF Crash
  <2>2. proc'[i]["main"] = Resting
    BY <1>1, <1>6 DEF Crash
  <2>3. Inv(i)'
    BY <2>2 DEF Past, Resting
  <2> QED BY <2>1, <2>3 DEF StopInv
<1>7. CASE UNCHANGED <<mgr, proc>>
  <2>1. \A j \in Instances : Inv(j)'
    BY <1>3, <1>7
  <2> QED BY <2>1 DEF StopInv
<1>8. CASE Tick
  <2>1. ASSUME NEW j \in Instances, NEW p \in Procs
        PROVE  proc'[j][p].pc = proc[j][p].pc /\ proc'[j][p].call = proc[j][p].call
    <3>1. proc[j][p] \in Proc /\ proc'[j][p] = Later(proc[j][p])
      BY <1>1, <1>8 DEF Tick
    <3> QED BY <3>1 DEF Later, Proc
  <2>2. \A j \in Instances : /\ mgr'[j].registered = mgr[j].registered
                             /\ mgr'[j].shuttingDown = mgr[j].shuttingDown
    BY <1>1, <1>8 DEF Tick, Manager
  <2>3. ASSUME NEW j \in Instances PROVE Inv(j)'
    <3>1. /\ Past(j)' <=> Past(j)
          /\ MuFree(j)' <=> MuFree(j)
      BY <1>1, <2>1 DEF Past, MuFree, HoldsMu
    <3> QED BY <1>1, <1>2, <2>1, <2>2, <3>1
  <2> QED BY <2>3 DEF StopInv
<1>9. CASE ListMissing \/ RemoveMissing
  BY <1>7, <1>9 DEF ListMissing, RemoveMissing
<1> QED BY <1>4, <1>5, <1>6, <1>7, <1>8, <1>9 DEF Next, vars

LEMMA StopInvInit == Init => StopInv
BY DEF Init, StopInv, Past, Resting, Procs

\* UnregisterWorkerID is final.  However long a heartbeat, a recovery or a late
\* answer takes, once UnregisterWorkerID has left its critical section none of
\* them registers the instance or starts a heartbeat loop again.
THEOREM StoppedInstancesStayUnregistered == Spec => []StoppedStaysUnregistered
<1>1. Init => StopInv
  BY StopInvInit
<1>2. TypeInv /\ StopInv /\ [Next]_vars => StopInv'
  BY StopInvStep
<1>3. TypeInv /\ StopInv => StoppedStaysUnregistered
  BY DEF TypeInv, ManagersOK, ManagerOK, StopInv, StoppedStaysUnregistered, Past
<1> QED BY <1>1, <1>2, <1>3, WorkerManagerTypes, PTL DEF Spec
=============================================================================
