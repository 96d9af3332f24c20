-------------------------- MODULE WorkerLeaseProofs --------------------------
(***************************************************************************)
(* The managers, their goroutines and Redis implement LeaseService.tla.     *)
(***************************************************************************)
EXTENDS WorkerTimelyProofs

-----------------------------------------------------------------------------
(* The refinement mapping.                                                  *)

\* The instance IDs that an instance's manager and goroutines remember.
Known(i) == {mgr[i].instanceID} \union {proc[i][p].tok : p \in Procs}

\* Who holds a key, in terms of what the instances know.
HoldersKnown ==
    \A w \in WorkerIDs :
        /\ Holders[w] \in Instances \union {"nobody", "ghost"}
        /\ Holders[w] = "nobody" <=> key[w].owner = NoToken
        /\ \A i \in Instances :
              Holders[w] = i <=> key[w].owner # NoToken /\ key[w].owner \in Known(i)

\* An instance ID is known to one instance only.
LEMMA OneKnows ==
    ASSUME TypeInv, NEW i \in Instances, NEW j \in Instances, NEW t,
           t # NoToken, t \in Known(i), t \in Known(j)
    PROVE  i = j
<1>1. ASSUME NEW k \in Instances PROVE Known(k) \subseteq TokensOf(k) \union {NoToken}
  <2>1. mgr[k].instanceID \in TokensOf(k) \union {NoToken}
    BY DEF TypeInv, ManagersOK, ManagerOK
  <2>2. \A p \in Procs : proc[k][p].tok \in TokensOf(k) \union {NoToken}
    BY DEF TypeInv, GoroutinesOK, GoroutineOK
  <2> QED BY <2>1, <2>2 DEF Known
<1>2. t \in TokensOf(i) /\ t \in TokensOf(j)
  BY <1>1
<1> QED BY <1>2, TokensApart

LEMMA HoldersAreKnown == TypeInv => HoldersKnown
<1> SUFFICES ASSUME TypeInv, NEW w \in WorkerIDs
             PROVE  /\ Holders[w] \in Instances \union {"nobody", "ghost"}
                    /\ Holders[w] = "nobody" <=> key[w].owner = NoToken
                    /\ \A i \in Instances :
                          Holders[w] = i <=> key[w].owner # NoToken /\ key[w].owner \in Known(i)
  BY DEF HoldersKnown
<1>1. "nobody" \notin Instances /\ "ghost" \notin Instances
  BY NamesAssumption
<1> DEFINE t == key[w].owner
           h == CHOOSE i \in Instances : t \in Known(i)
<1>2. Holders[w] = IF t = NoToken THEN "nobody"
                   ELSE IF \E i \in Instances : t \in Known(i) THEN h ELSE "ghost"
  BY DEF Holders, Leaseholder, Known
<1>3. ASSUME t # NoToken, NEW i \in Instances, t \in Known(i)
      PROVE  h = i
  <2>1. h \in Instances /\ t \in Known(h)
    BY <1>3
  <2> HIDE DEF h
  <2> QED BY <1>3, <2>1, OneKnows
<1>4. (\E i \in Instances : t \in Known(i)) => h \in Instances /\ t \in Known(h)
  OBVIOUS
<1> HIDE DEF h
<1> QED BY <1>1, <1>2, <1>3, <1>4

LEMMA NextHoldersAreKnown == TypeInv' => HoldersKnown'
BY HoldersAreKnown, PTL

\* Whoever may generate holds a worker ID that is its own.
LoansHeld ==
    \A i \in Instances :
        /\ Lent[i] # -1 => Lent[i] \in WorkerIDs /\ Holders[Lent[i]] = i
        /\ MayGenerate(i) => Up(i) /\ Holding(i)

LEMMA LoansAreHeld == PromptInv => LoansHeld
<1> SUFFICES ASSUME PromptInv, NEW i \in Instances, MayGenerate(i)
             PROVE  /\ Lent[i] \in WorkerIDs /\ Holders[Lent[i]] = i
                    /\ Up(i) /\ Holding(i)
  BY DEF LoansHeld, Lent
<1>1. Up(i) /\ Holding(i)
  BY DEF PromptInv, Structure, Timing, Up, MayGenerate, Starting, Searching
<1>2. HolderOK(mgr[i], proc[i][mgr[i].loop], key[mgr[i].workerID])
  BY <1>1 DEF PromptInv, Timing, LeaseInTime, Holding
<1>3. /\ mgr[i].generatorID = mgr[i].workerID /\ mgr[i].workerID \in WorkerIDs
      /\ mgr[i].instanceID # NoToken
      /\ key[mgr[i].workerID].owner = mgr[i].instanceID
  BY <1>1, <1>2 DEF Holding, HolderOK, MayGenerate, PromptInv, TypeInv, ManagersOK, ManagerOK
<1>4. Holders[mgr[i].workerID] = i
  BY <1>3, HoldersAreKnown DEF HoldersKnown, Known, PromptInv
<1> QED BY <1>1, <1>3, <1>4 DEF Lent

LEMMA NextLoansAreHeld == PromptInv' => LoansHeld'
BY LoansAreHeld, PTL

-----------------------------------------------------------------------------
(* The steps of the abstract service, in terms of the mapping.              *)

\* Loans end and keys that are not lent are freed or abandoned.
LEMMA Released ==
    ASSUME PromptInv',
           \A j \in Instances : Lent'[j] \in {Lent[j], -1},
           \A w \in WorkerIDs : Holders'[w] \in {Holders[w], "nobody", "ghost"}
    PROVE  Leases!Next
<1> DEFINE losers    == {j \in Instances : Lent'[j] = -1}
           expired   == {w \in WorkerIDs : Holders'[w] = "nobody"}
           abandoned == {w \in WorkerIDs : Holders'[w] = "ghost"}
<1>1. Lent' = [j \in Instances |-> Lent'[j]] /\ Holders' = [w \in WorkerIDs |-> Holders'[w]]
  BY DEF Lent, Holders
<1>2. Lent' = [j \in Instances |-> IF j \in losers THEN -1 ELSE Lent[j]]
  BY <1>1
<1>3. ASSUME NEW j \in Instances PROVE Lent'[j] \notin expired \union abandoned
  <2>1. Lent'[j] = -1 \/ (Lent'[j] \in WorkerIDs /\ Holders'[Lent'[j]] = j)
    BY NextLoansAreHeld DEF LoansHeld
  <2>2. -1 \notin WorkerIDs /\ "nobody" \notin Instances /\ "ghost" \notin Instances
    BY NamesAssumption DEF WorkerIDs
  <2> QED BY <2>1, <2>2
<1>4. Holders' = [w \in WorkerIDs |-> IF w \in expired THEN "nobody"
                                      ELSE IF w \in abandoned THEN "ghost" ELSE Holders[w]]
  BY <1>1
<1>5. Leases!Release(losers, expired, abandoned)
  BY <1>2, <1>3, <1>4 DEF Leases!Release
<1>6. losers \in SUBSET Instances /\ expired \in SUBSET WorkerIDs /\ abandoned \in SUBSET WorkerIDs
  OBVIOUS
<1> QED BY <1>5, <1>6 DEF Leases!Next

\* A free key gets an instance as its holder.
LEMMA Reserved ==
    ASSUME NEW i \in Instances, NEW w \in WorkerIDs, Lent' = Lent,
           Holders[w] = "nobody", Holders'[w] = i,
           \A v \in WorkerIDs \ {w} : Holders'[v] = Holders[v]
    PROVE  Leases!Next
<1>1. Holders' = [v \in WorkerIDs |-> Holders'[v]] /\ DOMAIN Holders = WorkerIDs
      /\ Holders = [v \in WorkerIDs |-> Holders[v]]
  BY DEF Holders
<1>2. Holders' = [Holders EXCEPT ![w] = i]
  BY <1>1
<1>3. Leases!Reserve(i, w)
  BY <1>2 DEF Leases!Reserve
<1> QED BY <1>3 DEF Leases!Next

\* An instance without a loan gets the worker ID of a key that it holds.
LEMMA LoanChanges ==
    ASSUME PromptInv', NEW i \in Instances,
           \A w \in WorkerIDs : Holders'[w] = Holders[w],
           \A j \in Instances \ {i} : Lent'[j] = Lent[j],
           Lent[i] = -1 \/ Lent'[i] \in {Lent[i], -1}
    PROVE  Leases!Next
<1>1. CASE Lent'[i] \in {Lent[i], -1}
  BY <1>1, Released
<1>2. CASE Lent'[i] \notin {Lent[i], -1}
  <2>1. Lent'[i] \in WorkerIDs /\ Holders'[Lent'[i]] = i /\ Lent[i] = -1
    BY <1>2, NextLoansAreHeld DEF LoansHeld
  <2>2. /\ Lent' = [j \in Instances |-> Lent'[j]] /\ Lent = [j \in Instances |-> Lent[j]]
        /\ Holders' = [w \in WorkerIDs |-> Holders'[w]]
        /\ Holders = [w \in WorkerIDs |-> Holders[w]]
    BY DEF Lent, Holders
  <2>3. Lent' = [Lent EXCEPT ![i] = Lent'[i]]
    BY <2>2
  <2>4. Holders' = Holders
    BY <2>2
  <2>5. Leases!Lend(i, Lent'[i])
    BY <2>1, <2>3, <2>4 DEF Leases!Lend
  <2> QED BY <2>1, <2>5 DEF Leases!Next
<1> QED BY <1>1, <1>2

-----------------------------------------------------------------------------
(* What instances know changes with their calls and registrations.          *)

\* Only the instance that acts learns or forgets an instance ID.
LEMMA HoldersOf ==
    ASSUME TypeInv, TypeInv', NEW i \in Instances, OthersKept(i), NEW w \in WorkerIDs,
           key'[w].owner = key[w].owner
    PROVE  /\ (key[w].owner # NoToken =>
                 (key[w].owner \in Known(i) <=> key[w].owner \in Known(i)')) =>
                     Holders'[w] = Holders[w]
           /\ (key[w].owner # NoToken /\ key[w].owner \in Known(i)' => key[w].owner \in Known(i)) =>
                     Holders'[w] \in {Holders[w], "nobody", "ghost"}
<1>1. HoldersKnown /\ HoldersKnown'
  BY HoldersAreKnown, NextHoldersAreKnown
<1>2. \A j \in Instances \ {i} : Known(j)' = Known(j)
  BY DEF OthersKept, Known
<1>3. "nobody" \notin Instances /\ "ghost" \notin Instances
  BY NamesAssumption
<1>4. /\ Holders[w] \in Instances \union {"nobody", "ghost"}
      /\ Holders'[w] \in Instances \union {"nobody", "ghost"}
      /\ Holders[w] = "nobody" <=> key[w].owner = NoToken
      /\ Holders'[w] = "nobody" <=> key[w].owner = NoToken
      /\ \A j \in Instances :
            Holders[w] = j <=> key[w].owner # NoToken /\ key[w].owner \in Known(j)
      /\ \A j \in Instances :
            Holders'[w] = j <=> key[w].owner # NoToken /\ key[w].owner \in Known(j)'
  BY <1>1 DEF HoldersKnown
<1> QED BY <1>2, <1>3, <1>4

\* The loans of the others stay.
LEMMA LentOf ==
    ASSUME NEW i \in Instances, OthersKept(i)
    PROVE  \A j \in Instances \ {i} : Lent'[j] = Lent[j]
BY DEF OthersKept, Lent, MayGenerate

\* An instance that registered a worker ID knows the instance ID of its key only.
LEMMA HolderKnowsOne ==
    ASSUME TypeInv, NEW i \in Instances, Holding(i)
    PROVE  Known(i) \subseteq {mgr[i].instanceID, NoToken}
<1>1. ASSUME NEW p \in Procs PROVE proc[i][p].tok \in {mgr[i].instanceID, NoToken}
  <2>1. GoroutineOK(i, p, proc[i][p])
    BY DEF TypeInv, GoroutinesOK
  <2>2. CASE p = mgr[i].loop
    BY <2>1, <2>2 DEF Holding, GoroutineOK
  <2>3. CASE p # mgr[i].loop
    <3>1. proc[i][p].call = "none"
      BY <2>1, <2>3 DEF Holding, GoroutineOK, Ends, Procs
    <3> QED BY <2>1, <3>1 DEF GoroutineOK
  <2> QED BY <2>2, <2>3
<1> QED BY <1>1 DEF Known

HoldingKnowsOne == \A i \in Instances : Holding(i) => Known(i) \subseteq {mgr[i].instanceID, NoToken}
LEMMA HoldersKnowOne == TypeInv => HoldingKnowsOne
BY HolderKnowsOne DEF HoldingKnowsOne
LEMMA NextHoldersKnowOne == TypeInv' => HoldingKnowsOne'
BY HoldersKnowOne, PTL

\* Without a call a goroutine remembers no instance ID.
LEMMA IdlersKnowNothing ==
    ASSUME TypeInv', NEW i \in Instances, NEW p \in Procs,
           proc'[i][p].pc \notin {"sent", "replied"}
    PROVE  proc'[i][p].tok = NoToken
BY DEF TypeInv, GoroutinesOK, GoroutineOK

\* A call that Redis executes, or that fails.
LEMMA CallImplements ==
    ASSUME PromptInv, PromptInv', NEW i \in Instances, NEW p \in Procs,
           Execute(i, p) \/ CallFails(i, p), proc[i][p].call # "del"
    PROVE  Leases!Next
<1> DEFINE q == proc[i][p]
           n == proc'[i][p]
<1>1. /\ TypeInv /\ TypeInv' /\ KeysLive /\ q.pc = "sent" /\ mgr' = mgr /\ ProcStep(i, p)
      /\ key' = key \/ key' = Effect(q)
  BY DEF PromptInv, Timing, Execute, CallFails, At, ProcStep
<1>2. PICK a : Answer(i, p, a)
  BY DEF Execute, CallFails
<1>3. n.pc = "replied" /\ n.tok = q.tok
  BY <1>1, <1>2, AnswerDoes DEF TypeInv
<1>4. OthersKept(i) /\ RestKept(i, p)
  <2>1. ~SpawnRecovery(i, p) /\ ~RegisterSucceeds(i, p) /\ ~SpecificSucceeds(i, p)
    BY <1>1 DEF SpawnRecovery, RegisterSucceeds, SpecificSucceeds, At, Answered
  <2> QED BY <1>1, <2>1, StepFrame
<1>5. Known(i)' = Known(i) /\ q.tok \in Known(i)
  <2>1. \A r \in Procs : proc'[i][r].tok = proc[i][r].tok
    BY <1>3, <1>4 DEF RestKept
  <2> QED BY <1>1, <2>1 DEF Known
<1>6. Lent' = Lent
  <2>1. \A j \in Instances : MayGenerate(j)' <=> MayGenerate(j)
    <3>1. proc'[i]["main"].pc = proc[i]["main"].pc \/ p = "main"
      BY <1>4 DEF RestKept, Procs
    <3> QED BY <1>1, <1>3, <1>4, <3>1 DEF MayGenerate, OthersKept
  <2> QED BY <1>1, <2>1 DEF Lent
<1>7. KeysGrow(q)
  BY <1>1, StepGrowsKeys
<1>8. ASSUME NEW w \in WorkerIDs, key'[w].owner = key[w].owner
      PROVE  Holders'[w] = Holders[w]
  BY <1>1, <1>4, <1>5, <1>8, HoldersOf
<1>9. CASE \A w \in WorkerIDs : key'[w].owner = key[w].owner
  BY <1>6, <1>8, <1>9, Released
<1>10. CASE ~ \A w \in WorkerIDs : key'[w].owner = key[w].owner
  <2>1. PICK w \in WorkerIDs : key'[w].owner # key[w].owner
    BY <1>10
  <2>2. key' = Effect(q) /\ key' # key
    BY <1>1, <2>1
  <2>3. key' = [key EXCEPT ![q.wid] = [owner |-> q.tok, ttl |-> TTL]]
    BY <2>2 DEF Effect
  <2>4. w = q.wid /\ \A v \in WorkerIDs \ {w} : key'[v] = key[v]
    BY <1>1, <2>1, <2>3 DEF TypeInv, RedisOK
  <2>5. /\ key'[w].owner = q.tok /\ key[w].owner = NoToken
        /\ key'[w].owner # NoToken
    BY <1>7, <2>1 DEF KeysGrow, Grows
  <2>6. Holders[w] = "nobody"
    BY <1>1, <2>5, HoldersAreKnown DEF HoldersKnown
  <2>7. Holders'[w] = i
    BY <1>1, <1>5, <2>5, NextHoldersAreKnown DEF HoldersKnown
  <2>8. \A v \in WorkerIDs \ {w} : Holders'[v] = Holders[v]
    BY <1>8, <2>4
  <2> QED BY <1>6, <2>6, <2>7, <2>8, Reserved
<1> QED BY <1>9, <1>10

\* A step after which an instance has no registration, or still has none.
LEMMA UnregisteredImplements ==
    ASSUME PromptInv, PromptInv', NEW i \in Instances, OthersKept(i), key' = key,
           ~mgr'[i].registered,
           mgr'[i].instanceID \in {mgr[i].instanceID, NoToken},
           \A p \in Procs : \/ proc'[i][p].tok \in {proc[i][p].tok, NoToken}
                            \/ proc'[i][p].tok \notin InUse(i)
    PROVE  Leases!Next
<1>1. TypeInv /\ TypeInv'
  BY DEF PromptInv
<1>2. ~MayGenerate(i)'
  BY NextLoansAreHeld DEF LoansHeld, Holding
<1>3. Lent'[i] = -1
  BY <1>2 DEF Lent
<1>4. ASSUME NEW w \in WorkerIDs
      PROVE  Holders'[w] \in {Holders[w], "nobody", "ghost"}
  <2>1. ASSUME key[w].owner # NoToken, key[w].owner \in Known(i)'
        PROVE  key[w].owner \in Known(i)
    <3>1. key[w].owner \in InUse(i)
      BY DEF InUse
    <3> QED BY <2>1, <3>1 DEF Known
  <2> QED BY <1>1, <2>1, HoldersOf
<1>5. \A j \in Instances : Lent'[j] \in {Lent[j], -1}
  BY <1>3, LentOf
<1> QED BY <1>4, <1>5, Released

\* A step after which an instance has a registration whose instance ID it knew.
LEMMA RegisteredImplements ==
    ASSUME PromptInv, PromptInv', NEW i \in Instances, OthersKept(i), key' = key,
           Holding(i)', mgr'[i].instanceID \in Known(i),
           Known(i) \subseteq {mgr'[i].instanceID, NoToken},
           mgr'[i].generatorID = mgr[i].generatorID \/ ~MayGenerate(i)
    PROVE  Leases!Next
<1>1. TypeInv /\ TypeInv'
  BY DEF PromptInv
<1>2. /\ Known(i)' \subseteq {mgr'[i].instanceID, NoToken}
      /\ mgr'[i].instanceID \in Known(i)'
  BY <1>1, NextHoldersKnowOne DEF HoldingKnowsOne, Known
<1>3. \A w \in WorkerIDs : Holders'[w] = Holders[w]
  BY <1>1, <1>2, HoldersOf
<1>4. Lent[i] = -1 \/ Lent'[i] \in {Lent[i], -1}
  BY DEF Lent
<1> QED BY <1>3, <1>4, LentOf, LoanChanges

\* A registration is committed by the one goroutine that knows its instance ID.
LEMMA CommitImplements ==
    ASSUME PromptInv, PromptInv', NEW i \in Instances, NEW p \in Procs, Up(i),
           Starting(i) \/ Searching(i),
           RegisterSucceeds(i, p) \/ SpecificSucceeds(i, p)
    PROVE  Leases!Next
<1> DEFINE q == proc[i][p]
<1>1. PICK g, n : Commit(i, p, g, n)
  BY DEF RegisterSucceeds, SpecificSucceeds
<1>2. q.pc = "replied" /\ q.call \in {"reg", "spec"}
  BY DEF RegisterSucceeds, SpecificSucceeds, Answered
<1>3. /\ TypeInv /\ TypeInv' /\ ~mgr[i].registered /\ mgr[i].instanceID = NoToken
      /\ ProcStep(i, p) /\ NoLoop \notin Loops
  BY NamesAssumption DEF PromptInv, Starting, Searching, ProcStep, RegisterStep, LifecycleStep
<1>4. mgr[i].loop = NoLoop
  BY <1>3 DEF TypeInv, ManagersOK, ManagerOK
<1>5. key' = key /\ mgr'[i].registered /\ mgr'[i].instanceID = q.tok
      /\ mgr'[i].alive = mgr[i].alive /\ mgr'[i].shuttingDown = mgr[i].shuttingDown
  BY <1>1, <1>2, <1>3, <1>4, CommitDoes
<1>6. OthersKept(i)
  BY <1>3, StepFrame
<1>7. Holding(i)'
  BY <1>5 DEF PromptInv, Structure, Up, Starting, Searching
<1>8. ASSUME NEW r \in Procs \ {p} PROVE proc[i][r].tok = NoToken
  <2>1. GoroutineOK(i, r, proc[i][r]) /\ GoroutineOK(i, p, q)
    BY <1>3 DEF TypeInv, GoroutinesOK
  <2>2. proc[i][r].pc \notin {"sent", "replied"}
    <3>1. CASE Starting(i)
      BY <1>2, <3>1 DEF Starting
    <3>2. CASE Searching(i)
      BY <1>2, <2>1, <3>2, NamesAssumption DEF Searching, Retries, Lingers, Procs
    <3> QED BY <3>1, <3>2
  <2> QED BY <2>1, <2>2 DEF GoroutineOK
<1>9. Known(i) \subseteq {q.tok, NoToken} /\ q.tok \in Known(i)
  BY <1>3, <1>8 DEF Known
<1>10. ~MayGenerate(i)
  BY <1>3, LoansAreHeld DEF LoansHeld, Holding
<1> QED BY <1>5, <1>6, <1>7, <1>9, <1>10, RegisteredImplements

\* While nothing is registered the steps of an instance lend nothing.
LEMMA SearcherImplements ==
    ASSUME PromptInv, PromptInv', NEW i \in Instances, NEW p \in Procs, Up(i),
           Starting(i) \/ Searching(i), key' = key,
           ~mgr'[i].registered, SameID(mgr[i], mgr'[i]) \/ mgr' = mgr,
           \/ proc'[i][p].pc \notin {"sent", "replied"}
           \/ proc'[i][p].tok \notin InUse(i),
           \A r \in Procs \ {p} : \/ proc'[i][r] = proc[i][r]
                                  \/ proc'[i][r].pc \notin {"sent", "replied"},
           OthersKept(i)
    PROVE  Leases!Next
<1>1. TypeInv'
  BY DEF PromptInv
<1>2. mgr'[i].instanceID = mgr[i].instanceID
  BY DEF SameID
<1>3. \A r \in Procs : \/ proc'[i][r].tok \in {proc[i][r].tok, NoToken}
                       \/ proc'[i][r].tok \notin InUse(i)
  BY <1>1, IdlersKnowNothing
<1> QED BY <1>2, <1>3, UnregisteredImplements

LEMMA StartingImplements ==
    ASSUME Prompt, PromptInv, PromptInv', NEW i \in Instances, NEW p \in Procs, Up(i), Starting(i),
           ProcStep(i, p) \/ Stop(i, p) \/ StartAgain(i, p)
    PROVE  Leases!Next
<1>1. TypeInv /\ TypeInv' /\ StopInv /\ OthersKept(i) /\ ~mgr[i].registered
  BY StepFrame DEF PromptInv, Starting
<1>2. p = "main" /\ GoroutineOK(i, p, proc[i][p]) /\ ~Past(i)
  BY <1>1, StartingSteps DEF StopInv, Up, TypeInv, GoroutinesOK
<1>3. CASE Execute(i, p) \/ CallFails(i, p)
  BY <1>2, <1>3, CallImplements DEF Past
<1>4. CASE RegisterSucceeds(i, p) \/ SpecificSucceeds(i, p)
  BY <1>4, CommitImplements
<1>5. CASE /\ ~RegisterSucceeds(i, p) /\ ~SpecificSucceeds(i, p)
           /\ ~Execute(i, p) /\ ~CallFails(i, p)
  <2>1. RestKept(i, p)
    BY <1>1, <1>2, <1>5, StepFrame DEF SpawnRecovery, At, Starting
  <2>2. /\ key' = key /\ (mgr' = mgr \/ SameID(mgr[i], mgr'[i]))
        /\ \/ proc'[i][p].pc \notin {"sent", "replied"}
           \/ proc'[i][p].tok \notin InUse(i)
    <3>1. CASE DrawWorkerID(i, p)
      BY <1>1, <3>1, DrawWorkerIDDoes
    <3>2. CASE Start(i, p)
      BY <1>1, <3>2, StartDoes
    <3> QED BY <1>1, <1>5, <3>1, <3>2, StartingSteps DEF KeepsManager
  <2>3. ~mgr'[i].registered
    BY <1>1, <2>2 DEF SameID
  <2> QED BY <1>1, <2>1, <2>2, <2>3, SearcherImplements DEF RestKept
<1> QED BY <1>3, <1>4, <1>5

LEMMA SearchingImplements ==
    ASSUME Prompt, PromptInv, PromptInv', NEW i \in Instances, NEW p \in Procs, Up(i), Searching(i),
           ProcStep(i, p) \/ Stop(i, p) \/ StartAgain(i, p)
    PROVE  Leases!Next
<1>1. /\ TypeInv /\ TypeInv' /\ StopInv /\ OthersKept(i) /\ ~mgr[i].registered
      /\ GoroutineOK(i, p, proc[i][p]) /\ ~MayStop /\ "running" \notin StartAgainFrom
      /\ p \in Loops => p # "bg" /\ p # "main"
  BY StepFrame, NamesAssumption DEF PromptInv, Searching, TypeInv, GoroutinesOK, Prompt
<1>2. p = "bg" \/ p \in Loops
  BY <1>1, SearchingSteps DEF Stop
<1>3. CASE Execute(i, p) \/ CallFails(i, p)
  <2>1. proc[i][p].call # "del"
    BY <1>1, <1>2, NamesAssumption DEF GoroutineOK
  <2> QED BY <1>3, <2>1, CallImplements
<1>4. CASE RegisterSucceeds(i, p)
  BY <1>4, CommitImplements
<1>5. CASE SpawnRecovery(i, p)
  <2>1. p # "bg" /\ proc[i][p].pc = "spawn"
    BY <1>1, <1>2, <1>5, NamesAssumption DEF SpawnRecovery, At, GoroutineOK, BgLabels
  <2>2. /\ key' = key /\ SameID(mgr[i], mgr'[i]) /\ proc'[i][p].pc = "idle"
        /\ ~mgr[i].recovering => proc'[i]["bg"].pc = "check"
        /\ \A r \in Procs \ {p} : \/ proc'[i][r] = proc[i][r]
                                  \/ r = "bg" /\ ~mgr[i].recovering
    BY <1>1, <1>5, <2>1, SpawnRecoveryDoes
  <2>3. ~mgr'[i].registered
    BY <1>1, <2>2 DEF SameID
  <2>4. \A r \in Procs \ {p} : \/ proc'[i][r] = proc[i][r]
                               \/ proc'[i][r].pc \notin {"sent", "replied"}
    BY <2>2
  <2> QED BY <1>1, <2>2, <2>3, <2>4, SearcherImplements
<1>6. CASE /\ ~RegisterSucceeds(i, p) /\ ~SpawnRecovery(i, p)
           /\ ~Execute(i, p) /\ ~CallFails(i, p)
  <2>1. RestKept(i, p)
    <3>1. ~SpecificSucceeds(i, p)
      BY <1>1, <1>2, NamesAssumption DEF SpecificSucceeds, Answered, GoroutineOK
    <3> QED BY <1>1, <1>6, <3>1, StepFrame
  <2>2. /\ key' = key /\ (mgr' = mgr \/ SameID(mgr[i], mgr'[i]))
        /\ \/ proc'[i][p].pc \notin {"sent", "replied"}
           \/ proc'[i][p].tok \notin InUse(i)
    <3>1. CASE DrawWorkerID(i, p)
      BY <1>1, <3>1, DrawWorkerIDDoes
    <3> QED BY <1>1, <1>2, <1>6, <3>1, SearchingSteps DEF KeepsManager, Stop
  <2>3. ~mgr'[i].registered
    BY <1>1, <2>2 DEF SameID
  <2> QED BY <1>1, <2>1, <2>2, <2>3, SearcherImplements DEF RestKept
<1> QED BY <1>3, <1>4, <1>5, <1>6

LEMMA HoldingImplements ==
    ASSUME Prompt, PromptInv, PromptInv', NEW i \in Instances, NEW p \in Procs, Up(i), Holding(i),
           ProcStep(i, p) \/ Stop(i, p) \/ StartAgain(i, p)
    PROVE  Leases!Next
<1>1. /\ TypeInv /\ TypeInv' /\ StopInv /\ OthersKept(i) /\ mgr[i].registered
      /\ GoroutineOK(i, p, proc[i][p]) /\ ~MayStop /\ "running" \notin StartAgainFrom
      /\ mgr[i].loop \in Loops /\ "main" \notin Loops /\ "bg" \notin Loops
  BY StepFrame, NamesAssumption DEF PromptInv, Holding, TypeInv, GoroutinesOK, Prompt
<1>2. CASE Execute(i, p) \/ CallFails(i, p)
  <2>1. p = mgr[i].loop
    BY <1>1, <1>2, HoldingSteps DEF StoreHealthy, RecoveryEnds, StartSetsGenerator, Stop,
       Execute, CallFails, At, Lingers
  <2>2. proc[i][p].call # "del"
    BY <1>1, <2>1 DEF GoroutineOK
  <2> QED BY <1>2, <2>2, CallImplements
<1>3. CASE Reacquire(i, p)
  <2>1. /\ ~mgr'[i].registered /\ mgr'[i].instanceID = NoToken /\ key' = key
        /\ proc'[i][p].pc = "try" /\ RestKept(i, p)
    <3>1. ~SpawnRecovery(i, p) /\ ~RegisterSucceeds(i, p) /\ ~SpecificSucceeds(i, p)
      BY <1>3 DEF Reacquire, SpawnRecovery, RegisterSucceeds, SpecificSucceeds, At, Answered
    <3> QED BY <1>1, <1>3, <3>1, StepFrame, ReacquireDoes
  <2>2. \A r \in Procs : proc'[i][r].tok \in {proc[i][r].tok, NoToken}
    BY <1>1, <2>1, IdlersKnowNothing DEF RestKept
  <2> QED BY <1>1, <2>1, <2>2, UnregisteredImplements
<1>4. CASE ~Execute(i, p) /\ ~CallFails(i, p) /\ ~Reacquire(i, p)
  <2>1. key' = key /\ SameID(mgr[i], mgr'[i])
    <3>1. mgr' = mgr => SameID(mgr[i], mgr'[i])
      BY DEF SameID
    <3>2. CASE SendHeartbeat(i, p)
      BY <1>1, <3>1, <3>2, SendHeartbeatDoes
    <3>3. CASE HeartbeatReply(i, p)
      BY <1>1, <3>3, HeartbeatReplyDoes
    <3>4. CASE StoreHealthy(i, p)
      BY <1>1, <3>4, StoreHealthyDoes
    <3>5. CASE TryReRegister(i, p)
      BY <1>1, <3>1, <3>5, TryReRegisterDoes
    <3>6. CASE ReRegisterReply(i, p)
      BY <1>1, <3>6, ReRegisterReplyDoes
    <3>7. CASE p = "bg" /\ RecoveryEnds(i, p)
      BY <1>1, <3>7, RecoveryEndsDoes
    <3>8. CASE p = "main" /\ StartSetsGenerator(i, p)
      BY <1>1, <3>8, StartSetsGeneratorDoes DEF Holding
    <3> QED BY <1>1, <1>4, <3>1, <3>2, <3>3, <3>4, <3>5, <3>6, <3>7, <3>8, HoldingSteps DEF Stop
  <2>2. Holding(i)'
    BY <1>1, <2>1 DEF SameID, PromptInv, Structure, Up, Starting, Searching
  <2>3. mgr'[i].instanceID \in Known(i) /\ Known(i) \subseteq {mgr'[i].instanceID, NoToken}
    BY <1>1, <2>1, HolderKnowsOne DEF SameID, Known
  <2> QED BY <1>1, <2>1, <2>2, <2>3, RegisteredImplements DEF SameID
<1> QED BY <1>2, <1>3, <1>4

\* The clock ends leases and keys, and nothing else.
LEMMA TickImplements ==
    ASSUME PromptInv, PromptInv', Tick
    PROVE  Leases!Next
<1>1. TypeInv /\ TypeInv' /\ KeysLive
  BY DEF PromptInv, Timing
<1>2. ASSUME NEW i \in Instances
      PROVE  /\ Known(i)' = Known(i)
             /\ MayGenerate(i)' => MayGenerate(i)
             /\ mgr'[i].generatorID = mgr[i].generatorID
  <2>1. /\ SameID(mgr[i], mgr'[i]) /\ mgr'[i].healthy = mgr[i].healthy
        /\ mgr'[i].lease = IF mgr[i].lease > 0 THEN mgr[i].lease - 1 ELSE mgr[i].lease
        /\ \A p \in Procs : proc'[i][p].pc = proc[i][p].pc /\ proc'[i][p].tok = proc[i][p].tok
    BY <1>1, TickDoes
  <2>2. mgr[i].lease \in Int /\ "main" \in Procs
    BY <1>1, NumbersOK DEF Procs
  <2>3. mgr'[i].lease # 0 => mgr[i].lease # 0
    BY <2>1, <2>2
  <2> QED BY <2>1, <2>2, <2>3 DEF Known, MayGenerate, SameID
<1>3. \A j \in Instances : Lent'[j] \in {Lent[j], -1}
  BY <1>2 DEF Lent
<1>4. ASSUME NEW w \in WorkerIDs
      PROVE  Holders'[w] \in {Holders[w], "nobody", "ghost"}
  <2>1. key'[w].owner \in {key[w].owner, NoToken}
    BY <1>1, KeysTick DEF KeyTicks
  <2>2. HoldersKnown /\ HoldersKnown'
    BY <1>1, HoldersAreKnown, NextHoldersAreKnown
  <2>3. /\ Holders'[w] \in Instances \union {"nobody", "ghost"}
        /\ Holders'[w] = "nobody" <=> key'[w].owner = NoToken
        /\ \A i \in Instances :
              Holders[w] = i <=> key[w].owner # NoToken /\ key[w].owner \in Known(i)
        /\ \A i \in Instances :
              Holders'[w] = i <=> key'[w].owner # NoToken /\ key'[w].owner \in Known(i)'
    BY <2>2 DEF HoldersKnown
  <2> QED BY <1>2, <2>1, <2>3
<1> QED BY <1>3, <1>4, Released

\* A process that dies takes its instance IDs along.
LEMMA CrashImplements ==
    ASSUME PromptInv, PromptInv', NEW i \in Instances, Crash(i)
    PROVE  Leases!Next
<1>1. TypeInv
  BY DEF PromptInv
<1>2. /\ \A p \in Procs : proc'[i][p] = Resting
      /\ ~mgr'[i].registered /\ mgr'[i].instanceID = NoToken
      /\ OthersKept(i) /\ key' = key
  BY <1>1, CrashDoes
<1>3. \A p \in Procs : proc'[i][p].tok = NoToken
  BY <1>2 DEF Resting
<1> QED BY <1>2, <1>3, UnregisteredImplements

\* IsHealthy can only end a loan.
LEMMA LookImplements ==
    ASSUME PromptInv, PromptInv', NEW i \in Instances, SeeExpired(i) \/ ClearHealthy(i)
    PROVE  Leases!Next
<1>1. TypeInv /\ TypeInv'
  BY DEF PromptInv
<1>2. KeepsManager(i) /\ mgr'[i].lease = mgr[i].lease /\ proc' = proc /\ key' = key
      /\ OthersKept(i)
  BY <1>1, LookDoes
<1>3. SameID(mgr[i], mgr'[i]) /\ (mgr[i].healthy \/ ~mgr'[i].healthy)
  BY <1>2 DEF KeepsManager
<1>4. Known(i)' = Known(i)
  BY <1>2, <1>3 DEF Known, SameID
<1>5. \A w \in WorkerIDs : Holders'[w] = Holders[w]
  BY <1>1, <1>2, <1>4, HoldersOf
<1>6. Lent'[i] \in {Lent[i], -1}
  <2>1. MayGenerate(i)' => MayGenerate(i)
    BY <1>2, <1>3 DEF MayGenerate, SameID
  <2> QED BY <1>3, <2>1 DEF Lent, SameID
<1> QED BY <1>2, <1>5, <1>6, LentOf, LoanChanges

LEMMA LeasesStutter ==
    ASSUME UNCHANGED <<key, mgr, proc>>
    PROVE  UNCHANGED <<Holders, Lent>>
BY DEF Holders, Lent, Leaseholder, MayGenerate

LEMMA LeasesInit == Init => Leases!Init
<1> SUFFICES ASSUME Init PROVE Leases!Init
  OBVIOUS
<1>1. ASSUME NEW i \in Instances PROVE ~MayGenerate(i)
  <2>1. proc[i]["main"].pc = "start"
    BY DEF Init, Resting, Procs
  <2> QED BY <2>1 DEF MayGenerate
<1>2. Lent = [i \in Instances |-> -1]
  BY <1>1 DEF Lent
<1>3. \A w \in WorkerIDs : key[w].owner = NoToken
  BY DEF Init
<1>4. Holders = [w \in WorkerIDs |-> "nobody"]
  BY <1>3 DEF Holders, Leaseholder
<1> QED BY <1>2, <1>4 DEF Leases!Init

\* Registration, heartbeats, recovery, expiry and crashes of the managers are the
\* steps of LeaseService: a worker ID is lent to the instance that holds its key, and
\* withdrawn before the key passes to another, while deadlines are kept and nobody
\* is stopped.
THEOREM ManagersImplementLeaseService ==
    ASSUME Prompt
    PROVE  Spec => ImplementsLeaseService
<1>1. Init => Leases!Init
  BY LeasesInit
<1>2. ASSUME PromptInv, PromptInv', [Next]_vars
      PROVE  [Leases!Next]_<<Holders, Lent>>
  <2>1. ASSUME NEW i \in Instances, NEW p \in Procs,
               ProcStep(i, p) \/ Stop(i, p) \/ StartAgain(i, p)
        PROVE  Leases!Next
    <3>1. Up(i) /\ StructureOf(i)
      BY <1>2, <2>1, StepFrame DEF PromptInv, Timing, Structure, StructureOf, Up
    <3> QED BY <1>2, <2>1, <3>1, StartingImplements, SearchingImplements, HoldingImplements
       DEF StructureOf
  <2>2. ASSUME NEW i \in Instances, SeeExpired(i) \/ ClearHealthy(i)
        PROVE  Leases!Next
    BY <1>2, <2>2, LookImplements
  <2>3. ASSUME NEW i \in Instances, Crash(i) PROVE Leases!Next
    BY <1>2, <2>3, CrashImplements
  <2>4. CASE Tick
    BY <1>2, <2>4, TickImplements
  <2>5. CASE ListMissing \/ RemoveMissing \/ UNCHANGED vars
    <3>1. UNCHANGED <<key, mgr, proc>>
      BY <2>5 DEF ListMissing, RemoveMissing, vars, redis
    <3> QED BY <3>1, LeasesStutter
  <2> QED BY <1>2, <2>1, <2>2, <2>3, <2>4, <2>5 DEF Next
<1> QED BY <1>1, <1>2, InstancesKeepDeadlines, PTL DEF Spec, ImplementsLeaseService, Leases!Spec

\* No two instances may stamp the same worker ID at the same time.
THEOREM NoTwoInstancesStampOneWorkerID ==
    ASSUME Prompt
    PROVE  Spec => []Leases!Exclusive
<1>1. PromptInv => Leases!Exclusive
  BY LoansAreHeld DEF LoansHeld, Leases!Exclusive
<1> QED BY <1>1, InstancesKeepDeadlines, PTL
=============================================================================
