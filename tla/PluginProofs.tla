---------------------------- MODULE PluginProofs ---------------------------
(***************************************************************************)
(* Theorems about Plugin, for any number of processes, callers, worker IDs,  *)
(* sequence numbers and milliseconds: types, with prompt calls the           *)
(* uniqueness of IDs across processes, along Plugin!IInv, and prompt or not   *)
(* what a terminated plugin has given back, along KeysKnown.                 *)
(***************************************************************************)
EXTENDS Plugin, TLAPS

-----------------------------------------------------------------------------
(* Types.                                                                   *)

\* A plugin replaced by a plugin.
LEMMA UpdateType ==
  ASSUME TypeOK, NEW p \in Plugins, NEW r \in Plugin,
         plugin' = [plugin EXCEPT ![p] = r]
  PROVE  plugin' \in [Plugins -> Plugin]
BY DEF TypeOK

LEMMA FreshType ==
  ASSUME NEW w \in WorkerIDs \union {0}
  PROVE  Fresh(w) \in Plugin
<1>1. MaxTime \in Nat /\ MaxSequence \in Nat
  BY PluginAssumption
<1>2. [time |-> -1, sequence |-> 0] \in [time : -1 .. MaxTime, sequence : 0 .. MaxSequence]
  BY <1>1
<1> QED
  BY <1>2 DEF Fresh, Plugin, Stages

LEMMA InitType ==
  ASSUME Init
  PROVE  TypeOK
<1>1. PICK workerId \in [Plugins -> ConfWorkerIDs] :
          plugin = [p \in Plugins |-> Fresh(workerId[p])]
  BY DEF Init
<1>2. \A p \in Plugins : workerId[p] \in WorkerIDs \union {0}
  BY <1>1, PluginAssumption
<1>3. plugin \in [Plugins -> Plugin]
  BY <1>1, <1>2, FreshType
<1>4. now \in 0 .. MaxTime
  BY PluginAssumption DEF Init
<1> QED
  BY <1>3, <1>4 DEF Init, TypeOK, Service!Init, Service!TypeOK, Service!Owners,
                    Service!Loans, Ids

\* The steps of Start and Stop that move the plugin on and leave its registration.
LEMMA StageType ==
  ASSUME TypeOK, NEW p \in Plugins,
         \/ InitializeResources(p) \/ StartContext(p) \/ RegistrationFails(p)
         \/ StopContext(p) \/ ShutdownGenerator(p)
  PROVE  TypeOK'
<1>1. plugin[p] \in Plugin
  BY DEF TypeOK
<1>2. UNCHANGED <<key, gone, lent, caller, now, issued, collided>>
  BY DEF InitializeResources, StartContext, RegistrationFails, StopContext,
         ShutdownGenerator, history
<1>3. \E r \in Plugin : plugin' = [plugin EXCEPT ![p] = r]
  <2>1. CASE InitializeResources(p)
    <3>1. PICK b \in BOOLEAN : plugin' = [plugin EXCEPT ![p] =
              [plugin[p] EXCEPT !.stage = "inactive", !.leases = b]]
      BY <2>1 DEF InitializeResources
    <3>2. [plugin[p] EXCEPT !.stage = "inactive", !.leases = b] \in Plugin
      BY <1>1 DEF Plugin, Stages
    <3> QED
      BY <3>1, <3>2
  <2>2. ASSUME NEW s \in Stages, GoTo(p, s)
        PROVE  \E r \in Plugin : plugin' = [plugin EXCEPT ![p] = r]
    <3>1. plugin' = [plugin EXCEPT ![p] = [plugin[p] EXCEPT !.stage = s]]
      BY <2>2 DEF GoTo
    <3>2. [plugin[p] EXCEPT !.stage = s] \in Plugin
      BY <1>1 DEF Plugin
    <3> QED
      BY <3>1, <3>2
  <2>3. CASE StartContext(p)
    BY <2>2, <2>3 DEF StartContext, Stages
  <2>4. CASE RegistrationFails(p)
    BY <2>2, <2>4 DEF RegistrationFails, Stages
  <2>5. CASE StopContext(p)
    <3>1. plugin' = [plugin EXCEPT ![p] =
              [plugin[p] EXCEPT !.stage = "stopping", !.shuttingDown = TRUE]]
      BY <2>5 DEF StopContext
    <3>2. [plugin[p] EXCEPT !.stage = "stopping", !.shuttingDown = TRUE] \in Plugin
      BY <1>1 DEF Plugin, Stages
    <3> QED
      BY <3>1, <3>2
  <2>6. CASE ShutdownGenerator(p)
    <3>1. PICK s \in {"terminated", "failed"} : plugin' = [plugin EXCEPT ![p] =
              [plugin[p] EXCEPT !.stage = s, !.down = TRUE]]
      BY <2>6 DEF ShutdownGenerator
    <3>2. [plugin[p] EXCEPT !.stage = s, !.down = TRUE] \in Plugin
      BY <1>1 DEF Plugin, Stages
    <3> QED
      BY <3>1, <3>2
  <2> QED
    BY <2>1, <2>3, <2>4, <2>5, <2>6
<1> QED
  BY <1>2, <1>3, UpdateType DEF TypeOK, Service!TypeOK

\* The steps that change a registration.
LEMMA RegistrationType ==
  ASSUME TypeOK, NEW p \in Plugins,
         \/ \E w \in WorkerIDs : Reserve(p, w)
         \/ CommitRegistration(p) \/ SetGeneratorWorkerID(p)
         \/ UnregisterWorkerID(p) \/ Reacquire(p)
  PROVE  TypeOK'
<1>1. plugin[p] \in Plugin
  BY DEF TypeOK
<1>2. UNCHANGED <<caller, now, issued, collided>>
  BY DEF Reserve, CommitRegistration, SetGeneratorWorkerID, UnregisterWorkerID,
         Reacquire, history
<1>3. plugin' \in [Plugins -> Plugin]
  <2>1. ASSUME NEW w \in WorkerIDs, Reserve(p, w)
        PROVE  plugin' \in [Plugins -> Plugin]
    <3>1. plugin' = [plugin EXCEPT ![p] = [plugin[p] EXCEPT !.reserved = w]]
      BY <2>1 DEF Reserve
    <3>2. [plugin[p] EXCEPT !.reserved = w] \in Plugin
      BY <1>1 DEF Plugin
    <3> QED
      BY <3>1, <3>2, UpdateType
  <2>2. CASE CommitRegistration(p)
    <3> DEFINE r == [plugin[p] EXCEPT
                        !.workerID = plugin[p].reserved, !.reserved = NoID,
                        !.recovering = FALSE, !.stamps = StampsAfter(p),
                        !.returned = IF At(p, "auto") THEN plugin[p].reserved
                                     ELSE plugin[p].returned,
                        !.stage = StageAfter(p)]
    <3>1. plugin' = [plugin EXCEPT ![p] = r]
      BY <2>2 DEF CommitRegistration
    <3>2. plugin[p].reserved \in WorkerIDs /\ plugin[p].stage \in Stages
      BY <1>1, <2>2 DEF CommitRegistration, Plugin
    <3>3. StampsAfter(p) \in WorkerIDs \union {0} /\ StageAfter(p) \in Stages
      BY <1>1, <3>2 DEF StampsAfter, StageAfter, Plugin, Stages
    <3>4. r \in Plugin
      BY <1>1, <3>2, <3>3 DEF Plugin
    <3> QED
      BY <3>1, <3>4, UpdateType
  <2>3. CASE SetGeneratorWorkerID(p)
    <3> DEFINE r == [plugin[p] EXCEPT !.stage = "active",
                        !.stamps = plugin[p].returned, !.returned = 0]
    <3>1. plugin' = [plugin EXCEPT ![p] = r]
      BY <2>3 DEF SetGeneratorWorkerID
    <3>2. r \in Plugin
      BY <1>1 DEF Plugin, Stages
    <3> QED
      BY <3>1, <3>2, UpdateType
  <2>4. CASE UnregisterWorkerID(p)
    <3>1. plugin' = [plugin EXCEPT ![p] =
              [plugin[p] EXCEPT !.stage = "shutdown", !.workerID = NoID]]
      BY <2>4 DEF UnregisterWorkerID
    <3>2. [plugin[p] EXCEPT !.stage = "shutdown", !.workerID = NoID] \in Plugin
      BY <1>1 DEF Plugin, Stages
    <3> QED
      BY <3>1, <3>2, UpdateType
  <2>5. CASE Reacquire(p)
    <3>1. plugin' = [plugin EXCEPT ![p] =
              [plugin[p] EXCEPT !.workerID = NoID, !.recovering = TRUE]]
      BY <2>5 DEF Reacquire
    <3>2. [plugin[p] EXCEPT !.workerID = NoID, !.recovering = TRUE] \in Plugin
      BY <1>1 DEF Plugin
    <3> QED
      BY <3>1, <3>2, UpdateType
  <2> QED
    BY <2>1, <2>2, <2>3, <2>4, <2>5
<1>4. gone' \subseteq WorkerIDs /\ key' \in [WorkerIDs -> Service!Owners]
  BY DEF TypeOK, Service!TypeOK, Service!Owners, Reserve, CommitRegistration,
         SetGeneratorWorkerID, UnregisterWorkerID, Reacquire,
         Service!Reserve, Service!Lend
<1>5. lent' \in [Plugins -> Service!Loans]
  <2>1. plugin[p].reserved \in WorkerIDs \union {NoID}
    BY <1>1 DEF Plugin
  <2> QED
    BY <2>1 DEF TypeOK, Service!TypeOK, Service!Loans, Reserve, CommitRegistration,
         SetGeneratorWorkerID, UnregisterWorkerID, Reacquire,
         Service!Reserve, Service!Lend
<1> QED
  BY <1>2, <1>3, <1>4, <1>5 DEF TypeOK, Service!TypeOK

\* The steps of leases, keys, crashes and time.
LEMMA LeaseType ==
  ASSUME TypeOK,
         \/ \E p \in Plugins :
               \/ LoseLease(p) \/ RegainLease(p) \/ Crash(p)
               \/ \E w \in WorkerIDs : LoseReservation(p, w)
         \/ \E w \in WorkerIDs : KeyExpires(w)
         \/ Tick
  PROVE  TypeOK'
<1>1. UNCHANGED <<issued, collided>>
  BY DEF LoseLease, RegainLease, Crash, LoseReservation, KeyExpires, Tick, history
<1>2. plugin' \in [Plugins -> Plugin]
  <2>1. ASSUME NEW p \in Plugins, Crash(p)
        PROVE  plugin' \in [Plugins -> Plugin]
    <3>1. plugin[p].workerId \in WorkerIDs \union {0}
      BY DEF TypeOK, Plugin
    <3>2. plugin' = [plugin EXCEPT ![p] = Fresh(plugin[p].workerId)]
      BY <2>1 DEF Crash
    <3> QED
      BY <3>1, <3>2, FreshType, UpdateType
  <2> QED
    BY <2>1 DEF LoseLease, RegainLease, LoseReservation, KeyExpires, Tick, TypeOK
<1>3. caller' \in [Callers -> Plugins \union {NoPlugin}]
  BY DEF LoseLease, RegainLease, Crash, LoseReservation, KeyExpires, Tick, TypeOK
<1>4. now' \in 0 .. MaxTime
  <2>1. CASE Tick
    BY <2>1, PluginAssumption DEF Tick, TypeOK
  <2>2. CASE ~Tick
    BY <2>2 DEF LoseLease, RegainLease, Crash, LoseReservation, KeyExpires, TypeOK, history
  <2> QED
    BY <2>1, <2>2
<1>5. gone' \subseteq WorkerIDs /\ key' \in [WorkerIDs -> Service!Owners]
  BY DEF LoseLease, RegainLease, Crash, LoseReservation, KeyExpires, Tick, TypeOK,
         Service!TypeOK, Service!Owners, Service!Release, Service!Lend
<1>6. lent' \in [Plugins -> Service!Loans]
  <2>1. \A p \in Plugins : plugin[p].workerID \in WorkerIDs \union {NoID}
    BY DEF TypeOK, Plugin
  <2> QED
    BY <2>1 DEF LoseLease, RegainLease, Crash, LoseReservation, KeyExpires, Tick,
         TypeOK, Service!TypeOK, Service!Loans, Service!Release, Service!Lend
<1> QED
  BY <1>1, <1>2, <1>3, <1>4, <1>5, <1>6 DEF TypeOK, Service!TypeOK

\* What a call that issues an ID changes.
LEMMA IssueFacts ==
  ASSUME TypeOK, NEW c \in Callers, Issue(c), NEW p, p = caller[c]
  PROVE  /\ p \in Plugins
         /\ NextCursor(plugin[p].last) \in
                [time : -1 .. MaxTime, sequence : 0 .. MaxSequence]
         /\ NextCursor(plugin[p].last).time = now
         /\ NextID(p) \in Ids
         /\ plugin' = [plugin EXCEPT ![p] =
                [plugin[p] EXCEPT !.last = NextCursor(plugin[p].last)]]
         /\ UNCHANGED <<key, gone, lent, now>>
         /\ caller' = [caller EXCEPT ![c] = NoPlugin]
         /\ issued' = IF plugin[p].leases THEN issued \union {NextID(p)} ELSE issued
         /\ collided' = IF plugin[p].leases /\ NextID(p) \in issued
                        THEN collided \union {NextID(p)} ELSE collided
<1>1. p \in Plugins
  BY DEF Issue, TypeOK
<1>2. plugin[p].last \in [time : -1 .. MaxTime, sequence : 0 .. MaxSequence]
      /\ plugin[p].stamps \in WorkerIDs \union {0}
  BY <1>1 DEF TypeOK, Plugin
<1>3. NextCursor(plugin[p].last).sequence <= MaxSequence
  BY DEF Issue, NextID
<1>4. NextCursor(plugin[p].last).time = now
      /\ NextCursor(plugin[p].last).sequence \in 0 .. MaxSequence
  BY <1>2, <1>3, PluginAssumption DEF NextCursor, TypeOK
<1>5. NextCursor(plugin[p].last) \in [time : -1 .. MaxTime, sequence : 0 .. MaxSequence]
  BY <1>4, PluginAssumption DEF NextCursor, TypeOK
<1>6. NextID(p) \in Ids
  BY <1>2, <1>4 DEF NextID, Ids, TypeOK
<1> QED
  BY <1>1, <1>4, <1>5, <1>6 DEF Issue

LEMMA CallType ==
  ASSUME TypeOK, NEW c \in Callers,
         (\E p \in Plugins : EnterGenerateID(c, p)) \/ Issue(c) \/ FailGenerateID(c)
  PROVE  TypeOK'
<1>1. CASE Issue(c)
  <2> DEFINE p == caller[c]
             r == [plugin[p] EXCEPT !.last = NextCursor(plugin[p].last)]
  <2>1. /\ p \in Plugins
        /\ NextCursor(plugin[p].last) \in
               [time : -1 .. MaxTime, sequence : 0 .. MaxSequence]
        /\ NextID(p) \in Ids
        /\ plugin' = [plugin EXCEPT ![p] = r]
        /\ UNCHANGED <<key, gone, lent, now>>
        /\ caller' = [caller EXCEPT ![c] = NoPlugin]
        /\ issued' \subseteq issued \union {NextID(p)}
        /\ collided' \subseteq collided \union {NextID(p)}
    BY <1>1, IssueFacts
  <2>2. r \in Plugin
    <3>1. plugin[p] \in Plugin
      BY <2>1 DEF TypeOK
    <3>2. ASSUME NEW x \in [time : -1 .. MaxTime, sequence : 0 .. MaxSequence],
                 NEW s \in Plugin
          PROVE  [s EXCEPT !.last = x] \in Plugin
      BY DEF Plugin
    <3> QED
      BY <2>1, <3>1, <3>2
  <2>3. plugin' \in [Plugins -> Plugin]
    BY <2>1, <2>2, UpdateType
  <2> QED
    BY <2>1, <2>3 DEF TypeOK, Service!TypeOK
<1>2. CASE ~Issue(c)
  BY <1>2 DEF EnterGenerateID, FailGenerateID, TypeOK, Service!TypeOK, history
<1> QED
  BY <1>1, <1>2

LEMMA TypeStep ==
  ASSUME TypeOK, [Next]_vars
  PROVE  TypeOK'
<1>1. CASE UNCHANGED vars
  BY <1>1 DEF vars, TypeOK, Service!TypeOK
<1>2. CASE Next
  <2>1. ASSUME NEW p \in Plugins, LifecycleStep(p)
        PROVE  TypeOK'
    BY <2>1, StageType, RegistrationType DEF LifecycleStep
  <2>2. ASSUME NEW p \in Plugins, LeaseStep(p)
        PROVE  TypeOK'
    BY <2>2, LeaseType, RegistrationType DEF LeaseStep
  <2> QED
    BY <1>2, <2>1, <2>2, RegistrationType, LeaseType, CallType DEF Next
<1> QED
  BY <1>1, <1>2

\* Start, Stop, registrations, expiry, crashes and calls keep the types of the
\* plugins and of the lease service they share.
THEOREM TypeCorrect == Spec => []TypeOK
<1>1. Init => TypeOK
  BY InitType
<1>2. TypeOK /\ [Next]_vars => TypeOK'
  BY TypeStep
<1> QED
  BY <1>1, <1>2, PTL DEF Spec

-----------------------------------------------------------------------------
(* The inductive invariant of prompt plugins: registrations.                 *)

\* What holds for q and what it is about does not change.
LEMMA HeldFrame ==
  ASSUME NEW q, Held(q), Known(q), plugin'[q] = plugin[q], lent'[q] = lent[q],
         lent[q] # NoID => key'[lent[q]] = key[lent[q]] /\ (lent[q] \in gone' => lent[q] \in gone),
         plugin[q].reserved # NoID =>
             /\ key'[plugin[q].reserved] = key[plugin[q].reserved]
             /\ plugin[q].reserved \in gone' => plugin[q].reserved \in gone
  PROVE  Held(q)' /\ Known(q)'
<1>1. Held(q)'
  BY DEF Held, At
<1>2. Known(q)'
  BY DEF Known, Unregistered, Registering, At
<1> QED
  BY <1>1, <1>2

LEMMA LifecycleHeld ==
  ASSUME TypeOK, HeldByKey, RegistrationKnown, NEW p \in Plugins,
         \/ InitializeResources(p) \/ StartContext(p) \/ RegistrationFails(p)
         \/ StopContext(p) \/ ShutdownGenerator(p) \/ SetGeneratorWorkerID(p)
  PROVE  HeldByKey' /\ RegistrationKnown'
<1>1. UNCHANGED <<key, gone, lent>>
  BY DEF InitializeResources, StartContext, RegistrationFails, StopContext,
         ShutdownGenerator, SetGeneratorWorkerID
<1>2. \A q \in Plugins : q # p => plugin'[q] = plugin[q]
  BY DEF TypeOK, InitializeResources, StartContext, RegistrationFails, StopContext,
         ShutdownGenerator, SetGeneratorWorkerID, GoTo
<1>3. /\ Held(p) /\ Known(p) /\ plugin[p] \in Plugin
  BY DEF HeldByKey, RegistrationKnown, TypeOK
<1>4. Held(p)' /\ Known(p)'
  <2>1. CASE InitializeResources(p)
    <3>1. PICK b \in BOOLEAN : plugin' = [plugin EXCEPT ![p] =
              [plugin[p] EXCEPT !.stage = "inactive", !.leases = b]]
      BY <2>1 DEF InitializeResources
    <3> QED
      BY <1>1, <1>3, <2>1, <3>1 DEF TypeOK, InitializeResources, Held, Known,
         Unregistered, Registering, At, Plugin
  <2>2. CASE StartContext(p)
    BY <1>1, <1>3, <2>2 DEF TypeOK, StartContext, GoTo, Held, Known, Unregistered,
       Registering, At, Plugin
  <2>3. CASE RegistrationFails(p)
    BY <1>1, <1>3, <2>3 DEF TypeOK, RegistrationFails, GoTo, Held, Known, Unregistered,
       Registering, At, Plugin
  <2>4. CASE StopContext(p)
    BY <1>1, <1>3, <2>4 DEF TypeOK, StopContext, Held, Known, Unregistered,
       Registering, At, Plugin
  <2>5. CASE ShutdownGenerator(p)
    BY <1>1, <1>3, <2>5 DEF TypeOK, ShutdownGenerator, Held, Known, Unregistered,
       Registering, At, Plugin
  <2>6. CASE SetGeneratorWorkerID(p)
    BY <1>1, <1>3, <2>6 DEF TypeOK, SetGeneratorWorkerID, Held, Known, Unregistered,
       Registering, At, Plugin
  <2> QED
    BY <2>1, <2>2, <2>3, <2>4, <2>5, <2>6
<1>5. \A q \in Plugins : q # p => Held(q)' /\ Known(q)'
  BY <1>1, <1>2, HeldFrame DEF HeldByKey, RegistrationKnown
<1> QED
  BY <1>1, <1>4, <1>5 DEF HeldByKey, RegistrationKnown

LEMMA RegistrationHeld ==
  ASSUME TypeOK, HeldByKey, RegistrationKnown, NEW p \in Plugins,
         \/ \E w \in WorkerIDs : Reserve(p, w)
         \/ CommitRegistration(p) \/ UnregisterWorkerID(p) \/ Reacquire(p)
  PROVE  HeldByKey' /\ RegistrationKnown'
<1>1. /\ Held(p) /\ Known(p) /\ plugin[p] \in Plugin
      /\ key \in [WorkerIDs -> Plugins \union {Nobody, Ghost}]
      /\ lent \in [Plugins -> WorkerIDs \union {NoID}]
  BY DEF HeldByKey, RegistrationKnown, TypeOK, Service!TypeOK, Service!Owners,
         Service!Loans
<1>2. ASSUME NEW w \in WorkerIDs, Reserve(p, w)
      PROVE  HeldByKey' /\ RegistrationKnown'
  <2>1. /\ plugin' = [plugin EXCEPT ![p] = [plugin[p] EXCEPT !.reserved = w]]
        /\ key' = [key EXCEPT ![w] = p] /\ key[w] = Nobody
        /\ UNCHANGED <<gone, lent>>
    BY <1>2 DEF Reserve, Service!Reserve
  <2>2. w \notin gone
    BY <2>1 DEF HeldByKey
  <2>3. lent[p] = NoID /\ ~At(p, "late")
    BY <1>1, <1>2 DEF Reserve, MayReserve, Held, Known
  <2>4. Held(p)' /\ Known(p)'
    BY <1>1, <1>2, <2>1, <2>2, <2>3 DEF TypeOK, Held, Known, Reserve, MayReserve,
       Unregistered, Registering, At, Plugin
  <2>5. ASSUME NEW q \in Plugins, q # p
        PROVE  Held(q)' /\ Known(q)'
    <3>1. Held(q) /\ Known(q) /\ plugin'[q] = plugin[q] /\ q # Nobody
      BY <2>1, <2>5, PluginAssumption DEF HeldByKey, RegistrationKnown, TypeOK
    <3> QED
      BY <1>1, <2>1, <3>1, HeldFrame DEF Held
  <2> QED
    BY <1>1, <2>1, <2>4, <2>5, PluginAssumption DEF HeldByKey, RegistrationKnown, TypeOK
<1>3. CASE CommitRegistration(p)
  <2>1. /\ plugin' = [plugin EXCEPT ![p] = [plugin[p] EXCEPT
                         !.workerID = plugin[p].reserved, !.reserved = NoID,
                         !.recovering = FALSE, !.stamps = StampsAfter(p),
                         !.returned = IF At(p, "auto") THEN plugin[p].reserved
                                      ELSE plugin[p].returned,
                         !.stage = StageAfter(p)]]
        /\ lent' = [lent EXCEPT ![p] = plugin[p].reserved]
        /\ plugin[p].reserved # NoID
        /\ UNCHANGED <<key, gone>>
    BY <1>3 DEF CommitRegistration, Service!Lend
  <2>2. ~At(p, "late")
    BY <1>1, <2>1 DEF Held, Known
  <2>3. plugin'[p] = [plugin[p] EXCEPT
                         !.workerID = plugin[p].reserved, !.reserved = NoID,
                         !.recovering = FALSE, !.stamps = StampsAfter(p),
                         !.returned = IF At(p, "auto") THEN plugin[p].reserved
                                      ELSE plugin[p].returned,
                         !.stage = StageAfter(p)]
        /\ lent'[p] = plugin[p].reserved
    BY <1>1, <2>1 DEF TypeOK
  <2>4. Held(p)' /\ Known(p)'
    <3>1. /\ plugin'[p].workerID = plugin[p].reserved
          /\ plugin'[p].reserved = NoID
          /\ plugin'[p].stage = StageAfter(p)
          /\ plugin'[p].stamps = StampsAfter(p)
          /\ plugin'[p].shuttingDown = plugin[p].shuttingDown
          /\ At(p, "auto") => plugin'[p].returned = plugin[p].reserved
      BY <1>1, <2>3 DEF Plugin, At
    <3>2. /\ key[plugin[p].reserved] = p /\ plugin[p].reserved \notin gone
          /\ At(p, "specific") => plugin[p].reserved = plugin[p].stamps
      BY <1>1, <2>1 DEF Held
    <3>3. Unregistered(p) => Registering(p)
      BY <1>1, <2>1 DEF Known
    <3>4. plugin[p].stage \in {"stopping", "shutdown"} => plugin[p].shuttingDown
      BY <1>1 DEF Known
    <3>5. Held(p)'
      BY <2>1, <2>3, <3>1, <3>2 DEF Held, At
    <3>6. ~Unregistered(p)'
      BY <3>1, <3>3 DEF Unregistered, StageAfter, Registering, At
    <3>7. plugin'[p].stage \in {"stopping", "shutdown"} => plugin'[p].shuttingDown
      BY <3>1, <3>4 DEF StageAfter, At
    <3>8. plugin'[p].stamps = plugin'[p].workerID
      BY <3>1, <3>2 DEF StampsAfter
    <3>9. At(p, "late")' => lent'[p] # NoID /\ plugin'[p].returned = lent'[p]
      BY <2>1, <2>2, <2>3, <3>1 DEF StageAfter, At
    <3> QED
      BY <3>5, <3>6, <3>7, <3>8, <3>9 DEF Known
  <2>5. ASSUME NEW q \in Plugins, q # p
        PROVE  Held(q)' /\ Known(q)'
    BY <1>1, <2>1, <2>5, HeldFrame DEF HeldByKey, RegistrationKnown, TypeOK
  <2> QED
    BY <2>1, <2>4, <2>5 DEF HeldByKey, RegistrationKnown
<1>4. CASE UnregisterWorkerID(p)
  <2>1. /\ plugin' = [plugin EXCEPT ![p] =
                [plugin[p] EXCEPT !.stage = "shutdown", !.workerID = NoID]]
        /\ lent' = [lent EXCEPT ![p] = NoID]
        /\ plugin[p].reserved = NoID
        /\ At(p, "stopping")
    BY <1>4 DEF UnregisterWorkerID
  <2>2. \A w \in WorkerIDs : key[w] # p =>
            key'[w] = key[w] /\ (w \in gone' => w \in gone)
    BY <1>4, <1>1 DEF UnregisterWorkerID
  <2>3. \A w \in WorkerIDs : key'[w] = Nobody => key[w] = Nobody
    BY <1>4, <1>1, PluginAssumption DEF UnregisterWorkerID
  <2>4. \A w \in gone' : w \in gone \/ (key[w] = p /\ key' = key)
    BY <1>4 DEF UnregisterWorkerID
  <2>5. plugin'[p] = [plugin[p] EXCEPT !.stage = "shutdown", !.workerID = NoID]
        /\ lent'[p] = NoID
    BY <1>1, <2>1 DEF TypeOK
  <2>6. Held(p)' /\ Known(p)'
    BY <1>1, <2>1, <2>5 DEF Held, Known, Unregistered, Registering, At, Plugin
  <2>7. ASSUME NEW q \in Plugins, q # p
        PROVE  Held(q)' /\ Known(q)'
    <3>1. /\ Held(q) /\ Known(q) /\ plugin'[q] = plugin[q] /\ lent'[q] = lent[q]
          /\ plugin[q].reserved \in WorkerIDs \union {NoID}
          /\ lent[q] \in WorkerIDs \union {NoID}
      BY <1>1, <2>1, <2>7 DEF HeldByKey, RegistrationKnown, TypeOK, Plugin
    <3>2. lent[q] # NoID => key[lent[q]] # p
      BY <3>1, <2>7 DEF Held
    <3>3. plugin[q].reserved # NoID => key[plugin[q].reserved] # p
      BY <3>1, <2>7 DEF Held
    <3> QED
      BY <2>2, <3>1, <3>2, <3>3, HeldFrame
  <2> QED
    BY <2>3, <2>4, <2>6, <2>7, PluginAssumption DEF HeldByKey, RegistrationKnown, TypeOK
<1>5. CASE Reacquire(p)
  <2>1. /\ plugin' = [plugin EXCEPT ![p] =
                [plugin[p] EXCEPT !.workerID = NoID, !.recovering = TRUE]]
        /\ lent[p] = NoID /\ plugin[p].reserved = NoID /\ plugin[p].workerID # NoID
        /\ UNCHANGED <<key, gone, lent>>
    BY <1>5 DEF Reacquire
  <2>2. Held(p)' /\ Known(p)'
    BY <1>1, <2>1 DEF TypeOK, Held, Known, Unregistered, Registering, At, Plugin
  <2>3. ASSUME NEW q \in Plugins, q # p
        PROVE  Held(q)' /\ Known(q)'
    BY <2>1, <2>3, HeldFrame DEF HeldByKey, RegistrationKnown, TypeOK
  <2> QED
    BY <2>1, <2>2, <2>3 DEF HeldByKey, RegistrationKnown
<1> QED
  BY <1>2, <1>3, <1>4, <1>5

LEMMA LeaseHeld ==
  ASSUME Prompt, TypeOK, HeldByKey, RegistrationKnown,
         \/ \E p \in Plugins :
               \/ LoseLease(p) \/ RegainLease(p)
               \/ \E w \in WorkerIDs : LoseReservation(p, w)
         \/ \E w \in WorkerIDs : KeyExpires(w)
         \/ Tick
  PROVE  HeldByKey' /\ RegistrationKnown'
<1>1. /\ key \in [WorkerIDs -> Plugins \union {Nobody, Ghost}]
      /\ lent \in [Plugins -> WorkerIDs \union {NoID}]
      /\ plugin' = plugin
  BY DEF TypeOK, Service!TypeOK, Service!Owners, Service!Loans, LoseLease, RegainLease,
         LoseReservation, KeyExpires, Tick
<1>2. \A q \in Plugins :
         /\ Held(q) /\ Known(q) /\ plugin[q] \in Plugin /\ q # Nobody
         /\ lent[q] \in WorkerIDs \union {NoID}
         /\ plugin[q].reserved \in WorkerIDs \union {NoID}
  BY <1>1, PluginAssumption DEF HeldByKey, RegistrationKnown, TypeOK, Plugin
<1>3. ASSUME NEW p \in Plugins, LoseLease(p)
      PROVE  HeldByKey' /\ RegistrationKnown'
  <2>1. /\ ~At(p, "late") /\ UNCHANGED gone
        /\ \A w \in WorkerIDs : key'[w] = key[w]
        /\ \A q \in Plugins : lent'[q] = IF q = p THEN NoID ELSE lent[q]
    BY <1>3 DEF LoseLease, Service!Release
  <2>2. Held(p)' /\ Known(p)'
    BY <1>1, <1>2, <2>1 DEF Held, Known, Unregistered, Registering, At
  <2>3. ASSUME NEW q \in Plugins, q # p
        PROVE  Held(q)' /\ Known(q)'
    BY <1>1, <1>2, <2>1, <2>3, HeldFrame
  <2> QED
    BY <2>1, <2>2, <2>3 DEF HeldByKey, RegistrationKnown, TypeOK
<1>4. ASSUME NEW p \in Plugins, RegainLease(p)
      PROVE  HeldByKey' /\ RegistrationKnown'
  <2>1. /\ UNCHANGED <<gone, key>>
        /\ plugin[p].workerID # NoID /\ plugin[p].workerID \notin gone
        /\ key[plugin[p].workerID] = p /\ lent[p] = NoID
        /\ lent' = [lent EXCEPT ![p] = plugin[p].workerID]
    BY <1>4 DEF RegainLease, Service!Lend
  <2>2. Held(p)' /\ Known(p)'
    BY <1>1, <1>2, <2>1 DEF Held, Known, Unregistered, Registering, At
  <2>3. ASSUME NEW q \in Plugins, q # p
        PROVE  Held(q)' /\ Known(q)'
    BY <1>1, <1>2, <2>1, <2>3, HeldFrame
  <2> QED
    BY <2>1, <2>2, <2>3 DEF HeldByKey, RegistrationKnown
<1>5. ASSUME NEW p \in Plugins, NEW w \in WorkerIDs, LoseReservation(p, w)
      PROVE  HeldByKey' /\ RegistrationKnown'
  <2>1. /\ UNCHANGED gone
        /\ key[w] = Nobody
        /\ \A v \in WorkerIDs : key'[v] = IF v = w THEN Ghost ELSE key[v]
        /\ \A q \in Plugins : lent'[q] = lent[q]
    BY <1>5 DEF LoseReservation, Service!Release
  <2>2. ASSUME NEW q \in Plugins
        PROVE  Held(q)' /\ Known(q)'
    <3>1. lent[q] # w /\ plugin[q].reserved # w
      BY <1>2, <2>1, PluginAssumption DEF Held
    <3> QED
      BY <1>1, <1>2, <2>1, <3>1, HeldFrame
  <2> QED
    BY <2>1, <2>2, PluginAssumption DEF HeldByKey, RegistrationKnown, TypeOK
<1>6. ASSUME NEW w \in WorkerIDs, KeyExpires(w)
      PROVE  HeldByKey' /\ RegistrationKnown'
  <2>1. /\ UNCHANGED <<key, lent>>
        /\ key[w] # Nobody
        /\ gone' = gone \union {w}
        /\ \A q \in Plugins : lent[q] # w /\ plugin[q].reserved # w
    BY <1>6 DEF KeyExpires, Expirable
  <2>2. \A q \in Plugins : Held(q)' /\ Known(q)'
    BY <1>1, <1>2, <2>1, HeldFrame
  <2> QED
    BY <2>1, <2>2 DEF HeldByKey, RegistrationKnown
<1>7. CASE Tick
  <2>1. /\ UNCHANGED lent
        /\ \A w \in WorkerIDs : key'[w] = IF w \in gone THEN Nobody ELSE key[w]
        /\ gone' = {}
    BY <1>7 DEF Tick
  <2>2. ASSUME NEW q \in Plugins
        PROVE  Held(q)' /\ Known(q)'
    <3>1. /\ lent[q] # NoID => lent[q] \notin gone
          /\ plugin[q].reserved # NoID => plugin[q].reserved \notin gone
      BY <1>2 DEF Held
    <3> QED
      BY <1>1, <1>2, <2>1, <3>1, HeldFrame
  <2> QED
    BY <2>1, <2>2 DEF HeldByKey, RegistrationKnown
<1> QED
  BY <1>3, <1>4, <1>5, <1>6, <1>7

LEMMA CrashHeld ==
  ASSUME TypeOK, HeldByKey, RegistrationKnown, NEW p \in Plugins, Crash(p)
  PROVE  HeldByKey' /\ RegistrationKnown'
<1>1. /\ key \in [WorkerIDs -> Plugins \union {Nobody, Ghost}]
      /\ \A q \in Plugins : lent[q] \in WorkerIDs \union {NoID}
  BY DEF TypeOK, Service!TypeOK, Service!Owners, Service!Loans
<1>2. /\ plugin' = [plugin EXCEPT ![p] = Fresh(plugin[p].workerId)]
      /\ UNCHANGED gone
      /\ \A w \in WorkerIDs : key'[w] = IF key[w] = p THEN Ghost ELSE key[w]
      /\ \A q \in Plugins : lent'[q] = IF q = p THEN NoID ELSE lent[q]
  BY DEF Crash, Service!Release
<1>3. plugin'[p] = Fresh(plugin[p].workerId)
  BY <1>2 DEF TypeOK
<1>4. Held(p)' /\ Known(p)'
  BY <1>2, <1>3 DEF Fresh, Held, Known, Unregistered, Registering, At
<1>5. ASSUME NEW q \in Plugins, q # p
      PROVE  Held(q)' /\ Known(q)'
  <2>1. /\ Held(q) /\ Known(q) /\ plugin'[q] = plugin[q] /\ lent'[q] = lent[q]
        /\ plugin[q].reserved \in WorkerIDs \union {NoID}
    BY <1>2, <1>5 DEF HeldByKey, RegistrationKnown, TypeOK, Plugin
  <2>2. /\ lent[q] # NoID => key[lent[q]] # p
        /\ plugin[q].reserved # NoID => key[plugin[q].reserved] # p
    BY <2>1, <1>5 DEF Held
  <2> QED
    BY <1>1, <1>2, <2>1, <2>2, HeldFrame
<1> QED
  BY <1>2, <1>4, <1>5, PluginAssumption DEF HeldByKey, RegistrationKnown, TypeOK

\* A call that issues an ID changes no field but the cursor.
LEMMA IssueChanges ==
  ASSUME TypeOK, NEW c \in Callers, Issue(c), NEW p, p = caller[c]
  PROVE  /\ p \in Plugins
         /\ UNCHANGED <<key, gone, lent, now>>
         /\ \A q \in Plugins : q # p => plugin'[q] = plugin[q]
         /\ \A q \in Plugins :
               /\ plugin'[q].stage = plugin[q].stage
               /\ plugin'[q].workerId = plugin[q].workerId
               /\ plugin'[q].leases = plugin[q].leases
               /\ plugin'[q].workerID = plugin[q].workerID
               /\ plugin'[q].reserved = plugin[q].reserved
               /\ plugin'[q].returned = plugin[q].returned
               /\ plugin'[q].recovering = plugin[q].recovering
               /\ plugin'[q].shuttingDown = plugin[q].shuttingDown
               /\ plugin'[q].stamps = plugin[q].stamps
         /\ plugin'[p].last = NextCursor(plugin[p].last)
<1>1. /\ p \in Plugins /\ plugin \in [Plugins -> Plugin]
      /\ UNCHANGED <<key, gone, lent, now>>
  BY IssueFacts DEF TypeOK
<1>2. PICK x : /\ plugin' = [plugin EXCEPT ![p] = [plugin[p] EXCEPT !.last = x]]
               /\ x = NextCursor(plugin[p].last)
  BY IssueFacts
<1>3. \A q \in Plugins : plugin'[q] = IF q = p THEN [plugin[p] EXCEPT !.last = x]
                                     ELSE plugin[q]
  BY <1>1, <1>2
<1>4. plugin[p] \in Plugin
  BY <1>1
<1> QED
  BY <1>1, <1>2, <1>3, <1>4 DEF Plugin

LEMMA CallHeld ==
  ASSUME TypeOK, HeldByKey, RegistrationKnown, NEW c \in Callers,
         (\E p \in Plugins : EnterGenerateID(c, p)) \/ Issue(c) \/ FailGenerateID(c)
  PROVE  HeldByKey' /\ RegistrationKnown'
<1>1. CASE Issue(c)
  BY <1>1, IssueChanges DEF HeldByKey, RegistrationKnown, Held, Known, Unregistered,
     Registering, At
<1>2. CASE ~Issue(c)
  <2>1. UNCHANGED <<plugin, key, gone, lent>>
    BY <1>2 DEF EnterGenerateID, FailGenerateID
  <2> QED
    BY <2>1, HeldFrame DEF HeldByKey, RegistrationKnown
<1> QED
  BY <1>1, <1>2

-----------------------------------------------------------------------------
(* The inductive invariant: who may stamp which worker ID, and what was      *)
(* issued with it.                                                          *)

\* Nobody gains a claim, no key is freed and no claimant's cursor moves.
LEMMA NarrowFrame ==
  ASSUME OneStamper, IssuedKnown, issued' = issued, now' = now,
         \A p \in Plugins, w \in WorkerIDs :
             MayStamp(p, w)' => MayStamp(p, w) /\ plugin'[p].last = plugin[p].last,
         \A w \in WorkerIDs : key[w] # Nobody => key'[w] # Nobody
  PROVE  OneStamper' /\ IssuedKnown'
<1>1. OneStamper'
  BY DEF OneStamper
<1>2. IssuedKnown'
  BY DEF IssuedKnown
<1> QED
  BY <1>1, <1>2

\* What leaves the keys, the calls and what a plugin stamps alone.
LEMMA QuietClaims ==
  ASSUME CallsHoldKey, OneStamper, IssuedKnown, CursorsInPast, TypeOK,
         UNCHANGED <<key, caller, now, issued>>,
         \A p \in Plugins :
             /\ plugin'[p].stamps = plugin[p].stamps /\ plugin'[p].leases = plugin[p].leases
             /\ plugin'[p].last = plugin[p].last /\ (At(p, "new")' => At(p, "new"))
  PROVE  CallsHoldKey' /\ OneStamper' /\ IssuedKnown' /\ CursorsInPast'
<1>1. \A p \in Plugins, w \in WorkerIDs : MayStamp(p, w)' => MayStamp(p, w)
  BY DEF MayStamp
<1>2. OneStamper' /\ IssuedKnown'
  BY <1>1, NarrowFrame
<1>3. CallsHoldKey'
  BY DEF CallsHoldKey, TypeOK
<1>4. CursorsInPast'
  BY DEF CursorsInPast
<1> QED
  BY <1>2, <1>3, <1>4

LEMMA LifecycleClaims ==
  ASSUME TypeOK, HeldByKey, RegistrationKnown, CallsHoldKey, OneStamper, IssuedKnown,
         CursorsInPast, NEW p \in Plugins,
         \/ StartContext(p) \/ RegistrationFails(p) \/ StopContext(p)
         \/ ShutdownGenerator(p) \/ SetGeneratorWorkerID(p) \/ Reacquire(p)
         \/ LoseLease(p) \/ RegainLease(p)
         \/ \E w \in WorkerIDs : KeyExpires(w)
  PROVE  CallsHoldKey' /\ OneStamper' /\ IssuedKnown' /\ CursorsInPast'
<1> DEFINE Quiet(q) ==
             /\ plugin'[q].stamps = plugin[q].stamps /\ plugin'[q].leases = plugin[q].leases
             /\ plugin'[q].last = plugin[q].last /\ (At(q, "new")' => At(q, "new"))
<1>1. /\ plugin \in [Plugins -> Plugin] /\ plugin[p] \in Plugin /\ Held(p) /\ Known(p)
      /\ key \in [WorkerIDs -> Plugins \union {Nobody, Ghost}]
  BY DEF TypeOK, HeldByKey, RegistrationKnown, Service!TypeOK, Service!Owners
<1>2. UNCHANGED <<caller, now, issued>>
  BY DEF StartContext, RegistrationFails, StopContext, ShutdownGenerator,
         SetGeneratorWorkerID, Reacquire, LoseLease, RegainLease, KeyExpires, history
<1>3. UNCHANGED key
  <2>1. CASE LoseLease(p)
    <3>1. key' = [w \in WorkerIDs |-> key[w]]
      BY <2>1 DEF LoseLease, Service!Release
    <3> QED
      BY <1>1, <3>1
  <2>2. CASE ~LoseLease(p)
    BY <2>2 DEF StartContext, RegistrationFails, StopContext, ShutdownGenerator,
       SetGeneratorWorkerID, Reacquire, RegainLease, KeyExpires, Service!Lend
  <2> QED
    BY <2>1, <2>2
<1>4. \A q \in Plugins : Quiet(q)
  <2>1. ASSUME NEW s \in Stages, s # "new", plugin' = [plugin EXCEPT ![p].stage = s]
        PROVE  \A q \in Plugins : Quiet(q)
    BY <1>1, <2>1 DEF Plugin, At
  <2>2. CASE StartContext(p)
    BY <2>1, <2>2 DEF StartContext, GoTo, Stages
  <2>3. CASE RegistrationFails(p)
    BY <2>1, <2>3 DEF RegistrationFails, GoTo, Stages
  <2>4. CASE StopContext(p)
    <3>1. plugin' = [plugin EXCEPT ![p] =
              [plugin[p] EXCEPT !.stage = "stopping", !.shuttingDown = TRUE]]
      BY <2>4 DEF StopContext
    <3> QED
      BY <1>1, <3>1 DEF Plugin, At
  <2>5. CASE ShutdownGenerator(p)
    <3>1. PICK s \in {"terminated", "failed"} : plugin' = [plugin EXCEPT ![p] =
              [plugin[p] EXCEPT !.stage = s, !.down = TRUE]]
      BY <2>5 DEF ShutdownGenerator
    <3> QED
      BY <1>1, <3>1 DEF Plugin, At
  <2>6. CASE SetGeneratorWorkerID(p)
    <3>1. plugin' = [plugin EXCEPT ![p] = [plugin[p] EXCEPT !.stage = "active",
                        !.stamps = plugin[p].returned, !.returned = 0]]
      BY <2>6 DEF SetGeneratorWorkerID
    <3>2. plugin[p].returned = plugin[p].stamps
      BY <1>1, <2>6 DEF SetGeneratorWorkerID, Held, Known
    <3> QED
      BY <1>1, <3>1, <3>2 DEF Plugin, At
  <2>7. CASE Reacquire(p)
    <3>1. plugin' = [plugin EXCEPT ![p] =
              [plugin[p] EXCEPT !.workerID = NoID, !.recovering = TRUE]]
      BY <2>7 DEF Reacquire
    <3> QED
      BY <1>1, <3>1 DEF Plugin, At
  <2>8. CASE LoseLease(p) \/ RegainLease(p) \/ \E w \in WorkerIDs : KeyExpires(w)
    BY <2>8 DEF LoseLease, RegainLease, KeyExpires, At
  <2> QED
    BY <2>2, <2>3, <2>4, <2>5, <2>6, <2>7, <2>8
<1> QED
  BY <1>2, <1>3, <1>4, QuietClaims

\* A plugin is built, or a worker ID given back or left to a ghost.
LEMMA ReleaseClaims ==
  ASSUME TypeOK, HeldByKey, RegistrationKnown, CallsHoldKey, OneStamper, IssuedKnown,
         CursorsInPast, NEW p \in Plugins,
         \/ InitializeResources(p) \/ UnregisterWorkerID(p) \/ Crash(p)
         \/ \E w \in WorkerIDs : LoseReservation(p, w)
  PROVE  CallsHoldKey' /\ OneStamper' /\ IssuedKnown' /\ CursorsInPast'
<1>1. /\ plugin \in [Plugins -> Plugin] /\ plugin[p] \in Plugin
      /\ key \in [WorkerIDs -> Plugins \union {Nobody, Ghost}]
      /\ caller \in [Callers -> Plugins \union {NoPlugin}]
      /\ \A q \in Plugins : q # Nobody /\ q # Ghost
      /\ NoPlugin \notin Plugins /\ Ghost # Nobody
  BY PluginAssumption DEF TypeOK, HeldByKey, RegistrationKnown, Service!TypeOK,
     Service!Owners
<1>2. UNCHANGED <<now, issued>>
  BY DEF InitializeResources, UnregisterWorkerID, Crash, LoseReservation, history
<1>3. \A w \in WorkerIDs : /\ key'[w] \in {key[w], Ghost}
                           /\ key'[w] # key[w] => key[w] = p \/ key[w] = Nobody
  BY <1>1 DEF InitializeResources, UnregisterWorkerID, Crash, LoseReservation,
     Service!Release
<1>4. \A c \in Callers : caller'[c] \in {caller[c], NoPlugin}
  BY <1>1 DEF InitializeResources, UnregisterWorkerID, Crash, LoseReservation
<1>5. \A q \in Plugins : q # p => plugin'[q] = plugin[q]
  BY <1>1 DEF InitializeResources, UnregisterWorkerID, Crash, LoseReservation
<1>6. \A w \in WorkerIDs : key'[w] # Nobody \/ key'[w] = key[w]
  BY <1>1, <1>3
<1>7. /\ plugin'[p].last.time <= now
      /\ (\E c \in Callers : caller'[c] = p) =>
             /\ plugin'[p].leases = plugin[p].leases /\ plugin'[p].stamps = plugin[p].stamps
             /\ plugin'[p].last = plugin[p].last /\ ~At(p, "new")'
      /\ (\E w \in WorkerIDs : key'[w] = p) => plugin'[p].last = plugin[p].last
  <2>0. plugin[p].last.time <= now
    BY DEF CursorsInPast
  <2>1. CASE InitializeResources(p)
    <3>1. PICK b \in BOOLEAN : plugin' = [plugin EXCEPT ![p] =
              [plugin[p] EXCEPT !.stage = "inactive", !.leases = b]]
      BY <2>1 DEF InitializeResources
    <3>2. ~ \E c \in Callers : caller'[c] = p
      BY <1>1, <2>1 DEF InitializeResources, CallsHoldKey
    <3> QED
      BY <1>1, <2>0, <3>1, <3>2 DEF Plugin
  <2>2. CASE UnregisterWorkerID(p)
    <3>1. plugin' = [plugin EXCEPT ![p] =
              [plugin[p] EXCEPT !.stage = "shutdown", !.workerID = NoID]]
      BY <2>2 DEF UnregisterWorkerID
    <3> QED
      BY <1>1, <2>0, <3>1 DEF Plugin, At
  <2>3. CASE Crash(p)
    <3>1. /\ plugin' = [plugin EXCEPT ![p] = Fresh(plugin[p].workerId)]
          /\ caller' = [c \in Callers |-> IF caller[c] = p THEN NoPlugin ELSE caller[c]]
          /\ \A w \in WorkerIDs : key'[w] = IF key[w] = p THEN Ghost ELSE key[w]
      BY <2>3 DEF Crash, Service!Release
    <3>2. plugin'[p].last.time = -1 /\ -1 <= now
      BY <1>1, <3>1 DEF Fresh, TypeOK
    <3>3. (\A c \in Callers : caller'[c] # p) /\ \A w \in WorkerIDs : key'[w] # p
      BY <1>1, <3>1
    <3> QED
      BY <3>2, <3>3
  <2>4. ASSUME NEW w \in WorkerIDs, LoseReservation(p, w)
        PROVE  /\ plugin' = plugin
               /\ (\E c \in Callers : caller'[c] = p) => ~At(p, "new")'
    BY <1>1, <2>4 DEF LoseReservation, CallsHoldKey, At
  <2> QED
    BY <2>0, <2>1, <2>2, <2>3, <2>4
<1>8. ASSUME NEW q \in Plugins, NEW w \in WorkerIDs, MayStamp(q, w)'
      PROVE  MayStamp(q, w) /\ plugin'[q].last = plugin[q].last
  <2>1. key'[w] = q => key[w] = q
    BY <1>1, <1>3
  <2>2. (\E c \in Callers : caller'[c] = q) => \E c \in Callers : caller[c] = q
    BY <1>1, <1>4
  <2> QED
    BY <1>5, <1>7, <1>8, <2>1, <2>2 DEF MayStamp
<1>9. OneStamper' /\ IssuedKnown'
  BY <1>1, <1>2, <1>6, <1>8, NarrowFrame
<1>10. CursorsInPast'
  BY <1>2, <1>5, <1>7 DEF CursorsInPast
<1>11. CallsHoldKey'
  <2> SUFFICES ASSUME NEW c \in Callers, caller'[c] # NoPlugin
               PROVE  /\ ~At(caller[c], "new")'
                      /\ plugin'[caller[c]].leases =>
                           /\ plugin'[caller[c]].stamps \in WorkerIDs
                           /\ key'[plugin'[caller[c]].stamps] \in {caller[c], Ghost}
                      /\ caller'[c] = caller[c]
    BY DEF CallsHoldKey, At
  <2>1. caller'[c] = caller[c] /\ caller[c] \in Plugins
    BY <1>1, <1>4
  <2>2. /\ ~At(caller[c], "new")
        /\ plugin[caller[c]].leases =>
              /\ plugin[caller[c]].stamps \in WorkerIDs
              /\ key[plugin[caller[c]].stamps] \in {caller[c], Ghost}
    BY <2>1 DEF CallsHoldKey
  <2>3. /\ plugin'[caller[c]].leases = plugin[caller[c]].leases
        /\ plugin'[caller[c]].stamps = plugin[caller[c]].stamps
        /\ ~At(caller[c], "new")'
    BY <1>5, <1>7, <2>1, <2>2 DEF At
  <2> QED
    BY <1>1, <1>3, <2>1, <2>2, <2>3
<1> QED
  BY <1>9, <1>10, <1>11

\* Only a worker ID without IDs of this millisecond is reserved.
LEMMA ReserveClaims ==
  ASSUME TypeOK, CallsHoldKey, OneStamper, IssuedKnown, CursorsInPast,
         NEW p \in Plugins, NEW w \in WorkerIDs, Reserve(p, w)
  PROVE  CallsHoldKey' /\ OneStamper' /\ IssuedKnown' /\ CursorsInPast'
<1>1. /\ plugin \in [Plugins -> Plugin]
      /\ key \in [WorkerIDs -> Plugins \union {Nobody, Ghost}]
      /\ Ghost # Nobody /\ \A q \in Plugins : q # Nobody /\ q # NoPlugin
      /\ caller \in [Callers -> Plugins \union {NoPlugin}]
  BY PluginAssumption DEF TypeOK, Service!TypeOK, Service!Owners
<1>2. /\ plugin' = [plugin EXCEPT ![p] = [plugin[p] EXCEPT !.reserved = w]]
      /\ key[w] = Nobody /\ key' = [key EXCEPT ![w] = p]
      /\ UNCHANGED <<caller, now, issued>>
  BY DEF Reserve, Service!Reserve, history
<1>3. \A q \in Plugins :
         /\ plugin'[q].stamps = plugin[q].stamps /\ plugin'[q].leases = plugin[q].leases
         /\ plugin'[q].last = plugin[q].last /\ plugin'[q].stage = plugin[q].stage
  BY <1>1, <1>2 DEF Plugin
<1>4. ASSUME NEW q \in Plugins
      PROVE  ~MayStamp(q, w)
  BY <1>1, <1>2, <1>4 DEF MayStamp, CallsHoldKey
<1>5. ASSUME NEW q \in Plugins, NEW v \in WorkerIDs, v # w
      PROVE  MayStamp(q, v)' => MayStamp(q, v)
  BY <1>1, <1>2, <1>3, <1>5 DEF MayStamp
<1>6. ASSUME NEW q \in Plugins, MayStamp(q, w)'
      PROVE  q = p
  BY <1>1, <1>2, <1>3, <1>4, <1>6 DEF MayStamp
<1>7. OneStamper'
  BY <1>5, <1>6 DEF OneStamper
<1>8. IssuedKnown'
  <2> SUFFICES ASSUME NEW id \in issued
               PROVE  /\ id.time <= now
                      /\ id.time = now /\ id.workerID \in WorkerIDs =>
                            /\ key'[id.workerID] # Nobody
                            /\ \A q \in Plugins : MayStamp(q, id.workerID)' =>
                                  plugin'[q].last.time = now
                                  /\ id.sequence <= plugin'[q].last.sequence
    BY <1>2 DEF IssuedKnown
  <2>1. id.time = now /\ id.workerID \in WorkerIDs => id.workerID # w
    BY <1>2 DEF IssuedKnown
  <2> QED
    BY <1>1, <1>2, <1>3, <1>5, <2>1 DEF IssuedKnown
<1>9. CallsHoldKey'
  BY <1>1, <1>2, <1>3 DEF CallsHoldKey, At
<1>10. CursorsInPast'
  BY <1>2, <1>3 DEF CursorsInPast
<1> QED
  BY <1>7, <1>8, <1>9, <1>10

LEMMA CommitClaims ==
  ASSUME TypeOK, HeldByKey, CallsHoldKey, OneStamper, IssuedKnown,
         CursorsInPast, NEW p \in Plugins, CommitRegistration(p)
  PROVE  CallsHoldKey' /\ OneStamper' /\ IssuedKnown' /\ CursorsInPast'
<1>1. /\ plugin \in [Plugins -> Plugin] /\ plugin[p] \in Plugin /\ Held(p)
      /\ caller \in [Callers -> Plugins \union {NoPlugin}]
  BY DEF TypeOK, HeldByKey
<1>2. /\ plugin' = [plugin EXCEPT ![p] = [plugin[p] EXCEPT
                         !.workerID = plugin[p].reserved, !.reserved = NoID,
                         !.recovering = FALSE, !.stamps = StampsAfter(p),
                         !.returned = IF At(p, "auto") THEN plugin[p].reserved
                                      ELSE plugin[p].returned,
                         !.stage = StageAfter(p)]]
      /\ plugin[p].reserved # NoID
      /\ UNCHANGED <<key, caller, now, issued>>
  BY DEF CommitRegistration, Service!Lend, history
<1>3. /\ plugin[p].reserved \in WorkerIDs /\ key[plugin[p].reserved] = p
      /\ StampsAfter(p) = plugin[p].reserved
  BY <1>1, <1>2 DEF Held, StampsAfter, Plugin
<1>4. \A q \in Plugins :
         /\ plugin'[q].leases = plugin[q].leases /\ plugin'[q].last = plugin[q].last
         /\ plugin'[q].stamps = IF q = p THEN plugin[p].reserved ELSE plugin[q].stamps
         /\ At(q, "new")' => At(q, "new")
  <2>1. /\ plugin'[p].leases = plugin[p].leases /\ plugin'[p].last = plugin[p].last
        /\ plugin'[p].stamps = StampsAfter(p) /\ plugin'[p].stage = StageAfter(p)
    BY <1>1, <1>2 DEF Plugin
  <2>2. \A q \in Plugins : q # p => plugin'[q] = plugin[q]
    BY <1>1, <1>2
  <2>3. StageAfter(p) = "new" => plugin[p].stage = "new"
    BY DEF StageAfter, At
  <2> QED
    BY <1>3, <2>1, <2>2, <2>3 DEF At
<1>5. ASSUME NEW q \in Plugins, NEW w \in WorkerIDs, MayStamp(q, w)'
      PROVE  MayStamp(q, w) /\ plugin'[q].last = plugin[q].last
  BY <1>2, <1>3, <1>4, <1>5 DEF MayStamp
<1>6. OneStamper' /\ IssuedKnown'
  BY <1>2, <1>5, NarrowFrame
<1>7. CallsHoldKey'
  BY <1>1, <1>2, <1>3, <1>4 DEF CallsHoldKey
<1>8. CursorsInPast'
  BY <1>2, <1>4 DEF CursorsInPast
<1> QED
  BY <1>6, <1>7, <1>8

\* A call that is let through or fails.
LEMMA GateClaims ==
  ASSUME TypeOK, HeldByKey, RegistrationKnown, CallsHoldKey, OneStamper, IssuedKnown,
         CursorsInPast, NEW c \in Callers,
         (\E p \in Plugins : EnterGenerateID(c, p)) \/ FailGenerateID(c)
  PROVE  CallsHoldKey' /\ OneStamper' /\ IssuedKnown' /\ CursorsInPast'
<1>1. /\ plugin \in [Plugins -> Plugin] /\ NoPlugin \notin Plugins
      /\ caller \in [Callers -> Plugins \union {NoPlugin}]
      /\ lent \in [Plugins -> WorkerIDs \union {NoID}]
  BY PluginAssumption DEF TypeOK, Service!TypeOK, Service!Loans
<1>2. UNCHANGED <<key, plugin, now, issued>>
  BY DEF EnterGenerateID, FailGenerateID, history
<1>3. PICK r \in Plugins \union {NoPlugin} :
         /\ caller' = [caller EXCEPT ![c] = r]
         /\ r # NoPlugin => EnterGenerateID(c, r)
  BY DEF EnterGenerateID, FailGenerateID
<1>4. r # NoPlugin =>
         /\ ~At(r, "new")
         /\ plugin[r].leases =>
               /\ plugin[r].stamps \in WorkerIDs /\ key[plugin[r].stamps] = r
  BY <1>1, <1>3 DEF EnterGenerateID, IsHealthy, HeldByKey, Held, RegistrationKnown, Known
<1>5. ASSUME NEW q \in Plugins, NEW w \in WorkerIDs, MayStamp(q, w)'
      PROVE  MayStamp(q, w) /\ plugin'[q].last = plugin[q].last
  <2>1. MayStamp(q, w)
    <3>1. CASE key[w] = q
      BY <3>1 DEF MayStamp
    <3>2. CASE key[w] # q
      <4>1. PICK d \in Callers : /\ plugin[q].leases /\ plugin[q].stamps = w
                                 /\ caller'[d] = q
        BY <1>2, <1>5, <3>2 DEF MayStamp
      <4> QED
        BY <1>1, <1>3, <1>4, <3>2, <4>1 DEF MayStamp
    <3> QED
      BY <3>1, <3>2
  <2> QED
    BY <1>2, <2>1
<1>6. OneStamper' /\ IssuedKnown'
  BY <1>2, <1>5, NarrowFrame
<1>7. CallsHoldKey'
  BY <1>1, <1>2, <1>3, <1>4 DEF CallsHoldKey, At
<1>8. CursorsInPast'
  BY <1>2 DEF CursorsInPast
<1> QED
  BY <1>6, <1>7, <1>8

\* The millisecond ends when no call is on its way.
LEMMA TickClaims ==
  ASSUME Prompt, TypeOK, OneStamper, IssuedKnown, CursorsInPast, Tick
  PROVE  CallsHoldKey' /\ OneStamper' /\ IssuedKnown' /\ CursorsInPast'
<1>1. /\ plugin \in [Plugins -> Plugin] /\ now \in Nat
      /\ \A id \in issued : id.time \in Int
      /\ \A p \in Plugins : plugin[p].last.time \in Int /\ p # Nobody
  BY PluginAssumption DEF TypeOK, Plugin, Ids
<1>2. /\ UNCHANGED <<plugin, caller, issued>> /\ now' = now + 1
      /\ \A c \in Callers : caller[c] = NoPlugin
      /\ \A w \in WorkerIDs : key'[w] = IF w \in gone THEN Nobody ELSE key[w]
  BY DEF Tick, history
<1>3. \A p \in Plugins, w \in WorkerIDs : MayStamp(p, w)' => MayStamp(p, w)
  BY <1>1, <1>2 DEF MayStamp
<1>4. OneStamper'
  BY <1>3 DEF OneStamper
<1>5. IssuedKnown'
  BY <1>1, <1>2 DEF IssuedKnown
<1>6. CallsHoldKey' /\ CursorsInPast'
  BY <1>1, <1>2 DEF CallsHoldKey, CursorsInPast
<1> QED
  BY <1>4, <1>5, <1>6

\* The ID that is issued is the next one of the only claimant.
LEMMA IssueClaims ==
  ASSUME TypeOK, CallsHoldKey, OneStamper, IssuedKnown, CursorsInPast, UniqueIDs,
         NEW c \in Callers, Issue(c)
  PROVE  CallsHoldKey' /\ OneStamper' /\ IssuedKnown' /\ CursorsInPast' /\ UniqueIDs'
<1> DEFINE p == caller[c]
<1>1. /\ p \in Plugins /\ UNCHANGED <<key, now>>
      /\ \A q \in Plugins :
            /\ plugin'[q].stamps = plugin[q].stamps /\ plugin'[q].leases = plugin[q].leases
            /\ plugin'[q].stage = plugin[q].stage
            /\ q # p => plugin'[q].last = plugin[q].last
      /\ plugin'[p].last = NextCursor(plugin[p].last)
  BY IssueChanges
<1>2. /\ caller' = [caller EXCEPT ![c] = NoPlugin]
      /\ issued' = IF plugin[p].leases THEN issued \union {NextID(p)} ELSE issued
      /\ collided' = IF plugin[p].leases /\ NextID(p) \in issued
                     THEN collided \union {NextID(p)} ELSE collided
  BY IssueFacts
<1>3. /\ plugin[p].last.time \in Int /\ plugin[p].last.sequence \in Nat
      /\ now \in Int /\ plugin[p].last.time <= now
      /\ caller \in [Callers -> Plugins \union {NoPlugin}] /\ p # NoPlugin
      /\ \A id \in issued : id.sequence \in Nat /\ id.time \in Int
  BY <1>1, PluginAssumption DEF TypeOK, Plugin, CursorsInPast, Ids
<1>4. /\ plugin'[p].last.time = now
      /\ plugin'[p].last.sequence =
             IF plugin[p].last.time = now THEN plugin[p].last.sequence + 1 ELSE 0
      /\ NextID(p).time = now /\ NextID(p).workerID = plugin[p].stamps
      /\ NextID(p).sequence = plugin'[p].last.sequence
  BY <1>1 DEF NextCursor, NextID
<1>5. plugin[p].leases => /\ plugin[p].stamps \in WorkerIDs
                          /\ key[plugin[p].stamps] \in {p, Ghost}
                          /\ MayStamp(p, plugin[p].stamps)
  BY <1>1, <1>3 DEF CallsHoldKey, MayStamp
<1>6. \A q \in Plugins, w \in WorkerIDs : MayStamp(q, w)' => MayStamp(q, w)
  <2> SUFFICES ASSUME NEW q \in Plugins, NEW w \in WorkerIDs, MayStamp(q, w)'
               PROVE  MayStamp(q, w)
    OBVIOUS
  <2>1. \A d \in Callers : caller'[d] \in {caller[d], NoPlugin}
    BY <1>2, <1>3
  <2>2. (\E d \in Callers : caller'[d] = q) => \E d \in Callers : caller[d] = q
    BY <2>1, PluginAssumption
  <2>3. key'[w] = key[w] /\ plugin'[q].stamps = plugin[q].stamps
        /\ plugin'[q].leases = plugin[q].leases
    BY <1>1
  <2> QED
    BY <2>2, <2>3 DEF MayStamp
<1>7. OneStamper'
  BY <1>6 DEF OneStamper
<1>8. CallsHoldKey'
  BY <1>1, <1>2, <1>3 DEF CallsHoldKey, At
<1>9. CursorsInPast'
  BY <1>1, <1>3, <1>4 DEF CursorsInPast
<1>10. ASSUME NEW id \in issued
       PROVE  /\ id.time <= now
              /\ id.time = now /\ id.workerID \in WorkerIDs =>
                    /\ key[id.workerID] # Nobody
                    /\ \A q \in Plugins : MayStamp(q, id.workerID) =>
                          /\ plugin[q].last.time = now
                          /\ id.sequence <= plugin[q].last.sequence
                          /\ plugin'[q].last.time = now
                          /\ id.sequence <= plugin'[q].last.sequence
  <2>1. /\ id.time <= now
        /\ id.time = now /\ id.workerID \in WorkerIDs =>
              /\ key[id.workerID] # Nobody
              /\ \A q \in Plugins : MayStamp(q, id.workerID) =>
                    plugin[q].last.time = now /\ id.sequence <= plugin[q].last.sequence
    BY DEF IssuedKnown
  <2>2. id.sequence \in Nat
    BY <1>3
  <2>3. \A q \in Plugins : plugin[q].last.time = now /\ id.sequence <= plugin[q].last.sequence
            => plugin'[q].last.time = now /\ id.sequence <= plugin'[q].last.sequence
    BY <1>1, <1>3, <1>4, <2>2
  <2> QED
    BY <2>1, <2>3
<1>11. IssuedKnown'
  <2>1. ASSUME NEW id \in issued'
        PROVE  /\ id.time <= now
               /\ id.time = now /\ id.workerID \in WorkerIDs =>
                     /\ key[id.workerID] # Nobody
                     /\ \A q \in Plugins : MayStamp(q, id.workerID)' =>
                           /\ plugin'[q].last.time = now
                           /\ id.sequence <= plugin'[q].last.sequence
    <3>1. CASE id \in issued
      BY <1>6, <1>10, <3>1
    <3>2. CASE id \notin issued
      <4>1. id = NextID(p) /\ plugin[p].leases
        BY <1>2, <3>2, <2>1
      <4>2. \A q \in Plugins : MayStamp(q, id.workerID)' => q = p
        BY <1>1, <1>4, <1>5, <1>6, <4>1 DEF OneStamper
      <4>3. key[id.workerID] # Nobody
        BY <1>1, <1>4, <1>5, <4>1, PluginAssumption
      <4>4. id.sequence <= plugin'[p].last.sequence /\ id.time = now
        BY <1>3, <1>4, <4>1
      <4> QED
        BY <1>3, <1>4, <4>2, <4>3, <4>4
    <3> QED
      BY <3>1, <3>2
  <2> QED
    BY <1>1, <2>1 DEF IssuedKnown
<1>12. UniqueIDs'
  <2>1. plugin[p].leases => NextID(p) \notin issued
    <3> SUFFICES ASSUME plugin[p].leases, NextID(p) \in issued
                 PROVE  FALSE
      OBVIOUS
    <3>1. plugin[p].last.time = now /\ NextID(p).sequence <= plugin[p].last.sequence
      BY <1>1, <1>4, <1>5, <1>10
    <3> QED
      BY <1>3, <1>4, <3>1
  <2> QED
    BY <1>2, <2>1 DEF UniqueIDs
<1> QED
  BY <1>7, <1>8, <1>9, <1>11, <1>12

-----------------------------------------------------------------------------
(* The theorems.                                                            *)

LEMMA InvariantStep ==
  ASSUME Prompt, IInv, [Next]_vars
  PROVE  IInv'
<1>1. TypeOK'
  BY TypeStep DEF IInv
<1>2. CASE UNCHANGED vars
  <2>1. HeldByKey' /\ RegistrationKnown'
    BY <1>2 DEF IInv, vars, HeldByKey, Held, RegistrationKnown, Known, Unregistered,
       Registering, At
  <2>2. CallsHoldKey' /\ OneStamper' /\ IssuedKnown' /\ CursorsInPast' /\ UniqueIDs'
    BY <1>2 DEF IInv, vars, CallsHoldKey, OneStamper, MayStamp, IssuedKnown,
       CursorsInPast, UniqueIDs, At
  <2> QED
    BY <1>1, <2>1, <2>2 DEF IInv
<1>3. ASSUME NEW p \in Plugins, LifecycleStep(p)
      PROVE  IInv'
  <2>1. HeldByKey' /\ RegistrationKnown'
    BY <1>3, LifecycleHeld, RegistrationHeld DEF IInv, LifecycleStep
  <2>2. CallsHoldKey' /\ OneStamper' /\ IssuedKnown' /\ CursorsInPast'
    BY <1>3, LifecycleClaims, ReleaseClaims, CommitClaims DEF IInv, LifecycleStep
  <2>3. UNCHANGED collided
    BY <1>3 DEF LifecycleStep, InitializeResources, StartContext, RegistrationFails,
       CommitRegistration, SetGeneratorWorkerID, StopContext, UnregisterWorkerID,
       ShutdownGenerator, history
  <2> QED
    BY <1>1, <2>1, <2>2, <2>3 DEF IInv, UniqueIDs
<1>4. ASSUME NEW p \in Plugins,
             \/ LeaseStep(p)
             \/ \E w \in WorkerIDs : Reserve(p, w) \/ LoseReservation(p, w)
      PROVE  IInv'
  <2>1. HeldByKey' /\ RegistrationKnown'
    BY <1>4, LeaseHeld, RegistrationHeld, CrashHeld DEF IInv, LeaseStep
  <2>2. CallsHoldKey' /\ OneStamper' /\ IssuedKnown' /\ CursorsInPast'
    BY <1>4, LifecycleClaims, ReleaseClaims, ReserveClaims DEF IInv, LeaseStep
  <2>3. UNCHANGED collided
    BY <1>4 DEF LeaseStep, LoseLease, RegainLease, Reacquire, Crash, Reserve,
       LoseReservation, history
  <2> QED
    BY <1>1, <2>1, <2>2, <2>3 DEF IInv, UniqueIDs
<1>5. ASSUME NEW w \in WorkerIDs, KeyExpires(w)
      PROVE  IInv'
  <2>1. HeldByKey' /\ RegistrationKnown'
    BY <1>5, LeaseHeld DEF IInv
  <2>2. CallsHoldKey' /\ OneStamper' /\ IssuedKnown' /\ CursorsInPast'
    <3>1. CASE Plugins = {}
      BY <1>5, <3>1 DEF IInv, KeyExpires, CallsHoldKey, OneStamper, IssuedKnown,
         CursorsInPast, TypeOK, history, At
    <3>2. CASE Plugins # {}
      BY <1>5, <3>2, LifecycleClaims DEF IInv
    <3> QED
      BY <3>1, <3>2
  <2> QED
    BY <1>1, <1>5, <2>1, <2>2 DEF IInv, UniqueIDs, KeyExpires, history
<1>6. ASSUME NEW c \in Callers,
             (\E p \in Plugins : EnterGenerateID(c, p)) \/ Issue(c) \/ FailGenerateID(c)
      PROVE  IInv'
  <2>1. HeldByKey' /\ RegistrationKnown'
    BY <1>6, CallHeld DEF IInv
  <2>2. CASE Issue(c)
    BY <1>1, <2>1, <2>2, IssueClaims DEF IInv
  <2>3. CASE ~Issue(c)
    <3>1. CallsHoldKey' /\ OneStamper' /\ IssuedKnown' /\ CursorsInPast'
      BY <1>6, <2>3, GateClaims DEF IInv
    <3>2. UNCHANGED collided
      BY <1>6, <2>3 DEF EnterGenerateID, FailGenerateID, history
    <3> QED
      BY <1>1, <2>1, <3>1, <3>2 DEF IInv, UniqueIDs
  <2> QED
    BY <2>2, <2>3
<1>7. CASE Tick
  <2>1. HeldByKey' /\ RegistrationKnown'
    BY <1>7, LeaseHeld DEF IInv
  <2>2. CallsHoldKey' /\ OneStamper' /\ IssuedKnown' /\ CursorsInPast'
    BY <1>7, TickClaims DEF IInv
  <2> QED
    BY <1>1, <1>7, <2>1, <2>2 DEF IInv, UniqueIDs, Tick, history
<1> QED
  BY <1>2, <1>3, <1>4, <1>5, <1>6, <1>7 DEF Next

LEMMA InvariantInit ==
  ASSUME Init
  PROVE  IInv
<1>1. PICK workerId \in [Plugins -> ConfWorkerIDs] :
          plugin = [p \in Plugins |-> Fresh(workerId[p])]
  BY DEF Init
<1>2. \A p \in Plugins : plugin[p] = Fresh(workerId[p])
  BY <1>1
<1>3. HeldByKey /\ RegistrationKnown
  BY <1>2 DEF Init, Service!Init, Fresh, HeldByKey, Held, RegistrationKnown, Known,
     Unregistered, Registering, At
<1>4. CallsHoldKey /\ IssuedKnown /\ CursorsInPast /\ UniqueIDs
  BY <1>2 DEF Init, Fresh, CallsHoldKey, IssuedKnown, CursorsInPast, UniqueIDs
<1>5. OneStamper
  BY PluginAssumption DEF Init, Service!Init, OneStamper, MayStamp
<1> QED
  BY InitType, <1>3, <1>4, <1>5 DEF IInv

\* The inductive invariant of prompt plugins: reserved and lent worker IDs are in
\* keys of their own, a call past IsHealthy keeps its worker ID from the others, and
\* the IDs of this millisecond are behind the cursor of whoever may go on.
THEOREM PromptInvariant ==
  ASSUME Prompt
  PROVE  Spec => []IInv
<1>1. Init => IInv
  BY InvariantInit
<1>2. IInv /\ [Next]_vars => IInv'
  BY InvariantStep
<1> QED
  BY <1>1, <1>2, PTL DEF Spec

\* When GenerateID returns within the millisecond in which it asked IsHealthy, no
\* two IDs of leasing plugins are the same, in any number of processes that come,
\* go, crash and take over each other's worker IDs.
THEOREM PromptUniqueIDs ==
  ASSUME Prompt
  PROVE  Spec => []UniqueIDs
<1>1. IInv => UniqueIDs
  BY DEF IInv
<1> QED
  BY <1>1, PromptInvariant, PTL

\* With prompt plugins, whoever passes IsHealthy stamps the worker ID of its key.
THEOREM PromptStampsLeasedID ==
  ASSUME Prompt
  PROVE  Spec => []StampsLeasedID
<1>1. IInv => StampsLeasedID
  BY DEF IInv, HeldByKey, Held, RegistrationKnown, Known, StampsLeasedID
<1> QED
  BY <1>1, PromptInvariant, PTL

-----------------------------------------------------------------------------
(* What Stop gives back, prompt or not.                                     *)

\* p knows the keys it holds that are to live on, and once it has unregistered
\* there are none.
KnowsKeys(p) ==
    /\ \A w \in WorkerIDs : key[w] = p =>
          w \in gone \/ w = plugin[p].workerID \/ w = plugin[p].reserved
    /\ plugin[p].reserved # NoID => plugin[p].workerID = NoID
    /\ plugin[p].stage \in {"stopping", "shutdown", "terminated"} =>
          plugin[p].shuttingDown
    /\ plugin[p].stage \in {"shutdown", "terminated"} =>
          plugin[p].workerID = NoID /\ plugin[p].reserved = NoID

KeysKnown == \A p \in Plugins : KnowsKeys(p)

\* No key comes to q, and none that was gone comes back.
LEMMA KnowsFrame ==
  ASSUME NEW q \in Plugins, KnowsKeys(q),
         plugin'[q].stage = plugin[q].stage, plugin'[q].workerID = plugin[q].workerID,
         plugin'[q].reserved = plugin[q].reserved,
         plugin'[q].shuttingDown = plugin[q].shuttingDown,
         \A w \in WorkerIDs : key'[w] = q => key[w] = q /\ (w \in gone => w \in gone')
  PROVE  KnowsKeys(q)'
BY DEF KnowsKeys

LEMMA KnowsOthers ==
  ASSUME TypeOK, KeysKnown, NEW p \in Plugins, NEW r,
         plugin' = [plugin EXCEPT ![p] = r], KnowsKeys(p)',
         \A q \in Plugins \ {p}, w \in WorkerIDs :
             key'[w] = q => key[w] = q /\ (w \in gone => w \in gone')
  PROVE  KeysKnown'
<1>1. \A q \in Plugins : q # p => plugin'[q] = plugin[q]
  BY DEF TypeOK
<1>2. \A q \in Plugins : q # p => KnowsKeys(q)'
  BY <1>1, KnowsFrame DEF KeysKnown
<1> QED
  BY <1>2 DEF KeysKnown

LEMMA LifecycleKnows ==
  ASSUME TypeOK, KeysKnown, NEW p \in Plugins, LifecycleStep(p)
  PROVE  KeysKnown'
<1>1. /\ plugin[p] \in Plugin /\ KnowsKeys(p)
      /\ key \in [WorkerIDs -> Plugins \union {Nobody, Ghost}]
  BY DEF KeysKnown, TypeOK, Service!TypeOK, Service!Owners
<1>2. CASE \/ InitializeResources(p) \/ StartContext(p) \/ RegistrationFails(p)
           \/ StopContext(p) \/ ShutdownGenerator(p) \/ SetGeneratorWorkerID(p)
  <2>1. UNCHANGED <<key, gone>>
    BY <1>2 DEF InitializeResources, StartContext, RegistrationFails, StopContext,
       ShutdownGenerator, SetGeneratorWorkerID
  <2>2. PICK r : plugin' = [plugin EXCEPT ![p] = r]
    BY <1>2 DEF InitializeResources, StartContext, RegistrationFails, StopContext,
       ShutdownGenerator, SetGeneratorWorkerID, GoTo
  <2>3. KnowsKeys(p)'
    <3>1. CASE InitializeResources(p)
      <4>1. PICK b \in BOOLEAN : plugin' = [plugin EXCEPT ![p] =
                [plugin[p] EXCEPT !.stage = "inactive", !.leases = b]]
        BY <3>1 DEF InitializeResources
      <4> QED
        BY <1>1, <2>1, <4>1 DEF TypeOK, KnowsKeys, Plugin
    <3>2. CASE StartContext(p)
      BY <1>1, <2>1, <3>2 DEF TypeOK, StartContext, GoTo, KnowsKeys, At, Plugin
    <3>3. CASE RegistrationFails(p)
      BY <1>1, <2>1, <3>3 DEF TypeOK, RegistrationFails, GoTo, KnowsKeys, At, Plugin
    <3>4. CASE StopContext(p)
      BY <1>1, <2>1, <3>4 DEF TypeOK, StopContext, KnowsKeys, At, Plugin
    <3>5. CASE ShutdownGenerator(p)
      BY <1>1, <2>1, <3>5 DEF TypeOK, ShutdownGenerator, KnowsKeys, At, Plugin
    <3>6. CASE SetGeneratorWorkerID(p)
      BY <1>1, <2>1, <3>6 DEF TypeOK, SetGeneratorWorkerID, KnowsKeys, At, Plugin
    <3> QED
      BY <1>2, <3>1, <3>2, <3>3, <3>4, <3>5, <3>6
  <2> QED
    BY <2>1, <2>2, <2>3, KnowsOthers
<1>3. CASE CommitRegistration(p)
  <2>1. /\ plugin' = [plugin EXCEPT ![p] = [plugin[p] EXCEPT
                         !.workerID = plugin[p].reserved, !.reserved = NoID,
                         !.recovering = FALSE, !.stamps = StampsAfter(p),
                         !.returned = IF At(p, "auto") THEN plugin[p].reserved
                                      ELSE plugin[p].returned,
                         !.stage = StageAfter(p)]]
        /\ plugin[p].reserved # NoID
        /\ UNCHANGED <<key, gone>>
    BY <1>3 DEF CommitRegistration, Service!Lend
  <2>2. /\ plugin'[p].workerID = plugin[p].reserved /\ plugin'[p].reserved = NoID
        /\ plugin'[p].stage = StageAfter(p)
        /\ plugin'[p].shuttingDown = plugin[p].shuttingDown
    BY <1>1, <2>1 DEF TypeOK, Plugin
  <2>3. KnowsKeys(p)'
    BY <1>1, <2>1, <2>2 DEF KnowsKeys, StageAfter, At
  <2> QED
    BY <2>1, <2>3, KnowsOthers
<1>4. CASE UnregisterWorkerID(p)
  <2> DEFINE mine == {w \in {plugin[p].workerID} \intersect WorkerIDs : key[w] = p}
  <2>1. /\ plugin' = [plugin EXCEPT ![p] =
                [plugin[p] EXCEPT !.stage = "shutdown", !.workerID = NoID]]
        /\ plugin[p].reserved = NoID
        /\ At(p, "stopping")
    BY <1>4 DEF UnregisterWorkerID
  <2>2. \/ gone' = gone \union mine /\ UNCHANGED key
        \/ /\ key' = [w \in WorkerIDs |-> IF w \in mine THEN Ghost ELSE key[w]]
           /\ UNCHANGED gone
    BY <1>4 DEF UnregisterWorkerID
  <2>3. \A q \in Plugins, w \in WorkerIDs :
            key'[w] = q => key[w] = q /\ (w \in gone => w \in gone')
    BY <2>2, PluginAssumption
  <2>4. \A w \in WorkerIDs : key'[w] = p => w \in gone'
    <3>1. \A w \in WorkerIDs : key[w] = p => w \in gone \/ w \in mine
      BY <1>1, <2>1, PluginAssumption DEF KnowsKeys
    <3>2. Ghost # p
      BY PluginAssumption
    <3> QED
      BY <2>2, <3>1, <3>2
  <2>5. /\ plugin'[p].workerID = NoID /\ plugin'[p].reserved = NoID
        /\ plugin'[p].stage = "shutdown" /\ plugin'[p].shuttingDown
    BY <1>1, <2>1 DEF TypeOK, Plugin, KnowsKeys, At
  <2>6. KnowsKeys(p)'
    BY <2>4, <2>5 DEF KnowsKeys
  <2> QED
    BY <2>1, <2>3, <2>6, KnowsOthers
<1> QED
  BY <1>2, <1>3, <1>4 DEF LifecycleStep

LEMMA LeaseKnows ==
  ASSUME TypeOK, KeysKnown, NEW p \in Plugins,
         LeaseStep(p) \/ \E w \in WorkerIDs : Reserve(p, w) \/ LoseReservation(p, w)
  PROVE  KeysKnown'
<1>1. /\ plugin[p] \in Plugin /\ KnowsKeys(p) /\ p # Ghost
      /\ key \in [WorkerIDs -> Plugins \union {Nobody, Ghost}]
  BY PluginAssumption DEF KeysKnown, TypeOK, Service!TypeOK, Service!Owners
<1>2. CASE LoseLease(p) \/ RegainLease(p)
  <2>1. UNCHANGED <<gone, plugin>> /\ \A w \in WorkerIDs : key'[w] = key[w]
    BY <1>2 DEF LoseLease, RegainLease, Service!Release, Service!Lend
  <2> QED
    BY <2>1, KnowsFrame DEF KeysKnown
<1>3. CASE Reacquire(p)
  <2>1. /\ plugin' = [plugin EXCEPT ![p] =
                [plugin[p] EXCEPT !.workerID = NoID, !.recovering = TRUE]]
        /\ plugin[p].reserved = NoID
        /\ plugin[p].workerID \in gone \/ key[plugin[p].workerID] # p
        /\ UNCHANGED <<key, gone>>
    BY <1>3 DEF Reacquire
  <2>2. KnowsKeys(p)'
    BY <1>1, <2>1 DEF TypeOK, KnowsKeys, Plugin
  <2> QED
    BY <2>1, <2>2, KnowsOthers
<1>4. CASE Crash(p)
  <2>1. /\ plugin' = [plugin EXCEPT ![p] = Fresh(plugin[p].workerId)]
        /\ UNCHANGED gone
        /\ \A w \in WorkerIDs : key'[w] = IF key[w] = p THEN Ghost ELSE key[w]
    BY <1>4 DEF Crash, Service!Release
  <2>2. plugin'[p] = Fresh(plugin[p].workerId)
    BY <2>1 DEF TypeOK
  <2>3. KnowsKeys(p)'
    BY <1>1, <2>1, <2>2 DEF KnowsKeys, Fresh
  <2>4. \A q \in Plugins \ {p}, w \in WorkerIDs :
            key'[w] = q => key[w] = q /\ (w \in gone => w \in gone')
    BY <2>1, PluginAssumption
  <2> QED
    BY <2>1, <2>3, <2>4, KnowsOthers
<1>5. ASSUME NEW w \in WorkerIDs, Reserve(p, w)
      PROVE  KeysKnown'
  <2>1. /\ plugin' = [plugin EXCEPT ![p] = [plugin[p] EXCEPT !.reserved = w]]
        /\ key' = [key EXCEPT ![w] = p]
        /\ plugin[p].reserved = NoID /\ plugin[p].workerID = NoID
        /\ ~plugin[p].shuttingDown
        /\ UNCHANGED gone
    BY <1>5 DEF Reserve, MayReserve, Service!Reserve
  <2>2. /\ plugin'[p].reserved = w /\ plugin'[p].workerID = NoID
        /\ plugin'[p].stage = plugin[p].stage
        /\ plugin'[p].shuttingDown = plugin[p].shuttingDown
        /\ \A v \in WorkerIDs : key'[v] = IF v = w THEN p ELSE key[v]
    BY <1>1, <2>1 DEF TypeOK, Plugin
  <2>3. KnowsKeys(p)'
    BY <1>1, <2>1, <2>2 DEF KnowsKeys
  <2>4. \A q \in Plugins \ {p}, v \in WorkerIDs :
            key'[v] = q => key[v] = q /\ (v \in gone => v \in gone')
    BY <2>1, <2>2
  <2> QED
    BY <2>1, <2>3, <2>4, KnowsOthers
<1>6. ASSUME NEW w \in WorkerIDs, LoseReservation(p, w)
      PROVE  KeysKnown'
  <2>1. /\ UNCHANGED <<gone, plugin>>
        /\ \A v \in WorkerIDs : key'[v] = IF v = w THEN Ghost ELSE key[v]
    BY <1>6 DEF LoseReservation, Service!Release
  <2> QED
    BY <2>1, KnowsFrame, PluginAssumption DEF KeysKnown
<1> QED
  BY <1>2, <1>3, <1>4, <1>5, <1>6 DEF LeaseStep

LEMMA KnowsStep ==
  ASSUME TypeOK, KeysKnown, [Next]_vars
  PROVE  KeysKnown'
<1>1. CASE UNCHANGED vars
  BY <1>1 DEF vars, KeysKnown, KnowsKeys
<1>2. ASSUME NEW w \in WorkerIDs, KeyExpires(w)
      PROVE  KeysKnown'
  <2>1. UNCHANGED <<key, plugin>> /\ gone \subseteq gone'
    BY <1>2 DEF KeyExpires
  <2> QED
    BY <2>1, KnowsFrame DEF KeysKnown
<1>3. ASSUME NEW c \in Callers,
             (\E p \in Plugins : EnterGenerateID(c, p)) \/ FailGenerateID(c)
      PROVE  KeysKnown'
  <2>1. UNCHANGED <<key, gone, plugin>>
    BY <1>3 DEF EnterGenerateID, FailGenerateID
  <2> QED
    BY <2>1 DEF KeysKnown, KnowsKeys
<1>4. ASSUME NEW c \in Callers, Issue(c)
      PROVE  KeysKnown'
  BY <1>4, IssueChanges, KnowsFrame DEF KeysKnown
<1>5. CASE Tick
  <2>1. /\ UNCHANGED plugin /\ gone' = {}
        /\ \A w \in WorkerIDs : key'[w] = IF w \in gone THEN Nobody ELSE key[w]
    BY <1>5 DEF Tick
  <2> QED
    BY <2>1, KnowsFrame, PluginAssumption DEF KeysKnown
<1> QED
  BY <1>1, <1>2, <1>3, <1>4, <1>5, LifecycleKnows, LeaseKnows DEF Next

\* Start, Stop, recoveries, crashes and calls in any order: a plugin that reaches
\* "terminated" has no worker ID, is not about to get one, and every key that is
\* still its own has been deleted.  Slow calls make no difference.
THEOREM TerminatedPluginsHoldNothing == Spec => []TerminatedHoldsNothing
<1>1. Init => KeysKnown
  <2> SUFFICES ASSUME Init
               PROVE  KeysKnown
    OBVIOUS
  <2>1. PICK workerId \in [Plugins -> ConfWorkerIDs] :
            plugin = [p \in Plugins |-> Fresh(workerId[p])]
    BY DEF Init
  <2>2. \A p \in Plugins : plugin[p] = Fresh(workerId[p])
    BY <2>1
  <2>3. \A w \in WorkerIDs : key[w] = Nobody
    BY DEF Init, Service!Init
  <2>4. ASSUME NEW p \in Plugins
        PROVE  KnowsKeys(p)
    <3>1. plugin[p].stage = "new" /\ plugin[p].reserved = NoID
      <4>1. \A v : Fresh(v).stage = "new" /\ Fresh(v).reserved = NoID
        BY DEF Fresh
      <4> QED
        BY <2>2, <4>1, Zenon
    <3>2. p # Nobody
      BY PluginAssumption
    <3> QED
      BY <2>3, <3>1, <3>2 DEF KnowsKeys
  <2> QED
    BY <2>4 DEF KeysKnown
<1>2. TypeOK /\ KeysKnown /\ [Next]_vars => KeysKnown'
  BY KnowsStep
<1>3. KeysKnown => TerminatedHoldsNothing
  BY PluginAssumption DEF KeysKnown, KnowsKeys, TerminatedHoldsNothing, At
<1> QED
  BY <1>1, <1>2, <1>3, TypeCorrect, PTL DEF Spec
=============================================================================
