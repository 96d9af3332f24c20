------------------------- MODULE LeaseServiceProofs -------------------------
(***************************************************************************)
(* What everything that implements LeaseService.tla may rely on, for any     *)
(* instances and worker IDs: whoever may stamp a worker ID owns its key, and  *)
(* is alone in that.                                                        *)
(***************************************************************************)
EXTENDS LeaseService, TLAPS

IInv == TypeOK /\ LentByOwner

LEMMA IInvStep ==
    ASSUME Nobody \notin Instances, IInv, [Next]_<<key, lent>>
    PROVE  IInv'
<1> USE DEF IInv, TypeOK, Owners, Loans
<1>1. ASSUME NEW i \in Instances, NEW w \in WorkerIDs, Reserve(i, w)
      PROVE  IInv'
  <2>1. TypeOK'
    BY <1>1 DEF Reserve
  <2>2. LentByOwner'
    <3> SUFFICES ASSUME NEW j \in Instances, lent'[j] # NoID
                 PROVE  key'[lent'[j]] = j
      BY DEF LentByOwner
    <3>1. key[lent[j]] = j /\ lent'[j] = lent[j] /\ lent[j] \in WorkerIDs
      BY <1>1 DEF Reserve, LentByOwner
    <3>2. lent[j] # w
      BY <1>1, <3>1 DEF Reserve
    <3> QED BY <1>1, <3>1, <3>2 DEF Reserve
  <2> QED BY <2>1, <2>2
<1>2. ASSUME NEW i \in Instances, NEW w \in WorkerIDs, Lend(i, w)
      PROVE  IInv'
  BY <1>2 DEF Lend, LentByOwner
<1>3. ASSUME NEW losers \in SUBSET Instances, NEW expired \in SUBSET WorkerIDs,
             NEW abandoned \in SUBSET WorkerIDs, Release(losers, expired, abandoned)
      PROVE  IInv'
  BY <1>3 DEF Release, LentByOwner
<1>4. CASE UNCHANGED <<key, lent>>
  BY <1>4 DEF LentByOwner
<1> QED BY <1>1, <1>2, <1>3, <1>4 DEF Next

\* "To avoid cross-instance duplicate IDs" (worker_manager.go, IsHealthy): no two
\* instances may stamp the same worker ID, and each stamps one it holds the key of.
THEOREM LeasesExclusive ==
    ASSUME Nobody \notin Instances
    PROVE  Spec => [](TypeOK /\ LentByOwner /\ Exclusive)
<1>1. Init => IInv
  BY DEF Init, IInv, TypeOK, LentByOwner, Owners, Loans
<1>2. IInv /\ [Next]_<<key, lent>> => IInv'
  BY IInvStep
<1>3. IInv => TypeOK /\ LentByOwner /\ Exclusive
  BY DEF IInv, LentByOwner, Exclusive
<1> QED BY <1>1, <1>2, <1>3, PTL DEF Spec
=============================================================================
