---------------------------- MODULE LeaseService ---------------------------
(***************************************************************************)
(* What the worker ID managers and Redis together promise: a worker ID may  *)
(* be stamped by at most one instance at a time, the one whose key holds it. *)
(*                                                                          *)
(* Registration reserves a key and then lends its worker ID to the instance; *)
(* the loan is withdrawn before the key can pass to another instance, and an *)
(* instance changes its worker ID only by losing one loan and getting        *)
(* another.  A key whose instance_id no process knows any more, because the  *)
(* process died or never got the answer of its SETNX, belongs to a ghost     *)
(* until it expires.                                                        *)
(***************************************************************************)
CONSTANTS
    Instances,
    WorkerIDs,
    Nobody, Ghost,  \* owners of a key that is not in Redis, or abandoned: no instances
    NoID            \* the loan of an instance that may not generate: no worker ID

VARIABLES
    key,    \* the owner of each worker ID's key
    lent    \* the worker ID each instance may stamp

Owners == Instances \union {Nobody, Ghost}
Loans  == WorkerIDs \union {NoID}

Init ==
    /\ key = [w \in WorkerIDs |-> Nobody]
    /\ lent = [i \in Instances |-> NoID]

\* SETNX succeeds.
Reserve(i, w) ==
    /\ key[w] = Nobody
    /\ key' = [key EXCEPT ![w] = i]
    /\ UNCHANGED lent

\* A registration is committed, or a heartbeat finds the key still its own.
Lend(i, w) ==
    /\ key[w] = i
    /\ lent[i] = NoID
    /\ lent' = [lent EXCEPT ![i] = w]
    /\ UNCHANGED key

\* Instances lose their loans (a failed beat, an expired lease, Stop, a crash),
\* keys that are not lent expire or are deleted, or are left to a ghost.
Release(losers, expired, abandoned) ==
    /\ lent' = [i \in Instances |-> IF i \in losers THEN NoID ELSE lent[i]]
    /\ \A i \in Instances : lent'[i] \notin expired \union abandoned
    /\ key' = [w \in WorkerIDs |-> IF w \in expired THEN Nobody
                                   ELSE IF w \in abandoned THEN Ghost ELSE key[w]]

Next ==
    \/ \E i \in Instances, w \in WorkerIDs : Reserve(i, w) \/ Lend(i, w)
    \/ \E losers \in SUBSET Instances, expired, abandoned \in SUBSET WorkerIDs :
           Release(losers, expired, abandoned)

Spec == Init /\ [][Next]_<<key, lent>>

-----------------------------------------------------------------------------

\* Keys and loans keep their types.
TypeOK == key \in [WorkerIDs -> Owners] /\ lent \in [Instances -> Loans]

\* IsHealthy lets an instance generate only with a worker ID its own key holds.
LentByOwner == \A i \in Instances : lent[i] # NoID => key[lent[i]] = i

\* No two instances may stamp the same worker ID.
Exclusive ==
    \A i, j \in Instances : lent[i] # NoID /\ lent[i] = lent[j] => i = j
=============================================================================
