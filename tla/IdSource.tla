----------------------------- MODULE IdSource -----------------------------
(***************************************************************************)
(* What a Generator amounts to for those who receive its IDs: a cursor      *)
(* (lastTimestamp, sequence) that moves to the next sequence number or to   *)
(* the start of a later millisecond and is stamped with a worker ID.  There *)
(* is no clock, cache, lock or caller here.  Rewind is the one move that    *)
(* issues nothing: a used-up millisecond starts its numbers over.           *)
(***************************************************************************)
EXTENDS Integers, Sequences

CONSTANTS WorkerIDs, MaxSequence

VARIABLES lastTimestamp, sequence, issued

vars == <<lastTimestamp, sequence, issued>>

Init ==
    /\ lastTimestamp = -1
    /\ sequence = 0
    /\ issued = << >>

NextNumber ==
    /\ lastTimestamp # -1
    /\ sequence < MaxSequence
    /\ lastTimestamp' = lastTimestamp
    /\ sequence' = sequence + 1

LaterMillisecond ==
    /\ lastTimestamp' > lastTimestamp
    /\ sequence' = 0

Issue ==
    /\ NextNumber \/ LaterMillisecond
    /\ \E w \in WorkerIDs :
           issued' = Append(issued, [ts |-> lastTimestamp', worker |-> w,
                                     seq |-> sequence'])

Rewind ==
    /\ sequence = MaxSequence
    /\ sequence' = 0
    /\ UNCHANGED <<lastTimestamp, issued>>

Next == Issue \/ Rewind

Spec == Init /\ [][Next]_vars
=============================================================================
