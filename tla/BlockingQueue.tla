---------------------------- MODULE BlockingQueue ----------------------------
(***************************************************************************)
(* What a concurrent blocking queue promises: a sequence to which values   *)
(* are added at either end and taken from the front, one at a time.        *)
(***************************************************************************)
EXTENDS Naturals, Sequences

CONSTANTS Threads, Values, Null

VARIABLES
    q,          \* the values in the queue
    added,      \* the values ever added
    result      \* what the last shift or poll of a thread returned, 0 before the first

Init == q = <<>> /\ added = {} /\ result = [t \in Threads |-> 0]

Push(v) == v \notin added /\ q' = Append(q, v) /\ added' = added \cup {v} /\ UNCHANGED result

Unshift(v) == v \notin added /\ q' = <<v>> \o q /\ added' = added \cup {v} /\ UNCHANGED result

Take(t) ==
    /\ q # <<>>
    /\ q' = Tail(q)
    /\ result' = [result EXCEPT ![t] = Head(q)]
    /\ UNCHANGED added

(* A poll that finds nothing returns Null, which is not 0: the first such  *)
(* poll of a thread is a step and no stutter.                              *)
FindEmpty(t) == q = <<>> /\ result' = [result EXCEPT ![t] = Null] /\ UNCHANGED <<q, added>>

Next ==
    \/ \E v \in Values : Push(v) \/ Unshift(v)
    \/ \E t \in Threads : Take(t) \/ FindEmpty(t)

Spec == Init /\ [][Next]_<<q, added, result>>
=============================================================================
