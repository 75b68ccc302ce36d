----------------------------- MODULE Dictionary -----------------------------
(***************************************************************************)
(* What a hash promises the language: a set of keys, and an iterator that  *)
(* hands out each of them once.  While it is in use the keys it has yet to *)
(* hand out stay the same; existing keys may be bound anew, and the key    *)
(* just handed out may be deleted.                                         *)
(***************************************************************************)
CONSTANTS Keys, Null

VARIABLES
    keys,
    iterating,
    unseen,     \* what the iterator has yet to hand out
    current     \* what it has handed out last, unless that was deleted

vars == <<keys, iterating, unseen, current>>

Init == keys = {} /\ ~iterating /\ unseen = {} /\ current = Null

(* A new hash is filled at once.                                           *)
Deserialize ==
    /\ ~iterating /\ keys = {}
    /\ keys' \in SUBSET Keys /\ UNCHANGED <<iterating, unseen, current>>

Bind(k) ==
    /\ iterating => k \in keys
    /\ keys' = keys \cup {k} /\ UNCHANGED <<iterating, unseen, current>>

Delete(k) ==
    /\ iterating => k = current
    /\ keys' = keys \ {k} /\ current' = Null /\ UNCHANGED <<iterating, unseen>>

Free == ~iterating /\ keys' = {} /\ UNCHANGED <<iterating, unseen, current>>

Iterate ==
    /\ ~iterating /\ iterating' = TRUE
    /\ unseen' = keys /\ current' = Null /\ UNCHANGED keys

Shift ==
    /\ iterating
    /\ \E k \in unseen : current' = k /\ unseen' = unseen \ {k}
    /\ UNCHANGED <<keys, iterating>>

(* There is nothing left to hand out.                                      *)
Exhaust == iterating /\ unseen = {} /\ current' = Null /\ UNCHANGED <<keys, iterating, unseen>>

Leave ==
    /\ iterating /\ iterating' = FALSE
    /\ unseen' = {} /\ current' = Null /\ UNCHANGED keys

Next ==
    \/ \E k \in Keys : Bind(k) \/ Delete(k)
    \/ Deserialize \/ Free \/ Iterate \/ Shift \/ Exhaust \/ Leave

Spec == Init /\ [][Next]_vars
=============================================================================
