-------------------------- MODULE ConcBlockingQueue --------------------------
(***************************************************************************)
(* The two-lock queue of 6model/reprs/ConcBlockingQueue.c: a linked list   *)
(* whose head node is a dummy, a lock for each end, an atomic count and    *)
(* one condition variable for the threads that wait for an element.        *)
(*                                                                         *)
(* A step is what a thread does between two points where another thread    *)
(* can see the difference: a lock and the writes it protects up to the     *)
(* first one another thread reads without that lock.  A value is named by  *)
(* the node that carries it.                                               *)
(***************************************************************************)
EXTENDS Naturals, FiniteSets, Sequences

CONSTANTS
    Threads,
    MaxNodes,   \* bound: nodes ever allocated, the first dummy included
    MaxTakes,   \* bound: how often each thread shifts, polls or peeks
    Null

ASSUME QueueAssumption == MaxNodes \in Nat \ {0} /\ MaxTakes \in Nat /\ Null \notin Nat

Nodes == 1..MaxNodes

VARIABLES
    head, tail, elems, head_lock, tail_lock,    \* MVMConcBlockingQueueBody
    next, value,                                \* MVMConcBlockingQueueNode
    allocated, freed,                           \* nodes handed out, nodes given back
    pc, add, waiting,                           \* where a thread is; its new node; who waits on head_cond
    result,                                     \* of a thread's last shift or poll, 0 before the first
    peeked, takes

listVars == <<head, tail, next, value, allocated, freed>>
vars == <<listVars, elems, head_lock, tail_lock, pc, add, waiting, result, peeked, takes>>

Init ==
    /\ head = 1 /\ tail = 1 /\ elems = 0
    /\ head_lock = Null /\ tail_lock = Null
    /\ next = [n \in Nodes |-> Null] /\ value = [n \in Nodes |-> Null]
    /\ allocated = 1 /\ freed = {}
    /\ pc = [t \in Threads |-> "idle"] /\ add = [t \in Threads |-> Null] /\ waiting = {}
    /\ result = [t \in Threads |-> 0] /\ peeked = [t \in Threads |-> 0]
    /\ takes = [t \in Threads |-> 0]

At(t, label)   == pc[t] = label
Goto(t, label) == pc' = [pc EXCEPT ![t] = label]

(* uv_cond_signal wakes one of the threads that wait, if any does.         *)
Signal ==
    IF waiting = {} THEN UNCHANGED waiting
    ELSE \E u \in waiting : waiting' = waiting \ {u}

-----------------------------------------------------------------------------
(* Both ends: a node is allocated before any lock is taken.                *)
Allocate(t, label) ==
    /\ At(t, "idle") /\ allocated < MaxNodes
    /\ allocated' = allocated + 1
    /\ add' = [add EXCEPT ![t] = allocated + 1]
    /\ Goto(t, label)
    /\ UNCHANGED <<head, tail, next, value, freed, elems, head_lock, tail_lock, waiting, result,
                   peeked, takes>>

PushLink(t) ==
    /\ At(t, "push_link") /\ tail_lock = Null
    /\ tail_lock' = t
    /\ value' = [value EXCEPT ![add[t]] = add[t]]
    /\ next' = [next EXCEPT ![tail] = add[t]]
    /\ tail' = add[t]
    /\ Goto(t, "push_count")
    /\ UNCHANGED <<head, allocated, freed, elems, head_lock, add, waiting, result, peeked, takes>>

(* The push that finds the count at zero has to wake a waiter.             *)
PushCount(t) ==
    /\ At(t, "push_count")
    /\ elems' = elems + 1
    /\ tail_lock' = Null
    /\ Goto(t, IF elems = 0 THEN "push_signal" ELSE "idle")
    /\ UNCHANGED <<listVars, head_lock, add, waiting, result, peeked, takes>>

PushSignal(t) ==
    /\ At(t, "push_signal") /\ head_lock = Null
    /\ Signal
    /\ Goto(t, "idle")
    /\ UNCHANGED <<listVars, elems, head_lock, tail_lock, add, result, peeked, takes>>

UnshiftLockTail(t) ==
    /\ At(t, "unshift_lock") /\ tail_lock = Null
    /\ tail_lock' = t
    /\ Goto(t, "unshift_link")
    /\ UNCHANGED <<listVars, elems, head_lock, add, waiting, result, peeked, takes>>

UnshiftLink(t) ==
    /\ At(t, "unshift_link") /\ head_lock = Null
    /\ head_lock' = t
    /\ value' = [value EXCEPT ![add[t]] = add[t]]
    /\ next' = [next EXCEPT ![add[t]] = next[head], ![head] = add[t]]
    /\ Goto(t, "unshift_count")
    /\ UNCHANGED <<head, tail, allocated, freed, elems, tail_lock, add, waiting, result, peeked,
                   takes>>

TailLeftBehind(t) == tail
TailAfterUnshift(t) == IF elems = 0 THEN add[t] ELSE tail

UnshiftCount(t) ==
    /\ At(t, "unshift_count")
    /\ elems' = elems + 1
    /\ tail' = TailAfterUnshift(t)
    /\ IF elems = 0 THEN Signal ELSE UNCHANGED waiting
    /\ head_lock' = Null /\ tail_lock' = Null
    /\ Goto(t, "idle")
    /\ UNCHANGED <<head, next, value, allocated, freed, add, result, peeked, takes>>

-----------------------------------------------------------------------------
Begin(t, label) ==
    /\ At(t, "idle") /\ takes[t] < MaxTakes
    /\ takes' = [takes EXCEPT ![t] = @ + 1]
    /\ Goto(t, label)
    /\ UNCHANGED <<listVars, elems, head_lock, tail_lock, add, waiting, result, peeked>>

(* shift, first with the lock and later with the one uv_cond_wait took     *)
(* back: no element, so it waits.  uv_cond_wait may also return on its own.*)
ShiftWait(t) ==
    /\ At(t, "shift") /\ t \notin waiting /\ head_lock = Null
    /\ elems = 0
    /\ waiting' = waiting \cup {t}
    /\ UNCHANGED <<listVars, elems, head_lock, tail_lock, pc, add, result, peeked, takes>>

SpuriousWakeup(t) ==
    /\ t \in waiting
    /\ waiting' = waiting \ {t}
    /\ UNCHANGED <<listVars, elems, head_lock, tail_lock, pc, add, result, peeked, takes>>

(* shift and poll: the dummy is freed, the first node becomes the dummy.   *)
Taken(t) ==
    LET taken == next[head] IN
    /\ freed' = freed \cup {head}
    /\ head' = taken
    /\ result' = [result EXCEPT ![t] = value[taken]]
    /\ value' = [value EXCEPT ![taken] = Null]

ShiftTake(t) ==
    /\ At(t, "shift") /\ t \notin waiting /\ head_lock = Null
    /\ elems > 0
    /\ head_lock' = t
    /\ Taken(t)
    /\ Goto(t, "take_count")
    /\ UNCHANGED <<tail, next, allocated, elems, tail_lock, add, waiting, peeked, takes>>

PollFindsLinked == next[head] # Null
PollFinds == elems > 0

PollTake(t) ==
    /\ At(t, "poll") /\ head_lock = Null
    /\ PollFinds
    /\ head_lock' = t
    /\ Taken(t)
    /\ Goto(t, "take_count")
    /\ UNCHANGED <<tail, next, allocated, elems, tail_lock, add, waiting, peeked, takes>>

PollEmpty(t) ==
    /\ At(t, "poll") /\ head_lock = Null
    /\ ~PollFinds
    /\ result' = [result EXCEPT ![t] = Null]
    /\ Goto(t, "idle")
    /\ UNCHANGED <<listVars, elems, head_lock, tail_lock, add, waiting, peeked, takes>>

PassesOnNever(orig_elems) == FALSE
PassesOn(orig_elems) == orig_elems > 1

TakeCount(t) ==
    /\ At(t, "take_count")
    /\ elems' = elems - 1
    /\ IF PassesOn(elems) THEN Signal ELSE UNCHANGED waiting
    /\ head_lock' = Null
    /\ Goto(t, "idle")
    /\ UNCHANGED <<listVars, tail_lock, add, result, peeked, takes>>

(* at_pos(0): the count is read without a lock, the list with the head     *)
(* lock; 0 stands for VMNull, Null for a NULL pointer.                     *)
PeekCheck(t) ==
    /\ At(t, "peek")
    /\ IF elems > 0 THEN Goto(t, "peek_read") /\ UNCHANGED peeked
       ELSE Goto(t, "idle") /\ peeked' = [peeked EXCEPT ![t] = 0]
    /\ UNCHANGED <<listVars, elems, head_lock, tail_lock, add, waiting, result, takes>>

PeekedHead == head
PeekedNode == next[head]

PeekRead(t) ==
    /\ At(t, "peek_read") /\ head_lock = Null
    /\ peeked' = [peeked EXCEPT ![t] = IF PeekedNode = Null THEN 0 ELSE value[PeekedNode]]
    /\ Goto(t, "idle")
    /\ UNCHANGED <<listVars, elems, head_lock, tail_lock, add, waiting, result, takes>>

Step(t) ==
    \/ PushLink(t) \/ PushCount(t) \/ PushSignal(t)
    \/ UnshiftLockTail(t) \/ UnshiftLink(t) \/ UnshiftCount(t)
    \/ ShiftWait(t) \/ ShiftTake(t) \/ PollTake(t) \/ PollEmpty(t) \/ TakeCount(t)
    \/ PeekCheck(t) \/ PeekRead(t)

Choose(t) ==
    \/ Allocate(t, "push_link") \/ Allocate(t, "unshift_lock")
    \/ Begin(t, "shift") \/ Begin(t, "poll") \/ Begin(t, "peek")

Next == \E t \in Threads : Choose(t) \/ Step(t) \/ SpuriousWakeup(t)

Spec == Init /\ [][Next]_vars

(* A thread inside an operation goes on; nobody has to start one.          *)
FairSpec == Spec /\ \A t \in Threads : WF_vars(Step(t))

-----------------------------------------------------------------------------
(* The node that is i links behind the head, or Null.                      *)
Follow ==
    LET f[i \in 0..MaxNodes] ==
            IF i = 0 THEN head ELSE IF f[i - 1] = Null THEN Null ELSE next[f[i - 1]]
    IN f

Linked == {i \in 1..MaxNodes : Follow[i] # Null}

(* Elements that are linked and not counted, or counted and not linked.    *)
Uncounted(label) == Cardinality({t \in Threads : pc[t] = label})

(* The list that push and shift change under different locks stays one     *)
(* list: from the dummy head it leads to the tail, through no freed node,  *)
(* and the count differs from its length only by the operations that are   *)
(* between their write to the list and their write to the count.           *)
ListIntact ==
    /\ Uncounted("unshift_count") = 0 => Follow[Cardinality(Linked)] = tail
    /\ \A i \in {0} \cup Linked : Follow[i] \notin freed
    /\ Cardinality(Linked) + Uncounted("take_count")
         = elems + Uncounted("push_count") + Uncounted("unshift_count")

(* A peek yields VMNull or an element, never a NULL pointer: the value of  *)
(* a node is cleared only once it has become the dummy head.               *)
PeekNeverNull == \A t \in Threads : peeked[t] # Null

(* The queue is the counted part of the list: push takes effect when it    *)
(* counts its element, shift and poll when they move the head.             *)
QueueView ==
    LET skip == Uncounted("unshift_count")
        n    == elems - Uncounted("take_count")
    IN [i \in 1..n |-> value[Follow[i + skip]]]

Abstract == INSTANCE BlockingQueue WITH
    Values <- 2..MaxNodes,
    q      <- QueueView,
    added  <- {n \in 2..allocated : \A t \in Threads :
                  ~(add[t] = n /\ pc[t] \in {"push_link", "push_count", "unshift_lock",
                                             "unshift_link", "unshift_count"})}

(* Shift, poll, push and unshift of any threads at once behave like        *)
(* operations on one sequence: first in first out, nothing lost, nothing   *)
(* taken twice, and poll finds nothing only when there is nothing.         *)
ActsAsQueue == Abstract!Spec

(* A thread that waits in shift while there are elements is woken or the   *)
(* elements are taken by others: the one signal per element that pushes    *)
(* and takes hand on to each other is never lost.                          *)
WaiterServed ==
    \A t \in Threads : (t \in waiting /\ elems > 0) ~> (t \notin waiting \/ elems = 0)
=============================================================================
