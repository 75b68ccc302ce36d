------------------------------- MODULE GcHeap -------------------------------
(***************************************************************************)
(* The two generations of the heap: what the threads of a program do to    *)
(* objects through the allocator and the write barrier (gc/allocation.c,   *)
(* gc/wb.h, gc/roots.c, gc/objectid.c), and how a collection copies, marks,*)
(* promotes and frees them (gc/collect.c, finish_gc of gc/orchestrate.c).  *)
(*                                                                         *)
(* An object has one field.  An object that survives moves at most twice:  *)
(* it is "young", then "seen" (it has been copied within the nursery), then*)
(* in "gen2", so an address is an object and a place, and the forwarder of *)
(* an old address leads to the object's present place.  How the threads are*)
(* stopped is left to GcOrchestrate; what is taken over from it is who     *)
(* collects for whom, and who runs again while others still sweep.         *)
(***************************************************************************)
EXTENDS Gen2

CONSTANTS
    Objects, Null,
    Main,
    Global,         \* an object that was made before the threads were
    Exiting,        \* the threads that end
    PassSize,       \* MVM_GC_PASS_WORK_SIZE
    MaxOps,         \* bound on what the threads of the program do
    MaxCollect      \* bound on the collections

ASSUME HeapAssumption ==
    Main \in Threads \ Exiting /\ Global \in Objects /\ PassSize \in Nat \ {0}

VARIABLES
    ref,            \* slot -> what it refers to, a root or the field of an object
    place, owner, flags2, cell,     \* object -> where it is, and its header
    object_ids,     \* object in the nursery -> cell reserved for it, or Null
    gen2roots,      \* thread -> objects of gen2 that may refer to the nursery
    stage,          \* thread -> of its life
    barrier,        \* thread -> the write whose barrier it is executing
    phase, worker, coordinator, full,   \* of the collection
    worklist, to_pass, gc_in_tray,      \* thread -> slots
    unscanned,      \* thread -> its gen2roots not looked at yet
    copied,         \* objects that have been moved in this collection
    panic,
    doomed,         \* what the present full collection has to free and has not yet
    leftover,       \* a full collection has started with a mark left over
    ops, collections

graph == <<ref, place, owner, flags2, cell, object_ids, gen2roots>>
run == <<phase, worker, coordinator, full, worklist, to_pass, gc_in_tray, unscanned, copied>>
history == <<doomed, leftover, collections>>
vars == <<graph, gen2Vars, run, history, stage, barrier, panic, ops>>

Perm == <<"perm", Null>>
Register(t) == <<"register", t>>
Field(o) == <<"field", o>>
Roots == {Perm} \cup {Register(t) : t \in Threads}
Slots == Roots \cup {Field(o) : o \in Objects}

Address(o) == <<o, place[o]>>
InGen2(r) == r[2] = "gen2"
NoWrite == [root |-> Null, referenced |-> Null, flags2 |-> {}]

Init ==
    /\ size_class = [t \in Threads |-> IF t = Main THEN [NoPages EXCEPT !.pages = <<1>>, !.alloc_pos = 1]
                                       ELSE NoPages]
    /\ num_pages = 1
    /\ ref = [s \in Slots |-> IF s = Perm THEN <<Global, "gen2">> ELSE Null]
    /\ place = [o \in Objects |-> IF o = Global THEN "gen2" ELSE "free"]
    /\ cell = [o \in Objects |-> IF o = Global THEN <<1, 1>> ELSE Null]
    /\ owner = [o \in Objects |-> Main] /\ flags2 = [o \in Objects |-> {}]
    /\ object_ids = [o \in Objects |-> Null]
    /\ gen2roots = [t \in Threads |-> {}]
    /\ stage = [t \in Threads |-> "started"] /\ barrier = [t \in Threads |-> NoWrite]
    /\ phase = [t \in Threads |-> "run"] /\ worker = [t \in Threads |-> t]
    /\ coordinator = Main /\ full = FALSE
    /\ worklist = [t \in Threads |-> {}] /\ to_pass = [t \in Threads |-> {}]
    /\ gc_in_tray = [t \in Threads |-> {}] /\ unscanned = [t \in Threads |-> {}]
    /\ copied = {} /\ panic = FALSE
    /\ doomed = {} /\ leftover = FALSE /\ ops = 0 /\ collections = 0

(* What is reached from a set of slots.                                    *)
Targets(slots) == {ref[s][1] : s \in {u \in slots : ref[u] # Null}}
ReachedFrom(slots) ==
    LET reached[n \in 0 .. Cardinality(Objects)] ==
            IF n = 0 THEN Targets(slots)
            ELSE reached[n - 1] \cup Targets({Field(o) : o \in reached[n - 1]})
    IN reached[Cardinality(Objects)]

Alive == {t \in Threads : stage[t] # "destroyed"}

-----------------------------------------------------------------------------
(* A thread runs when finish_gc has let it go: one whose work was stolen   *)
(* when its own nursery is swept, the others when the coordinator is done  *)
(* with everything it sweeps, whatever the other participants still sweep. *)
Running(t) ==
    /\ stage[t] = "started" /\ phase[t] = "run" /\ ~panic
    /\ worker[t] = t => \A u \in Alive : worker[u] = coordinator => phase[u] = "run"

(* One operation of thread t, which is not in the middle of a write.       *)
Operation(t) ==
    /\ Running(t) /\ barrier[t] = NoWrite
    /\ ops < MaxOps /\ ops' = ops + 1

AtHand(t) == {Address(o) : o \in ReachedFrom({Perm, Register(t)})}

(* A new object: in the nursery, or in gen2 if allocate_in_gen2 says so.   *)
NewObject(t, o, p, c) ==
    /\ place' = [place EXCEPT ![o] = p] /\ cell' = [cell EXCEPT ![o] = c]
    /\ owner' = [owner EXCEPT ![o] = t] /\ flags2' = [flags2 EXCEPT ![o] = {}]
    /\ object_ids' = [object_ids EXCEPT ![o] = Null]
    /\ ref' = [ref EXCEPT ![Register(t)] = <<o, p>>, ![Field(o)] = Null]
    /\ UNCHANGED <<gen2roots, run, history, stage, barrier, panic>>

FreeObjects == {o \in Objects : place[o] = "free"}

Allocate(t) ==
    /\ Operation(t) /\ FreeObjects # {}
    /\ NewObject(t, CHOOSE o \in FreeObjects : TRUE, "young", Null)
    /\ UNCHANGED gen2Vars

AllocateInGen2(t) ==
    /\ Operation(t) /\ FreeObjects # {}
    /\ NewObject(t, CHOOSE o \in FreeObjects : TRUE, "gen2", NextCell(t))
    /\ gen2_allocate(t)

(* Loading a reference into a register, or clearing it.                    *)
Load(t) ==
    /\ Operation(t)
    /\ \E r \in AtHand(t) \cup {Null} : ref' = [ref EXCEPT ![Register(t)] = r]
    /\ UNCHANGED <<place, owner, flags2, cell, object_ids, gen2roots, gen2Vars, run, history,
                   stage, barrier, panic>>

(* Mutant: the barrier is hit only by the first copy of an object.         *)
BarrierHitByYoung(o, r) == place[o] = "gen2" /\ r # Null /\ r[2] = "young"

(* MVM_gc_write_barrier: an object of gen2 is to refer to the nursery.     *)
BarrierHit(o, r) == place[o] = "gen2" /\ r # Null /\ ~InGen2(r)

Referenced(r) == flags2[r[1]] \cup {"REF_FROM_GEN2"}

(* MVM_ASSIGN_REF of what the register holds to the field of an object; a  *)
(* write whose barrier adds a root goes on in AddRoot.                     *)
Assign(t) ==
    /\ Operation(t)
    /\ \E x \in AtHand(t) :
         LET o == x[1] r == ref[Register(t)] IN
         \/ /\ BarrierHit(o, r) /\ "IN_GEN2_ROOT_LIST" \notin flags2[o]
            /\ barrier' = [barrier EXCEPT ![t] =
                              [root |-> o, referenced |-> r, flags2 |-> flags2[o]]]
            /\ UNCHANGED <<ref, flags2>>
         \/ /\ ~(BarrierHit(o, r) /\ "IN_GEN2_ROOT_LIST" \notin flags2[o])
            /\ flags2' = IF BarrierHit(o, r) THEN [flags2 EXCEPT ![r[1]] = Referenced(r)]
                         ELSE flags2
            /\ ref' = [ref EXCEPT ![Field(o)] = r]
            /\ UNCHANGED barrier
    /\ UNCHANGED <<place, owner, cell, object_ids, gen2roots, gen2Vars, run, history, stage, panic>>

(* MVM_gc_root_gen2_add sets the flag with a plain read, or and store.  If *)
(* another thread has swept the object since the read, the byte that is    *)
(* left is that of one of the two, or that of both in turn.                *)
FlagsStored(read, now) ==
    {read \cup {"IN_GEN2_ROOT_LIST"}, now \cup {"IN_GEN2_ROOT_LIST"}}
    \cup (IF read = now THEN {} ELSE {now})

AddRoot(t) ==
    LET write == barrier[t] o == write.root IN
    /\ write # NoWrite /\ ~panic
    /\ gen2roots' = [gen2roots EXCEPT ![t] = @ \cup {o}]
    /\ \E f \in FlagsStored(write.flags2, flags2[o]) :
         flags2' = [flags2 EXCEPT ![o] = f, ![write.referenced[1]] = Referenced(write.referenced)]
    /\ ref' = [ref EXCEPT ![Field(o)] = write.referenced]
    /\ barrier' = [barrier EXCEPT ![t] = NoWrite]
    /\ UNCHANGED <<place, owner, cell, object_ids, gen2Vars, run, history, stage, panic, ops>>

(* MVM_gc_object_id: an object of the nursery gets the cell it is going to *)
(* move to, from the allocator of the thread that asks.                    *)
ObjectId(t) ==
    LET r == ref[Register(t)] IN
    /\ Operation(t)
    /\ r # Null /\ ~InGen2(r) /\ object_ids[r[1]] = Null
    /\ object_ids' = [object_ids EXCEPT ![r[1]] = NextCell(t)]
    /\ gen2_allocate(t)
    /\ UNCHANGED <<ref, place, owner, flags2, cell, gen2roots, run, history, stage, barrier, panic>>

Exit(t) ==
    /\ Operation(t) /\ t \in Exiting
    /\ stage' = [stage EXCEPT ![t] = "exited"]
    /\ ref' = [ref EXCEPT ![Register(t)] = Null]
    /\ UNCHANGED <<place, owner, flags2, cell, object_ids, gen2roots, gen2Vars, run, history,
                   barrier, panic>>

Mutator(t) ==
    \/ Allocate(t) \/ AllocateInGen2(t) \/ Load(t) \/ Assign(t) \/ AddRoot(t)
    \/ ObjectId(t) \/ Exit(t)

-----------------------------------------------------------------------------
InPages(t) == {o \in Objects : place[o] = "gen2" /\ cell[o] \in Range(Cells(t))}

(* The gen2 of the threads the next collection destroys: it hands it over  *)
(* as it is.                                                               *)
Unswept == UNION {InPages(t) : t \in {u \in Threads : stage[u] = "clearing_nursery"}}

(* A collection starts, of both generations or of the nursery, when every  *)
(* thread is at a sync point.  The coordinator takes over the threads that *)
(* are blocked and those that have exited.                                 *)
StartCollection(c) ==
    /\ Running(c) /\ collections < MaxCollect /\ collections' = collections + 1
    /\ \A t \in Alive : phase[t] = "run" /\ barrier[t] = NoWrite
    /\ coordinator' = c
    /\ worker' \in {w \in [Threads -> Threads] :
                      \A t \in Threads :
                         w[t] \in (IF t = c \/ stage[t] # "started" THEN {c} ELSE {t, c})}
    /\ full' \in BOOLEAN
    /\ phase' = [t \in Threads |-> IF t \in Alive THEN "queued" ELSE phase[t]]
    /\ copied' = {}
    /\ doomed' = IF full' THEN (Objects \ FreeObjects) \ (ReachedFrom(Roots) \cup Unswept)
                 ELSE {}
    /\ leftover' = (leftover \/ (full' /\ \E o \in Objects : "GEN2_LIVE" \in flags2[o]))
    /\ UNCHANGED <<graph, gen2Vars, worklist, to_pass, gc_in_tray, unscanned, stage, barrier,
                   panic, ops>>

Collecting == {"roots", "scan", "gen2", "tray"}

(* A worker collects for one thread at a time, for itself first.           *)
Turn(w) ==
    /\ ~panic
    /\ \A u \in Threads \ {w} : worker[u] = worker[w] => phase[u] \notin Collecting
    /\ w # worker[w] => phase[worker[w]] # "queued"

(* MVM_gc_worklist_add: null, and gen2 while the nursery is collected, are *)
(* left out.                                                               *)
Worth(slots) == {s \in slots : ref[s] # Null /\ (full \/ ~InGen2(ref[s]))}

CollectRoots(w) ==
    /\ phase[w] = "queued" /\ Turn(w)
    /\ phase' = [phase EXCEPT ![w] = "roots"]
    /\ worklist' = [worklist EXCEPT ![w] =
                       Worth({Register(w)} \cup (IF w = coordinator THEN {Perm} ELSE {}))]
    /\ UNCHANGED <<graph, gen2Vars, worker, coordinator, full, to_pass, gc_in_tray, unscanned,
                   copied, history, stage, barrier, panic, ops>>

-----------------------------------------------------------------------------
(* process_worklist: one item.                                             *)
Forwarded(r) == ~InGen2(r) /\ r # Address(r[1])

(* Nothing to do: a marked object, or one that w has copied by now.        *)
Settled(w, r) ==
    IF InGen2(r) THEN ~full \/ "GEN2_LIVE" \in flags2[r[1]]
    ELSE ~Forwarded(r) /\ r[1] \in copied /\ owner[r[1]] = w

Taken(w, s) == [worklist EXCEPT ![w] = @ \ {s}]

SkipItem(w, s) ==
    /\ Settled(w, ref[s])
    /\ worklist' = Taken(w, s)
    /\ UNCHANGED <<graph, gen2Vars, to_pass, gc_in_tray, copied, panic>>

FollowForwarder(w, s) ==
    /\ Forwarded(ref[s])
    /\ ref' = [ref EXCEPT ![s] = Address(ref[s][1])]
    /\ worklist' = Taken(w, s)
    /\ UNCHANGED <<place, owner, flags2, cell, object_ids, gen2roots, gen2Vars, to_pass,
                   gc_in_tray, copied, panic>>

(* push_work_to_thread_in_tray: work for a thread that is gone is fatal.   *)
Push(batches) ==
    /\ gc_in_tray' = [u \in Threads |-> gc_in_tray[u] \cup {b[2] : b \in {d \in batches : d[1] = u}}]
    /\ panic' = (\E b \in batches : stage[b[1]] = "destroyed")

PassItem(w, s) ==
    LET u == owner[ref[s][1]]
        batch == {b \in to_pass[w] : b[1] = u} \cup {<<u, s>>}
    IN
    /\ ~Settled(w, ref[s]) /\ ~Forwarded(ref[s]) /\ u # w
    /\ worklist' = Taken(w, s)
    /\ IF Cardinality(batch) = PassSize
       THEN Push(batch) /\ to_pass' = [to_pass EXCEPT ![w] = @ \ batch]
       ELSE Push({}) /\ to_pass' = [to_pass EXCEPT ![w] = @ \cup batch]
    /\ UNCHANGED <<graph, gen2Vars, copied>>

ToVisit(w, s) ==
    ~Settled(w, ref[s]) /\ ~Forwarded(ref[s]) /\ owner[ref[s][1]] = w

(* MVM_gc_mark_collectable: what the object refers to is work.             *)
Visited(w, s) == [worklist EXCEPT ![w] = (@ \ {s}) \cup Worth({Field(ref[s][1])})]

MarkItem(w, s) ==
    LET o == ref[s][1] IN
    /\ ToVisit(w, s) /\ InGen2(ref[s])
    /\ flags2' = [flags2 EXCEPT ![o] = @ \cup {"GEN2_LIVE"}]
    /\ worklist' = Visited(w, s)
    /\ UNCHANGED <<ref, place, owner, cell, object_ids, gen2roots, gen2Vars, to_pass, gc_in_tray,
                   copied, panic>>

ToGen2(o) ==
    object_ids[o] # Null \/ place[o] = "seen" \/ "REF_FROM_GEN2" \in flags2[o]

CopyItem(w, s) ==
    LET o == ref[s][1] IN
    /\ ToVisit(w, s) /\ ~InGen2(ref[s]) /\ ~ToGen2(o)
    /\ place' = [place EXCEPT ![o] = "seen"]
    /\ ref' = [ref EXCEPT ![s] = <<o, "seen">>]
    /\ copied' = copied \cup {o}
    /\ worklist' = Visited(w, s)
    /\ UNCHANGED <<owner, flags2, cell, object_ids, gen2roots, gen2Vars, to_pass, gc_in_tray, panic>>

LeftBehind(o) == ref[Field(o)] # Null /\ ~InGen2(ref[Field(o)])

(* Mutant: a promoted object is marked only when it is met again.          *)
PromotedUnmarked == {}
PromotedMark == IF full THEN {"GEN2_LIVE"} ELSE {}

(* An object that still refers to the nursery becomes a root.              *)
PromoteItem(w, s) ==
    LET o == ref[s][1] IN
    /\ ToVisit(w, s) /\ ~InGen2(ref[s]) /\ ToGen2(o)
    /\ place' = [place EXCEPT ![o] = "gen2"]
    /\ ref' = [ref EXCEPT ![s] = <<o, "gen2">>]
    /\ copied' = copied \cup {o}
    /\ IF object_ids[o] # Null
       THEN cell' = [cell EXCEPT ![o] = object_ids[o]] /\ UNCHANGED gen2Vars
       ELSE cell' = [cell EXCEPT ![o] = NextCell(w)] /\ gen2_allocate(w)
    /\ object_ids' = [object_ids EXCEPT ![o] = Null]
    /\ flags2' = [flags2 EXCEPT ![o] = @ \cup PromotedMark \cup
                     (IF LeftBehind(o) THEN {"IN_GEN2_ROOT_LIST"} ELSE {})]
    /\ gen2roots' = IF LeftBehind(o) THEN [gen2roots EXCEPT ![w] = @ \cup {o}] ELSE gen2roots
    /\ worklist' = Visited(w, s)
    /\ UNCHANGED <<owner, to_pass, gc_in_tray, panic>>

ProcessItem(w) ==
    /\ phase[w] \in Collecting \ {"scan"} /\ Turn(w)
    /\ \E s \in worklist[w] :
         \/ SkipItem(w, s) \/ FollowForwarder(w, s) \/ PassItem(w, s)
         \/ MarkItem(w, s) \/ CopyItem(w, s) \/ PromoteItem(w, s)
    /\ UNCHANGED <<phase, worker, coordinator, full, unscanned, history, stage, barrier, ops>>

-----------------------------------------------------------------------------
(* The stages of MVM_gc_collect for one thread, one worklist after another.*)
TakeTray(w) ==
    /\ phase' = [phase EXCEPT ![w] = "tray"]
    /\ worklist' = [worklist EXCEPT ![w] = Worth(gc_in_tray[w])]
    /\ gc_in_tray' = [gc_in_tray EXCEPT ![w] = {}]
    /\ UNCHANGED <<graph, gen2Vars, worker, coordinator, full, to_pass, unscanned, copied, history,
                   stage, barrier, panic, ops>>

RootsDone(w) ==
    /\ phase[w] = "roots" /\ worklist[w] = {} /\ Turn(w)
    /\ IF full THEN TakeTray(w)
       ELSE /\ phase' = [phase EXCEPT ![w] = "scan"]
            /\ unscanned' = [unscanned EXCEPT ![w] = gen2roots[w]]
            /\ UNCHANGED <<graph, gen2Vars, worker, coordinator, full, worklist, to_pass,
                           gc_in_tray, copied, history, stage, barrier, panic, ops>>

Keeps(o) == Worth({Field(o)}) # {}

(* MVM_gc_root_add_gen2s_to_worklist: one root; it stays if it adds work.  *)
ScanRoot(w) ==
    /\ phase[w] = "scan" /\ Turn(w)
    /\ \E o \in unscanned[w] :
         /\ unscanned' = [unscanned EXCEPT ![w] = @ \ {o}]
         /\ worklist' = [worklist EXCEPT ![w] = @ \cup Worth({Field(o)})]
         /\ IF Keeps(o) THEN UNCHANGED <<gen2roots, flags2>>
            ELSE /\ gen2roots' = [gen2roots EXCEPT ![w] = @ \ {o}]
                 /\ flags2' = [flags2 EXCEPT ![o] = @ \ {"IN_GEN2_ROOT_LIST"}]
    /\ UNCHANGED <<ref, place, owner, cell, object_ids, gen2Vars, phase, worker, coordinator, full,
                   to_pass, gc_in_tray, copied, history, stage, barrier, panic, ops>>

ScanDone(w) ==
    /\ phase[w] = "scan" /\ unscanned[w] = {} /\ Turn(w)
    /\ phase' = [phase EXCEPT ![w] = "gen2"]
    /\ UNCHANGED <<graph, gen2Vars, worker, coordinator, full, worklist, to_pass, gc_in_tray,
                   unscanned, copied, history, stage, barrier, panic, ops>>

Gen2Done(w) == phase[w] = "gen2" /\ worklist[w] = {} /\ Turn(w) /\ TakeTray(w)

(* pass_leftover_work.                                                     *)
TrayDone(w) ==
    /\ phase[w] = "tray" /\ worklist[w] = {} /\ Turn(w)
    /\ phase' = [phase EXCEPT ![w] = "done"]
    /\ Push(to_pass[w])
    /\ to_pass' = [to_pass EXCEPT ![w] = {}]
    /\ UNCHANGED <<graph, gen2Vars, worker, coordinator, full, worklist, unscanned, copied, history,
                   stage, barrier, ops>>

(* process_in_tray, by the worker or, after the votes, by the coordinator. *)
ProcessInTray(w) == phase[w] = "done" /\ gc_in_tray[w] # {} /\ Turn(w) /\ TakeTray(w)

-----------------------------------------------------------------------------
(* MVM_gc_root_gen2_cleanup.                                               *)
Survivors(roots) == {o \in roots : "GEN2_LIVE" \in flags2[o]}

(* All in-trays are empty; the coordinator cleans up the root lists.       *)
TraysClear ==
    /\ \A t \in Alive : phase[t] = "done" /\ gc_in_tray[t] = {}
    /\ ~panic
    /\ gen2roots' = IF full THEN [t \in Threads |-> Survivors(gen2roots[t])] ELSE gen2roots
    /\ phase' = [t \in Threads |-> IF t \in Alive THEN "reset" ELSE phase[t]]
    /\ UNCHANGED <<ref, place, owner, flags2, cell, object_ids, gen2Vars, worker, coordinator, full,
                   worklist, to_pass, gc_in_tray, unscanned, copied, history, stage, barrier, panic,
                   ops>>

(* finish_gc for thread w: its worker sweeps its own heap first.           *)
ResetTurn(w) ==
    phase[w] = "reset" /\ ~panic /\ (w # worker[w] => phase[worker[w]] = "run")

(* MVM_gc_collect_free_gen2_unmarked: the marks, the dead, the free list.  *)
Marked(t) == {o \in InPages(t) : "GEN2_LIVE" \in flags2[o]}

(* MVM_gc_collect_free_nursery_uncopied.                                   *)
Nursery(w) == {o \in Objects : owner[o] = w /\ place[o] \in {"young", "seen"}}
Uncopied(w) == Nursery(w) \ copied

Dead(w) == Uncopied(w) \cup (IF full THEN InPages(w) \ Marked(w) ELSE {})

Sweep(w) ==
    /\ ResetTurn(w) /\ stage[w] # "clearing_nursery"
    /\ phase' = [phase EXCEPT ![w] = "run"]
    /\ place' = [o \in Objects |-> IF o \in Dead(w) THEN "free" ELSE place[o]]
    /\ doomed' = doomed \ Dead(w)
    /\ IF full
       THEN /\ flags2' = [o \in Objects |-> IF o \in Marked(w) THEN flags2[o] \ {"GEN2_LIVE"}
                                            ELSE flags2[o]]
            /\ size_class' = [size_class EXCEPT ![w].free_list =
                                 Swept(w, {cell[o] : o \in Marked(w)})]
       ELSE UNCHANGED <<flags2, size_class>>
    /\ stage' = [stage EXCEPT ![w] = IF @ = "exited" THEN "clearing_nursery" ELSE @]
    /\ UNCHANGED <<ref, owner, cell, object_ids, gen2roots, num_pages, worker, coordinator, full,
                   worklist, to_pass, gc_in_tray, unscanned, copied, leftover, collections, barrier,
                   panic, ops>>

(* The second collection after a thread's end: what is in its gen2 goes to *)
(* the coordinator, with its roots, and its context is destroyed, nursery  *)
(* and all.                                                                *)
Transfer(w) ==
    /\ ResetTurn(w) /\ stage[w] = "clearing_nursery"
    /\ place' = [o \in Objects |-> IF o \in Nursery(w) THEN "free" ELSE place[o]]
    /\ phase' = [phase EXCEPT ![w] = "run"]
    /\ owner' = [o \in Objects |-> IF o \in InPages(w) THEN coordinator ELSE owner[o]]
    /\ doomed' = doomed \ Nursery(w)
    /\ gen2_transfer(w, coordinator)
    /\ gen2roots' = [gen2roots EXCEPT ![coordinator] = @ \cup gen2roots[w], ![w] = {}]
    /\ flags2' = [o \in Objects |-> IF o \in gen2roots[w] THEN flags2[o] \cup {"IN_GEN2_ROOT_LIST"}
                                    ELSE flags2[o]]
    /\ stage' = [stage EXCEPT ![w] = "destroyed"]
    /\ UNCHANGED <<ref, cell, object_ids, worker, coordinator, full, worklist, to_pass,
                   gc_in_tray, unscanned, copied, leftover, collections, barrier, panic, ops>>

Collector(w) ==
    \/ CollectRoots(w) \/ ProcessItem(w) \/ RootsDone(w) \/ ScanRoot(w) \/ ScanDone(w)
    \/ Gen2Done(w) \/ TrayDone(w) \/ ProcessInTray(w) \/ Sweep(w) \/ Transfer(w)

Next ==
    \/ \E t \in Threads : Mutator(t) \/ StartCollection(t) \/ Collector(t)
    \/ TraysClear

Spec == Init /\ [][Next]_vars

-----------------------------------------------------------------------------
(* No object is on the move.                                               *)
Still == ~panic /\ \A t \in Alive : phase[t] \in {"run", "reset"}

Reachable == ReachedFrom(Roots)

(* Every reference the program can get at leads to where the object is:    *)
(* nothing reachable was freed, and no reference was left behind when its  *)
(* object moved (docs/gc.md: "find and update all of the references").     *)
NothingLost ==
    Still => \A s \in Roots \cup {Field(o) : o \in Reachable} :
                ref[s] # Null => ref[s] = Address(ref[s][1])

(* The same, as long as no full collection has started with a mark that an *)
(* earlier one has left on an object (MVM_CF_GEN2_LIVE).                   *)
NothingLostUnlessMarked == ~leftover => NothingLost

(* The generational invariant: an object of gen2 that refers to the nursery*)
(* is among the roots of a thread that is still there, so that a nursery   *)
(* collection finds the reference, and the roots are objects of gen2 still,*)
(* so that it reads no freed cell (MVM_gc_write_barrier, process_worklist, *)
(* MVM_gc_root_gen2_cleanup).                                              *)
Remembered ==
    Still /\ ~leftover =>
        /\ \A o \in Reachable : place[o] = "gen2" /\ LeftBehind(o) =>
              \E t \in Alive : o \in gen2roots[t]
        /\ \A t \in Alive : \A o \in gen2roots[t] : place[o] = "gen2"

(* The cells of gen2 are handed out once: no two objects have the same, no *)
(* object has one that is free, a free one is on one list, once, and the   *)
(* list is in the order in which the next sweep has to meet it.            *)
CellOf(o) == IF place[o] = "gen2" THEN cell[o] ELSE object_ids[o]
HasCell == {o \in Reachable : CellOf(o) # Null}
Index(t, c) == CHOOSE i \in DOMAIN Cells(t) : Cells(t)[i] = c
CellsRight ==
    Still /\ ~leftover =>
        /\ \A o, p \in HasCell : CellOf(o) = CellOf(p) => o = p
        /\ \A t \in Alive :
             LET free == size_class[t].free_list IN
             /\ Range(free) \subseteq Range(Cells(t)) \ {CellOf(o) : o \in HasCell}
             /\ \A i, j \in DOMAIN free : i < j => Index(t, free[i]) < Index(t, free[j])

(* A full collection frees all that could not be reached when it began,    *)
(* however its participants share the work (MVM_gc_collect: gen2 roots     *)
(* "must not" be scanned then, or they would "keep them alive forever").   *)
(* The exception is what lay in gen2 of a thread that the collection       *)
(* destroys: finish_gc hands this over without a sweep, and the garbage in *)
(* it waits for the next full collection.                                  *)
FullIsPrecise ==
    Still /\ ~leftover /\ (\A t \in Alive : phase[t] = "run") => doomed = {}
=============================================================================
