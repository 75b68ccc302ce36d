-------------------------------- MODULE Gen2 --------------------------------
(***************************************************************************)
(* The allocator of the second generation (gc/gen2.c), for one size class: *)
(* a thread has pages of PageItems cells, takes a cell from its free list  *)
(* or behind the last one of its newest page, and gets the cells of dead   *)
(* objects back when the collector sweeps its pages (gc/collect.c).        *)
(***************************************************************************)
EXTENDS Integers, Sequences, FiniteSets, SequencesExt

CONSTANTS Threads, PageItems

ASSUME PageAssumption == PageItems \in Nat \ {0}

VARIABLES
    size_class,     \* thread -> pages, cells used of the newest one, free list
    num_pages       \* pages allocated so far: a page is known by its number

gen2Vars == <<size_class, num_pages>>

NoPages == [pages |-> <<>>, alloc_pos |-> 0, free_list |-> <<>>]

PageFull(t) == size_class[t].pages = <<>> \/ size_class[t].alloc_pos = PageItems

(* The cell that MVM_gc_gen2_allocate returns next.                        *)
NextCell(t) ==
    CASE size_class[t].free_list # <<>> -> Head(size_class[t].free_list)
      [] size_class[t].free_list = <<>> /\ PageFull(t) -> <<num_pages + 1, 1>>
      [] OTHER -> <<Last(size_class[t].pages), size_class[t].alloc_pos + 1>>

(* MVM_gc_gen2_allocate.                                                   *)
gen2_allocate(t) ==
    \/ /\ size_class[t].free_list # <<>>
       /\ size_class' = [size_class EXCEPT ![t].free_list = Tail(@)]
       /\ UNCHANGED num_pages
    \/ /\ size_class[t].free_list = <<>> /\ PageFull(t)
       /\ num_pages' = num_pages + 1
       /\ size_class' = [size_class EXCEPT ![t].pages = Append(@, num_pages + 1),
                                           ![t].alloc_pos = 1]
    \/ /\ size_class[t].free_list = <<>> /\ ~PageFull(t)
       /\ size_class' = [size_class EXCEPT ![t].alloc_pos = @ + 1]
       /\ UNCHANGED num_pages

(* Mutant: the last cell of the newest page is not visited.                *)
UsedButOne(t, k) == IF k = Len(size_class[t].pages) THEN size_class[t].alloc_pos - 1 ELSE PageItems

(* The cells in use of the k-th page: the newest one is not full.          *)
Used(t, k) == IF k = Len(size_class[t].pages) THEN size_class[t].alloc_pos ELSE PageItems

(* The cells of a thread in the order in which a sweep visits them.        *)
Cells(t) ==
    LET pages == size_class[t].pages
    IN FlattenSeq([k \in DOMAIN pages |-> [i \in 1 .. Used(t, k) |-> <<pages[k], i>>]])

(* Mutant: a cell that is free already is taken for a dead object.         *)
IsFreeNever(at, c) == FALSE

(* One cell of a sweep.  The free list is cut in two at the position where *)
(* the next cell is inserted; a free cell is known by being the next one   *)
(* of the list, so the list has to be in the order of the visit.           *)
IsFree(at, c) == at.after # <<>> /\ Head(at.after) = c

SweepCell(live, at, c) ==
    CASE IsFree(at, c) -> [before |-> Append(at.before, c), after |-> Tail(at.after)]
      [] ~IsFree(at, c) /\ c \in live -> at
      [] OTHER -> [at EXCEPT !.before = Append(@, c)]

(* The free list after a sweep that finds the cells of live alive.         *)
Swept(t, live) ==
    LET step(at, c) == SweepCell(live, at, c)
        end == FoldLeft(step, [before |-> <<>>, after |-> size_class[t].free_list], Cells(t))
    IN end.before \o end.after

(* What is left of the newest page of thread t.                            *)
Unallocated(t) ==
    LET pages == size_class[t].pages IN
    IF pages = <<>> THEN <<>>
    ELSE [i \in 1 .. PageItems - size_class[t].alloc_pos |->
             <<Last(pages), size_class[t].alloc_pos + i>>]

(* MVM_gc_gen2_transfer, as far as the pages go: those of src follow those *)
(* of dest, whose free list is led through what is left of its newest page *)
(* to the free list of src.                                                *)
gen2_transfer(src, dest) ==
    /\ size_class' =
          IF size_class[src].pages = <<>> THEN size_class
          ELSE [size_class EXCEPT
                  ![dest] = [pages |-> @.pages \o size_class[src].pages,
                             alloc_pos |-> size_class[src].alloc_pos,
                             free_list |-> @.free_list \o Unallocated(dest)
                                           \o size_class[src].free_list],
                  ![src] = NoPages]
    /\ UNCHANGED num_pages
=============================================================================
