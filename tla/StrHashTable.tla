---------------------------- MODULE StrHashTable ----------------------------
(***************************************************************************)
(* The hash table of core/str_hash_table.c, as the representations MVMHash *)
(* and MVMIter use it: open addressing with Robin Hood probing.  Beside an *)
(* array of entries there is one of metadata bytes, 0 for an empty slot    *)
(* and otherwise the probe distance (1 for the ideal slot) followed by the *)
(* next few bits of the key's hash.  The array is not circular: it goes on *)
(* past the official size for as far as an entry may be from its slot.     *)
(*                                                                         *)
(* max_items = 0 asks the next insertion to make room for longer distances *)
(* first, by giving a bit of hash to the distances or by moving to a table *)
(* twice the size, with a new salt.                                        *)
(***************************************************************************)
EXTENDS Integers, Sequences, FiniteSetsExt, SequencesExt, Bitwise

CONSTANTS
    Keys,           \* pairs: what MVM_string_hash_code says of the string, and a name
    Salts,          \* what MVM_proc_rand_i may return
    Multiplier,     \* the odd number hash codes are multiplied by
    HashWidth,      \* the bits of a hash code (64)
    ByteWidth,      \* the bits of a metadata byte (8)
    STR_MIN_SIZE_BASE_2, MVM_HASH_INITIAL_BITS_IN_METADATA,
    Null

MVM_HASH_MAX_PROBE_DISTANCE == 2^ByteWidth - 1
Byte(n) == n % 2^ByteWidth

ASSUME HashAssumption ==
    /\ Keys \subseteq (0..2^HashWidth - 1) \X Nat /\ Salts \subseteq 0..2^HashWidth - 1
    /\ Multiplier % 2 = 1
    /\ ByteWidth - MVM_HASH_INITIAL_BITS_IN_METADATA >= 2
    /\ Null \notin Keys

VARIABLES
    table,      \* the control structure with its arrays, Null before MVM_str_hash_build
    iter,       \* an MVMIter on the hash: positions, metadata index plus one
    content,    \* a history variable: the keys bound and not deleted since
    deleted     \* another one: whether the key the iterator is at was deleted

vars == <<table, iter, content, deleted>>

NoIter == [curr |-> 0, next |-> 0, on |-> FALSE]

Init == table = Null /\ iter = NoIter /\ content = {} /\ deleted = FALSE

-----------------------------------------------------------------------------
(* Sizes                                                                   *)

(* The load factor is 0.75.                                                *)
max_items(log2) == (3 * 2^log2) \div 4
allocated_items(c) == 2^c.official_size_log2 + c.max_probe_distance_limit - 1
kompromat(c) == IF c.cur_items = 0 THEN 0 ELSE 2^c.official_size_log2 + c.max_probe_distance - 1

(* Only a control structure: nothing is allocated for entries yet.         *)
Unallocated(c) == c.cur_items = 0 /\ c.max_items = 0

(* A metadata byte and the entry that belongs to it.                       *)
Slot(m, k) == [metadata |-> m, entry |-> k]
Empty == Slot(0, Null)

hash_allocate_common(log2, salt) ==
    LET limit == Min({MVM_HASH_MAX_PROBE_DISTANCE, max_items(log2)})
        slots == 2^log2 + limit - 1
    IN  [official_size_log2 |-> log2, salt |-> salt,
         max_items |-> max_items(log2), cur_items |-> 0,
         metadata_hash_bits |-> MVM_HASH_INITIAL_BITS_IN_METADATA,
         max_probe_distance |-> Min({limit, 2^(ByteWidth - MVM_HASH_INITIAL_BITS_IN_METADATA) - 1}),
         max_probe_distance_limit |-> limit,
         slots |-> [p \in 1..slots + 1 |-> Empty],      \* the last one is the sentinel
         oops |-> FALSE]

EmptyControl ==
    [official_size_log2 |-> 0, salt |-> 0, max_items |-> 0, cur_items |-> 0,
     metadata_hash_bits |-> 0, max_probe_distance |-> 0, max_probe_distance_limit |-> 0,
     slots |-> <<>>, oops |-> FALSE]

(* The least power of two with room for that many entries.                 *)
MVM_str_hash_build(entries, salt) ==
    IF entries = 0 THEN EmptyControl
    ELSE LET min_needed == (entries * 4) \div 3
             fits == {n \in 0..HashWidth : 2^n >= min_needed /\ n >= STR_MIN_SIZE_BASE_2}
         IN  hash_allocate_common(Min(fits), salt)

-----------------------------------------------------------------------------
(* Probing                                                                 *)
hash_code == [k \in Keys, s \in Salts |-> ((k[1] ^^ s) * Multiplier) % 2^HashWidth]
ASSUME CodeAssumption == hash_code \in [Keys \X Salts -> 0..2^HashWidth - 1]

increment(c) == 2^c.metadata_hash_bits
used_hash_bits(c, k) ==
    hash_code[k, c.salt] \div 2^(HashWidth - c.official_size_log2 - c.metadata_hash_bits)
bucket(c, k) == used_hash_bits(c, k) \div increment(c)

(* The metadata of the key if it is d slots further on than its bucket.    *)
probe_distance(c, k, d) == increment(c) * (d + 1) + (used_hash_bits(c, k) % increment(c))

position(c, k, d) == bucket(c, k) + d + 1
IsAt(c, k, d) == c.slots[position(c, k, d)] = Slot(probe_distance(c, k, d), k)

(* The search ends at the key, or where it would have been put.            *)
Stops(c, k, d) ==
    IsAt(c, k, d) \/ c.slots[position(c, k, d)].metadata < probe_distance(c, k, d)
Reach(c, k) ==
    CHOOSE d \in 0..allocated_items(c) : Stops(c, k, d) /\ \A e \in 0..d - 1 : ~Stops(c, k, e)

MVM_str_hash_is_empty(c) == c = Null \/ c.cur_items = 0

MVM_str_hash_fetch(c, k) == ~MVM_str_hash_is_empty(c) /\ IsAt(c, k, Reach(c, k))

-----------------------------------------------------------------------------
(* Insertion                                                               *)

(* The slot is put at pos, and everything from there to the next gap moves *)
(* on by one.  A distance that is now the longest one possible asks for    *)
(* room.                                                                   *)
MakeRoom(c, pos, slot) ==
    LET gap == Min({p \in pos..Len(c.slots) : c.slots[p].metadata = 0})
        Moved(p) == c.slots[p].metadata + increment(c)
        moved == [i \in 1..gap - pos |-> Slot(Byte(Moved(pos + i - 1)), c.slots[pos + i - 1].entry)]
        longest == \E p \in pos..gap - 1 : Moved(p) \div increment(c) = c.max_probe_distance
    IN  [c EXCEPT !.slots = SubSeq(@, 1, pos - 1) \o <<slot>> \o moved \o SubSeq(@, gap + 1, Len(@)),
                  !.max_items = IF longest THEN 0 ELSE @,
                  !.oops = @ \/ gap = Len(c.slots)]

hash_insert_internal(c, k) ==
    LET d == Reach(c, k)
        room == MakeRoom(c, position(c, k, d), Slot(probe_distance(c, k, d), k))
    IN  IF c.cur_items >= c.max_items \/ d >= c.max_probe_distance
        THEN [c EXCEPT !.oops = TRUE]
        ELSE IF IsAt(c, k, d) THEN c
        ELSE [room EXCEPT !.cur_items = @ + 1,
                          !.max_items = IF d + 1 = c.max_probe_distance THEN 0 ELSE @]

(* One bit of every metadata byte goes from the hash to the distance.      *)
Extend(c) ==
    [c EXCEPT !.slots = [p \in DOMAIN @ |-> Slot(@[p].metadata \div 2, @[p].entry)],
              !.oops = @ \/ c.metadata_hash_bits = 0,
              !.metadata_hash_bits = @ - 1,
              !.max_probe_distance = Min({1 + 2 * @, c.max_probe_distance_limit}),
              !.max_items = max_items(c.official_size_log2)]

MayExtend(c) ==
    /\ c.cur_items < max_items(c.official_size_log2)
    /\ c.max_probe_distance < c.max_probe_distance_limit

(* salts is what each size of the table will be salted with.  A control    *)
(* structure that looks unallocated is given back as a block of its own,   *)
(* which is wrong if there are slots: the block starts with the entries.   *)
(* While entries are copied the new table may have to make room, too.      *)
RECURSIVE maybe_grow_hash(_, _)
maybe_grow_hash(c, salts) ==
    IF Unallocated(c)
    THEN [hash_allocate_common(STR_MIN_SIZE_BASE_2, salts[STR_MIN_SIZE_BASE_2])
            EXCEPT !.oops = c.slots # <<>>]
    ELSE IF MayExtend(c) THEN Extend(c)
    ELSE LET log2 == c.official_size_log2 + 1
             Copy(new, slot) ==
                 IF slot.metadata = 0 THEN new
                 ELSE LET more == hash_insert_internal(new, slot.entry)
                      IN  IF more.max_items = 0 THEN maybe_grow_hash(more, salts) ELSE more
             grown == FoldLeft(Copy, hash_allocate_common(log2, salts[log2]),
                              SubSeq(c.slots, 1, kompromat(c)))
         IN  [grown EXCEPT !.oops = @ \/ c.oops \/ grown.max_items = 0]

(* Mutant: a hash that is full grows whatever the key is.                  *)
GrowsAnyway(c, k) == FALSE

(* A hash that is full grows only if the key is a new one.                 *)
NeedNotGrow(c, k) == MVM_str_hash_fetch(c, k)

MVM_str_hash_lvalue_fetch(c, k, salts) ==
    IF c.cur_items < c.max_items THEN hash_insert_internal(c, k)
    ELSE IF NeedNotGrow(c, k) THEN c
    ELSE hash_insert_internal(maybe_grow_hash(c, salts), k)

-----------------------------------------------------------------------------
(* Deletion                                                                *)

(* Mutant: entries that are where they ought to be move, too.              *)
can_move_home(c) == Byte(increment(c))
can_move(c) == Byte(2 * increment(c))

(* Mutant: no deletion takes the request for room back.                    *)
UnflagNever(c) == FALSE

(* Once there are fewer entries than the longest distance, no entry can be *)
(* that far away, and nothing asks for room any more.                      *)
Unflag(c) == c.cur_items < c.max_probe_distance
Settle(c) ==
    IF c.max_items = 0 /\ Unflag(c)
    THEN [c EXCEPT !.max_items = max_items(c.official_size_log2)] ELSE c

(* What follows moves back by one slot, up to an entry that is where it    *)
(* ought to be, or a gap.                                                  *)
MVM_str_hash_delete(c, k) ==
    IF ~MVM_str_hash_fetch(c, k) THEN c
    ELSE LET pos == position(c, k, Reach(c, k))
             last == Min({p \in pos..Len(c.slots) - 1 : c.slots[p + 1].metadata < can_move(c)})
             back == [i \in 1..last - pos |->
                         Slot(c.slots[pos + i].metadata - increment(c), c.slots[pos + i].entry)]
         IN  Settle([c EXCEPT
                !.slots = SubSeq(@, 1, pos - 1) \o back \o <<Empty>> \o SubSeq(@, last + 1, Len(@)),
                !.cur_items = @ - 1])

-----------------------------------------------------------------------------
(* Iteration, from the end of the table to its start                       *)
MVM_str_hash_next(c, pos) == Max({0} \cup {p \in 1..pos - 1 : c.slots[p].metadata # 0})
MVM_str_hash_start(c) == IF c = Null THEN 1 ELSE kompromat(c) + 1
MVM_str_hash_first(c) ==
    IF MVM_str_hash_is_empty(c) THEN 0 ELSE MVM_str_hash_next(c, kompromat(c) + 1)

-----------------------------------------------------------------------------
(* The operations of MVMHash                                               *)

(* What MVM_proc_rand_i returns when a table of each size is allocated.    *)
SaltsBySize == {[n \in 0..HashWidth |-> IF n % 2 = 0 THEN s1 ELSE s2] : s1, s2 \in Salts}

(* serialize has sorted the keys.                                          *)
Before(k, l) == k[1] < l[1] \/ (k[1] = l[1] /\ k[2] < l[2])

deserialize ==
    /\ table = Null /\ ~iter.on
    /\ \E S \in (SUBSET Keys) \ {{}}, salts \in SaltsBySize :
          LET built == MVM_str_hash_build(Cardinality(S), salts[0])
              Insert(c, k) == MVM_str_hash_lvalue_fetch(c, k, salts)
          IN  /\ table' = FoldLeft(Insert, built, SetToSortSeq(S, Before))
              /\ content' = S
    /\ UNCHANGED <<iter, deleted>>

(* While it is iterated over, a hash is bound only at keys it has.         *)
bind_key(k) ==
    /\ iter.on => k \in content
    /\ LET c == IF table = Null THEN MVM_str_hash_build(0, 0) ELSE table
       IN  \E salts \in SaltsBySize : table' = MVM_str_hash_lvalue_fetch(c, k, salts)
    /\ content' = content \cup {k} /\ UNCHANGED <<iter, deleted>>

(* The key the iterator is at, as MVM_iterkey_s tells.                     *)
AtStart == iter.curr = MVM_str_hash_start(table)
MVM_iterkey_s == IF iter.curr = 0 \/ AtStart THEN Null ELSE table.slots[iter.curr].entry
Current == IF iter.on /\ ~deleted THEN MVM_iterkey_s ELSE Null

(* ... and only the key the iterator is at is deleted.                     *)
delete_key(k) ==
    /\ table # Null
    /\ iter.on => k = Current
    /\ table' = MVM_str_hash_delete(table, k)
    /\ content' = content \ {k} /\ deleted' = iter.on /\ UNCHANGED iter

(* The hash is not garbage while an iterator refers to it.                 *)
gc_free ==
    /\ ~iter.on
    /\ table' = Null /\ content' = {} /\ UNCHANGED <<iter, deleted>>

(* MVMIter                                                                 *)
MVM_iter ==
    /\ ~iter.on
    /\ iter' = [curr |-> MVM_str_hash_start(table), next |-> MVM_str_hash_first(table), on |-> TRUE]
    /\ deleted' = FALSE /\ UNCHANGED <<table, content>>

shift ==
    /\ iter.on /\ iter.next # 0
    /\ iter' = [iter EXCEPT !.curr = iter.next, !.next = MVM_str_hash_next(table, iter.next)]
    /\ deleted' = FALSE /\ UNCHANGED <<table, content>>

(* At the end curr goes there too, before the exception is thrown.         *)
shift_past_end ==
    /\ iter.on /\ iter.next = 0
    /\ iter' = [iter EXCEPT !.curr = 0]
    /\ deleted' = FALSE /\ UNCHANGED <<table, content>>

(* The iterator is given up.                                               *)
Leave ==
    /\ iter.on
    /\ iter' = NoIter /\ deleted' = FALSE /\ UNCHANGED <<table, content>>

Next ==
    \/ deserialize
    \/ \E k \in Keys : bind_key(k) \/ delete_key(k)
    \/ gc_free \/ MVM_iter \/ shift \/ shift_past_end \/ Leave

Spec == Init /\ [][Next]_vars

-----------------------------------------------------------------------------
(* Properties                                                              *)

(* fetch finds a key exactly if it was bound and not deleted since,        *)
(* whatever grew, was given another salt, or was moved to and fro by       *)
(* insertions and deletions of other keys.                                 *)
FindsWhatWasBound == \A k \in Keys : MVM_str_hash_fetch(table, k) <=> k \in content

(* No insertion runs out of space, goes beyond the longest distance there  *)
(* are bits and slots for, leaves a new table that asks for room, or takes *)
(* a table whose entries were all deleted for one that has no slots yet    *)
(* (hash_insert_internal, maybe_grow_hash, MVM_str_hash_delete).           *)
NeverOops == table # Null => ~table.oops

Dict == INSTANCE Dictionary WITH
    keys <- content,
    iterating <- iter.on,
    unseen <- IF ~iter.on THEN {}
              ELSE {table.slots[p].entry : p \in {p \in 1..iter.next : table.slots[p].metadata # 0}},
    current <- Current

(* An iterator hands out every key once, also when the key it is at is     *)
(* deleted, which moves others back, or keys are bound anew, which may not *)
(* make a full table grow.                                                 *)
ActsAsDictionary == Dict!Spec
=============================================================================
