----------------------------- MODULE SourceTable -----------------------------
(***************************************************************************)
(* The broker's source records (src/compiler/unity_compiler_broker.c): an  *)
(* open-addressing hash table whose slots are in use only while their      *)
(* epoch is the current one, so that a residency window is cleared by      *)
(* moving to the next epoch.  A table is a record of its slots, capacity,  *)
(* count, epoch and byte count; the operators give the table after an      *)
(* operation.  Slot numbers are taken modulo the capacity, epochs modulo   *)
(* EpochLimit (2^64 in the code), byte counts are at most MaxBytes         *)
(* (UINT64_MAX).                                                           *)
(***************************************************************************)
EXTENDS Naturals, FiniteSets, FiniteSetsExt

CONSTANTS
    Sources,          \* source texts, told apart by digest and size
    Size,             \* their lengths
    Hash,             \* the mixed digest that selects the first slot
    InitialCapacity,  \* 64 in the code, a power of two
    EpochLimit,       \* number of epochs
    MaxBytes          \* largest byte count

ASSUME SizesKnown == Size \in [Sources -> Nat] /\ Hash \in [Sources -> Nat]
ASSUME CapacityIsPowerOfTwo == InitialCapacity \in {4, 8, 16, 32, 64}
ASSUME EpochsWrap == EpochLimit \in Nat /\ EpochLimit > 1
ASSUME BytesAreNat == MaxBytes \in Nat

(* calloc: a zeroed record belongs to no epoch, since epochs start at 1.   *)
Blank == [source |-> CHOOSE s \in Sources : TRUE, epoch |-> 0]
Slots(n) == [i \in 0..(n - 1) |-> Blank]

EmptyTable == [records |-> Slots(0), capacity |-> 0, count |-> 0, epoch |-> 1, bytes |-> 0]

(* The sources a table holds, and the total size of a set of sources.      *)
Held(tab) ==
    {tab.records[i].source : i \in {j \in DOMAIN tab.records : tab.records[j].epoch = tab.epoch}}
Bytes(S) == FoldSet(LAMBDA s, sum : sum + Size[s], 0, S)

-----------------------------------------------------------------------------
(* source_record_slot, and the slot k places after it.                     *)
Slot(s, k, n) == (Hash[s] + k) % n

(* How many slots a probe for s passes before one that is not in use; the  *)
(* capacity when there is none, and the loops of the code would not end.   *)
ProbeLength(tab, s) ==
    LET free == {k \in 0..(tab.capacity - 1) :
                   tab.records[Slot(s, k, tab.capacity)].epoch # tab.epoch}
    IN IF free = {} THEN tab.capacity ELSE Min(free)

(* The search loop of source_window_record_locked.                         *)
Found(tab, s) ==
    \E k \in 0..(ProbeLength(tab, s) - 1) :
        tab.records[Slot(s, k, tab.capacity)].source = s

(* source_record_insert_unchecked                                          *)
Insert(tab, s) ==
    [tab EXCEPT !.records[Slot(s, ProbeLength(tab, s), tab.capacity)] =
        [source |-> s, epoch |-> tab.epoch]]

(* source_record_grow_locked: the records of the current epoch, in the     *)
(* order of their old slots.                                               *)
Grown(tab) ==
    LET n == IF tab.capacity = 0 THEN InitialCapacity ELSE 2 * tab.capacity
        moved[i \in 0..tab.capacity] ==
            IF i = 0 THEN [tab EXCEPT !.records = Slots(n), !.capacity = n]
            ELSE LET r == tab.records[i - 1]
                 IN IF r.epoch = tab.epoch THEN Insert(moved[i - 1], r.source) ELSE moved[i - 1]
    IN moved[tab.capacity]

MustGrow(tab) == tab.capacity = 0 \/ tab.count + 1 > tab.capacity - tab.capacity \div 4

(* source_window_record_locked: the new table and whether s is recorded.   *)
(* Growing fails when the larger table cannot be allocated.                *)
Recorded(tab, s, allocated) ==
    IF Found(tab, s) THEN [ok |-> TRUE, tab |-> tab]
    ELSE IF MustGrow(tab) /\ ~allocated THEN [ok |-> FALSE, tab |-> tab]
    ELSE LET room == IF MustGrow(tab) THEN Grown(tab) ELSE tab
         IN IF Size[s] > MaxBytes - tab.bytes THEN [ok |-> FALSE, tab |-> room]
            ELSE [ok |-> TRUE, tab |-> [Insert(room, s) EXCEPT !.count = @ + 1,
                                                               !.bytes = @ + Size[s]]]

(* Fault: the epoch wraps without wiping the table.                        *)
FaultyCleared(tab) ==
    [tab EXCEPT !.count = 0, !.bytes = 0,
                !.epoch = IF @ + 1 = EpochLimit THEN 1 ELSE @ + 1]

(* source_window_clear_locked: epoch 0 is skipped, and reaching it wipes   *)
(* the table.                                                              *)
Cleared(tab) ==
    LET wraps == tab.epoch + 1 = EpochLimit
    IN [tab EXCEPT !.count = 0, !.bytes = 0,
                   !.epoch = IF wraps THEN 1 ELSE @ + 1,
                   !.records = IF wraps THEN Slots(tab.capacity) ELSE @]
=============================================================================
