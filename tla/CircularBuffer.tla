--------------------------- MODULE CircularBuffer ---------------------------
(***************************************************************************)
(* The circular buffer of aesd-char-driver/aesd-circular-buffer.c: the     *)
(* struct as a record and its three functions as operators on that record. *)
(* The module has no variables; CircularBufferSpec runs the functions on   *)
(* their own and AesdChar calls them from the driver.                      *)
(*                                                                         *)
(* A pointer is a natural number and NULL is 0.                            *)
(***************************************************************************)
EXTENDS Integers

CONSTANT ENTRY_SIZE   \* AESDCHAR_MAX_WRITE_OPERATIONS_SUPPORTED: 10 in the code

\* in_offs and out_offs are uint8_t, so they can index at most 256 slots.
ASSUME EntrySizeAssumption == ENTRY_SIZE \in 1..256

Slots == 0..(ENTRY_SIZE - 1)
NULL  == 0

\* struct aesd_buffer_entry: a pointer and the number of bytes behind it.
Entry     == [buffptr : Nat, size : Nat]
NullEntry == [buffptr |-> NULL, size |-> 0]

\* struct aesd_circular_buffer.
Buffer == [entry : [Slots -> Entry], in_offs : Slots, out_offs : Slots,
           full : BOOLEAN]

aesd_circular_buffer_init ==
    [entry |-> [i \in Slots |-> NullEntry], in_offs |-> 0, out_offs |-> 0,
     full |-> FALSE]

Advance_mutant(offs) == offs + 1

Advance(offs) == (offs + 1) % ENTRY_SIZE
-----------------------------------------------------------------------------
(***************************************************************************)
(* aesd_circular_buffer_add_entry: the entry returned to the caller, who   *)
(* frees it, and the buffer it leaves behind.                              *)
(***************************************************************************)
add_entry_returned_mutant(b) ==
    IF b.full THEN b.entry[Advance(b.out_offs)] ELSE NullEntry

add_entry_returned(b) ==
    IF b.full THEN b.entry[b.out_offs] ELSE NullEntry

add_entry_mutant(b, e) ==
    LET in == Advance(b.in_offs)
    IN  [b EXCEPT !.entry[b.in_offs] = e, !.in_offs = in,
                  !.full = b.full \/ in = b.out_offs]

aesd_circular_buffer_add_entry(b, e) ==
    LET out == IF b.full THEN Advance(b.out_offs) ELSE b.out_offs
        in  == Advance(b.in_offs)
    IN  [b EXCEPT !.entry[b.in_offs] = e, !.in_offs = in, !.out_offs = out,
                  !.full = b.full \/ in = out]
-----------------------------------------------------------------------------
(***************************************************************************)
(* aesd_circular_buffer_find_entry_offset_for_fpos.  The loop starts at    *)
(* the value `from' of out_offs and visits every slot once; iteration i    *)
(* looks at slot (from + i) % ENTRY_SIZE with what is left of char_offset  *)
(* after the sizes of the slots it has skipped.                            *)
(***************************************************************************)
Slot(from, i) == (from + i) % ENTRY_SIZE

char_offset_left(b, from, char_offset) ==
    LET left[i \in 0..ENTRY_SIZE] ==
            IF i = 0 THEN char_offset
            ELSE left[i-1] - b.entry[Slot(from, i-1)].size
    IN  left

\* The test of line 37 in iteration i.
Covers_mutant(b, from, char_offset, i) ==
    b.entry[Slot(from, i)].size >= char_offset_left(b, from, char_offset)[i]

Covers(b, from, char_offset, i) ==
    b.entry[Slot(from, i)].size > char_offset_left(b, from, char_offset)[i]

\* The loop returns in iteration i.
FoundAt(b, from, char_offset, i) ==
    /\ Covers(b, from, char_offset, i)
    /\ \A j \in 0..(i-1) : ~Covers(b, from, char_offset, j)

find_entry_offset_for_fpos(b, from, char_offset) ==
    IF \E i \in Slots : FoundAt(b, from, char_offset, i)
    THEN LET i == CHOOSE i \in Slots : FoundAt(b, from, char_offset, i)
         IN  [found |-> TRUE, slot |-> Slot(from, i),
              entry_offset_byte |-> char_offset_left(b, from, char_offset)[i]]
    ELSE [found |-> FALSE, slot |-> 0, entry_offset_byte |-> 0]

\* What the function does to the buffer before it returns NULL.
find_miss_reset_mutant(b) == [b EXCEPT !.out_offs = 0]

find_miss_reset(b) ==
    [entry |-> b.entry, in_offs |-> 0, out_offs |-> 0, full |-> FALSE]
-----------------------------------------------------------------------------
(***************************************************************************)
(* Readings of a buffer that its properties are stated with.               *)
(***************************************************************************)

\* The entries in the order in which find visits them.
ReadingOrder(b) == [i \in Slots |-> b.entry[Slot(b.out_offs, i)]]

\* The number of entries added since the indices were last at the start.
EntryCount(b) == IF b.full THEN ENTRY_SIZE ELSE b.in_offs

(***************************************************************************)
(* How the two indices and the flag relate: a full buffer writes where it  *)
(* reads, and a buffer that is not full starts at slot 0.                  *)
(***************************************************************************)
IndicesAgree(b) ==
    /\ b.full  => b.in_offs = b.out_offs
    /\ ~b.full => b.out_offs = 0
=============================================================================
