------------------------- MODULE CircularBufferSpec -------------------------
(***************************************************************************)
(* The circular buffer on its own: one caller that adds freshly allocated  *)
(* entries and looks positions up, in any order.  `added' counts the adds; *)
(* it names the memory block of each entry, so a larger buffptr is a later *)
(* entry.  `returned' is what the last add handed back.                    *)
(***************************************************************************)
EXTENDS CircularBuffer, Sequences, SequencesExt

CONSTANTS
    Sizes,       \* entry sizes the caller uses
    Positions,   \* char_offsets the caller looks up
    MaxAdds      \* bound on the number of adds

ASSUME CallerAssumption ==
    /\ Sizes \subseteq Nat
    /\ Positions \subseteq Nat
    /\ MaxAdds \in Nat

VARIABLES buffer, added, returned

vars == <<buffer, added, returned>>

Init ==
    /\ buffer = aesd_circular_buffer_init
    /\ added = 0
    /\ returned = NullEntry

Add(size) ==
    /\ added < MaxAdds
    /\ added' = added + 1
    /\ buffer' = aesd_circular_buffer_add_entry(buffer,
                     [buffptr |-> added + 1, size |-> size])
    /\ returned' = add_entry_returned(buffer)

Find(char_offset) ==
    LET rtn == find_entry_offset_for_fpos(buffer, buffer.out_offs, char_offset)
    IN  /\ buffer' = IF rtn.found THEN buffer ELSE find_miss_reset(buffer)
        /\ UNCHANGED <<added, returned>>

Next ==
    \/ \E size \in Sizes : Add(size)
    \/ \E char_offset \in Positions : Find(char_offset)

Spec == Init /\ [][Next]_vars
-----------------------------------------------------------------------------
TypeOK ==
    /\ buffer \in Buffer
    /\ added \in Nat
    /\ returned \in Entry

(***************************************************************************)
(* The full flag and the indices agree in every reachable state, also      *)
(* after a failed lookup has moved both indices back to slot 0.            *)
(***************************************************************************)
IndicesConsistent == IndicesAgree(buffer)

(***************************************************************************)
(* The caller frees what add hands back (aesd_write does): it is in no     *)
(* slot any more, and no two slots share a block.                          *)
(***************************************************************************)
ReturnedIsGone ==
    /\ returned.buffptr # NULL =>
          \A i \in Slots : buffer.entry[i].buffptr # returned.buffptr
    /\ \A i, j \in Slots :
          buffer.entry[i].buffptr = buffer.entry[j].buffptr =>
              i = j \/ buffer.entry[i].buffptr = NULL

\* All strings of the buffer end to end, one <<slot, byte>> pair per character.
Concatenation(b) ==
    FlattenSeq([i \in 1..ENTRY_SIZE |->
        LET slot == Slot(b.out_offs, i - 1)
        IN  [k \in 1..b.entry[slot].size |-> <<slot, k - 1>>]])

(***************************************************************************)
(* The lookup loop returns the slot and the byte of "the zero referenced   *)
(* character index if all buffer strings were concatenated end to end"     *)
(* (aesd-circular-buffer.c:21), and NULL exactly past that string's end,   *)
(* with empty slots, empty entries and a wrapped buffer among the cases.   *)
(***************************************************************************)
FindMatchesConcatenation ==
    \A char_offset \in Positions :
        LET rtn == find_entry_offset_for_fpos(buffer, buffer.out_offs, char_offset)
            all == Concatenation(buffer)
        IN  /\ rtn.found <=> char_offset < Len(all)
            /\ rtn.found =>
                 <<rtn.slot, rtn.entry_offset_byte>> = all[char_offset + 1]

\* The buffer as a window: what it reads as, from the oldest entry on.
Recent == INSTANCE RecentEntries
            WITH Capacity <- ENTRY_SIZE,
                 Entries  <- [buffptr : 1..MaxAdds, size : Sizes],
                 None     <- NullEntry,
                 content  <- ReadingOrder(buffer),
                 count    <- EntryCount(buffer),
                 evicted  <- returned

(***************************************************************************)
(* Whatever mix of adds and lookups the caller makes, the two indices and  *)
(* the flag of aesd_circular_buffer_add_entry keep the window of the most  *)
(* recent entries: CircularBufferSpec implements RecentEntries.            *)
(***************************************************************************)
RefinesRecentEntries == Recent!Spec
=============================================================================
