--------------------------- MODULE AesdCharProofs ---------------------------
(***************************************************************************)
(* Theorems about AesdChar, for every number of processes, every           *)
(* ENTRY_SIZE and every bound on the allocations.                          *)
(***************************************************************************)
EXTENDS AesdChar, CircularBufferLemmas

\* A file is open only while the module is loaded, and a call runs only on
\* an open file: the module is not reinitialised under a call.
FilesOpen ==
    /\ \A p \in Procs : opened[p] => loaded
    /\ \A p \in Procs : pc[p] \notin {"idle", "oops"} => opened[p]

\* dev->sem, seen from the program counters.  A process that died in its
\* critical section keeps the lock until the module is loaded again.
SemAgrees ==
    /\ \A p \in Procs : p \in readers <=> pc[p] \in {"r_find", "r_scan"}
    /\ \A p \in Procs : pc[p] = "w_body" => writer = p
    /\ \A p \in Procs : writer = p => pc[p] \in {"w_body", "oops"}
    /\ writer # NoProc => readers = {}

\* A writer holds a block from kmalloc to the end of the call.
WriterHasBlock ==
    \A p \in Procs : wbuf[p] # NULL <=> pc[p] \in {"w_lock", "w_body", "oops"}

\* The inductive invariant.
IInv ==
    /\ TypeOK
    /\ IndicesAgree(buffer)
    /\ FilesOpen
    /\ SemAgrees
    /\ WriterHasBlock
    /\ OwnedBlocksLive
-----------------------------------------------------------------------------
(***************************************************************************)
(* A step of the specification is a step of one of its actions.            *)
(***************************************************************************)
LEMMA NextCases ==
    ASSUME Next
    PROVE  \/ aesd_init_module
           \/ aesd_cleanup_module
           \/ \E p \in Procs :
                 \/ aesd_open(p) \/ aesd_release(p)
                 \/ \E count \in Counts : read_trylock(p, count)
                 \/ read_trylock_fails(p)
                 \/ \E count \in Counts, newline \in BOOLEAN :
                        write_copy(p, count, newline)
                 \/ write_copy_fails(p)
                 \/ read_find_start(p) \/ read_find_hit(p) \/ read_find_miss(p)
                 \/ read_size(p) \/ read_ptr(p) \/ read_copied(p)
                 \/ write_trylock(p) \/ write_trylock_fails(p)
                 \/ write_partial_first(p) \/ write_partial_concat(p)
                 \/ write_partial_oops(p) \/ write_line(p)
BY DEF Next, Call, ReadStep, WriteStep

(***************************************************************************)
(* A lookup names a slot of the buffer.                                    *)
(***************************************************************************)
LEMMA LookupSlot ==
    ASSUME TypeOK, NEW p \in Procs
    PROVE  Lookup(p).slot \in Slots
<1> DEFINE from == frame[p].from
           F(i) == FoundAt(buffer, from, f_pos[p], i)
<1>1. from \in Slots
  BY DEF TypeOK, Frame
<1>2. 0 \in Slots
  BY EntrySizeAssumption DEF Slots
<1>3. CASE \E i \in Slots : F(i)
  <2>1. PICK i \in Slots : i = CHOOSE j \in Slots : F(j)
    BY <1>3
  <2>2. Slot(from, i) \in Slots
    BY <1>1, SlotValue
  <2>3. Lookup(p).slot = Slot(from, i)
    BY <1>3, <2>1 DEF Lookup, find_entry_offset_for_fpos
  <2> QED
    BY <2>2, <2>3
<1>4. CASE ~\E i \in Slots : F(i)
  BY <1>2, <1>4 DEF Lookup, find_entry_offset_for_fpos
<1> QED
  BY <1>3, <1>4

(***************************************************************************)
(* Every action keeps the types, and the buffer's indices consistent.      *)
(***************************************************************************)
LEMMA TypeStep ==
    ASSUME TypeOK, IndicesAgree(buffer), [Next]_vars
    PROVE  TypeOK' /\ IndicesAgree(buffer)'
<1> USE DEF dev, sem, memory, file
<1>1. CASE UNCHANGED vars
  BY <1>1 DEF TypeOK, IndicesAgree, vars
<1>2. CASE aesd_init_module
  BY <1>2, InitBuffer DEF aesd_init_module, TypeOK, NULL
<1>3. CASE aesd_cleanup_module
  BY <1>3 DEF aesd_cleanup_module, TypeOK
<1>4. ASSUME NEW p \in Procs,
             \/ aesd_open(p) \/ aesd_release(p)
             \/ \E count \in Counts : read_trylock(p, count)
             \/ read_trylock_fails(p)
             \/ \E count \in Counts, newline \in BOOLEAN :
                    write_copy(p, count, newline)
             \/ write_copy_fails(p)
             \/ read_find_start(p) \/ read_find_hit(p) \/ read_find_miss(p)
             \/ read_size(p) \/ read_ptr(p) \/ read_copied(p)
             \/ write_trylock(p) \/ write_trylock_fails(p)
             \/ write_partial_first(p) \/ write_partial_concat(p)
             \/ write_partial_oops(p) \/ write_line(p)
      PROVE  TypeOK' /\ IndicesAgree(buffer)'
  <2>1. /\ frame[p] \in Frame
        /\ NoFrame \in Frame
        /\ 0 \in Slots
    BY EntrySizeAssumption DEF TypeOK, Frame, NoFrame, Slots, NULL
  <2>2. CASE aesd_open(p)
    BY <2>2 DEF aesd_open, TypeOK
  <2>3. CASE aesd_release(p)
    BY <2>3 DEF aesd_release, TypeOK
  <2>4. CASE \E count \in Counts : read_trylock(p, count)
    <3>1. PICK count \in Counts : read_trylock(p, count)
      BY <2>4
    <3>2. [NoFrame EXCEPT !.count = count] \in Frame
      BY <2>1, DriverAssumption DEF Frame
    <3> QED
      BY <3>1, <3>2 DEF read_trylock, Continue, TypeOK, Labels
  <2>5. CASE read_trylock_fails(p)
    BY <2>1, <2>5 DEF read_trylock_fails, Return, TypeOK, Labels, NULL
  <2>6. CASE \E count \in Counts, newline \in BOOLEAN :
                write_copy(p, count, newline)
    <3>1. PICK count \in Counts, newline \in BOOLEAN :
              write_copy(p, count, newline)
      BY <2>6
    <3>2. [NoFrame EXCEPT !.count = count, !.newline = newline] \in Frame
      BY <2>1, DriverAssumption DEF Frame
    <3> QED
      BY <3>1, <3>2 DEF write_copy, NewBlock, Continue, TypeOK, Labels
  <2>7. CASE write_copy_fails(p)
    BY <2>1, <2>7 DEF write_copy_fails, Return, TypeOK, Labels, NULL
  <2>8. CASE read_find_start(p)
    <3>1. [frame[p] EXCEPT !.from = buffer.out_offs] \in Frame
      BY <2>1 DEF Frame, TypeOK, Buffer
    <3> QED
      BY <2>8, <3>1 DEF read_find_start, Continue, TypeOK, Labels
  <2>9. CASE read_find_hit(p)
    <3>1. Lookup(p).slot \in Slots
      BY LookupSlot
    <3>2. [frame[p] EXCEPT !.entry = Lookup(p).slot,
                           !.at_start = (Lookup(p).entry_offset_byte = 0)]
              \in Frame
      BY <2>1, <3>1 DEF Frame
    <3> QED
      BY <2>9, <3>2 DEF read_find_hit, Continue, TypeOK, Labels
  <2>10. CASE read_find_miss(p)
    <3>1. /\ find_miss_reset(buffer) \in Buffer
          /\ IndicesAgree(find_miss_reset(buffer))
      BY MissReset DEF TypeOK
    <3>2. buffer' = find_miss_reset(buffer)
      BY <2>10 DEF read_find_miss
    <3> QED
      BY <2>1, <2>10, <3>1, <3>2
      DEF read_find_miss, Return, TypeOK, Labels, NULL
  <2>11. CASE read_size(p)
    <3>1. buffer.entry[frame[p].entry].size \in Nat
      BY <2>1 DEF TypeOK, Buffer, Entry, Frame
    <3>2. frame[p].count \in Nat
      BY <2>1 DEF Frame
    <3> QED
      BY <2>1, <2>11, <3>1, <3>2 DEF read_size, Continue, TypeOK, Labels
  <2>12. CASE read_ptr(p)
    <3>1. buffer.entry[frame[p].entry].buffptr \in Nat
      BY <2>1 DEF TypeOK, Buffer, Entry, Frame
    <3>2. [frame[p] EXCEPT !.src = buffer.entry[frame[p].entry].buffptr]
              \in Frame
      BY <2>1, <3>1 DEF Frame
    <3> QED
      BY <2>12, <3>2 DEF read_ptr, Continue, TypeOK, Labels
  <2>13. CASE read_copied(p)
    BY <2>1, <2>13 DEF read_copied, Return, TypeOK, Labels, NULL
  <2>14. CASE write_trylock(p)
    BY <2>1, <2>14 DEF write_trylock, Continue, TypeOK, Labels
  <2>15. CASE write_trylock_fails(p)
    BY <2>1, <2>15 DEF write_trylock_fails, Return, TypeOK, Labels, NULL
  <2>16. CASE write_partial_first(p)
    BY <2>1, <2>16 DEF write_partial_first, Return, TypeOK, Labels, NULL
  <2>17. CASE write_partial_concat(p)
    <3>1. /\ nalloc' = nalloc + 1
          /\ heap' \subseteq heap \cup {nalloc + 1}
      BY <2>17 DEF write_partial_concat, NewBlock
    <3>2. nalloc' \in Nat /\ heap' \subseteq 1..nalloc'
      BY <3>1 DEF TypeOK
    <3>3. temp_char_buffer' \in Nat
      BY <2>17 DEF write_partial_concat, NewBlock, TypeOK
    <3> QED
      BY <2>1, <2>17, <3>2, <3>3
      DEF write_partial_concat, Return, TypeOK, Labels, NULL
  <2>18. CASE write_partial_oops(p)
    BY <2>1, <2>18 DEF write_partial_oops, Continue, TypeOK, Labels
  <2>19. CASE write_line(p)
    <3> DEFINE e == [buffptr |-> wbuf[p], size |-> frame[p].count]
    <3>1. e \in Entry
      BY <2>1 DEF TypeOK, Frame, Entry
    <3>2. buffer' = aesd_circular_buffer_add_entry(buffer, e)
      BY <2>19 DEF write_line
    <3>3. buffer' \in Buffer /\ IndicesAgree(buffer')
      BY <3>1, <3>2, AddEntry DEF TypeOK
    <3> QED
      BY <2>1, <2>19, <3>3 DEF write_line, Return, TypeOK, Labels, NULL
  <2> QED
    BY <1>4, <2>2, <2>3, <2>4, <2>5, <2>6, <2>7, <2>8, <2>9, <2>10, <2>11,
       <2>12, <2>13, <2>14, <2>15, <2>16, <2>17, <2>18, <2>19
<1> QED
  BY <1>1, <1>2, <1>3, <1>4, NextCases

(***************************************************************************)
(* Every action keeps files, semaphore and program counters in step.       *)
(***************************************************************************)
LEMMA SyncStep ==
    ASSUME TypeOK, FilesOpen, SemAgrees, WriterHasBlock, [Next]_vars
    PROVE  FilesOpen' /\ SemAgrees' /\ WriterHasBlock'
<1> USE DEF dev, sem, memory, file, TypeOK, FilesOpen, SemAgrees,
            WriterHasBlock, NULL
<1>1. CASE UNCHANGED vars
  BY <1>1 DEF vars
<1>2. CASE aesd_init_module
  BY <1>2, DriverAssumption DEF aesd_init_module
<1>3. CASE aesd_cleanup_module
  BY <1>3 DEF aesd_cleanup_module
<1>4. ASSUME NEW p \in Procs,
             \/ aesd_open(p) \/ aesd_release(p)
             \/ \E count \in Counts : read_trylock(p, count)
             \/ read_trylock_fails(p)
             \/ \E count \in Counts, newline \in BOOLEAN :
                    write_copy(p, count, newline)
             \/ write_copy_fails(p)
             \/ read_find_start(p) \/ read_find_hit(p) \/ read_find_miss(p)
             \/ read_size(p) \/ read_ptr(p) \/ read_copied(p)
             \/ write_trylock(p) \/ write_trylock_fails(p)
             \/ write_partial_first(p) \/ write_partial_concat(p)
             \/ write_partial_oops(p) \/ write_line(p)
      PROVE  FilesOpen' /\ SemAgrees' /\ WriterHasBlock'
  <2>1. CASE aesd_open(p)
    BY <2>1, DriverAssumption DEF aesd_open
  <2>2. CASE aesd_release(p)
    BY <2>2, DriverAssumption DEF aesd_release
  <2>3. CASE \E count \in Counts : read_trylock(p, count)
    BY <2>3, DriverAssumption DEF read_trylock, Continue
  <2>4. CASE read_trylock_fails(p)
    BY <2>4, DriverAssumption DEF read_trylock_fails, Return
  <2>5. CASE \E count \in Counts, newline \in BOOLEAN :
                write_copy(p, count, newline)
    BY <2>5, DriverAssumption DEF write_copy, Continue, NewBlock
  <2>6. CASE write_copy_fails(p)
    BY <2>6, DriverAssumption DEF write_copy_fails, Return
  <2>7. CASE read_find_start(p)
    BY <2>7, DriverAssumption DEF read_find_start, Continue
  <2>8. CASE read_find_hit(p)
    BY <2>8, DriverAssumption DEF read_find_hit, Continue
  <2>9. CASE read_find_miss(p)
    BY <2>9, DriverAssumption DEF read_find_miss, Return
  <2>10. CASE read_size(p)
    BY <2>10, DriverAssumption DEF read_size, Continue
  <2>11. CASE read_ptr(p)
    BY <2>11, DriverAssumption DEF read_ptr, Continue
  <2>12. CASE read_copied(p)
    BY <2>12, DriverAssumption DEF read_copied, Return
  <2>13. CASE write_trylock(p)
    BY <2>13, DriverAssumption DEF write_trylock, Continue
  <2>14. CASE write_trylock_fails(p)
    BY <2>14, DriverAssumption DEF write_trylock_fails, Return
  <2>15. CASE write_partial_first(p)
    BY <2>15, DriverAssumption DEF write_partial_first, Return
  <2>16. CASE write_partial_concat(p)
    BY <2>16, DriverAssumption DEF write_partial_concat, Return, NewBlock
  <2>17. CASE write_partial_oops(p)
    BY <2>17, DriverAssumption DEF write_partial_oops, Continue
  <2>18. CASE write_line(p)
    BY <2>18, DriverAssumption DEF write_line, Return
  <2> QED
    BY <1>4, <2>1, <2>2, <2>3, <2>4, <2>5, <2>6, <2>7, <2>8, <2>9, <2>10,
       <2>11, <2>12, <2>13, <2>14, <2>15, <2>16, <2>17, <2>18
<1> QED
  BY <1>1, <1>2, <1>3, <1>4, NextCases

(***************************************************************************)
(* Every action keeps the owners of blocks apart and their blocks live.    *)
(***************************************************************************)
LEMMA OwnedStep ==
    ASSUME IInv, [Next]_vars
    PROVE  OwnedBlocksLive'
<1> USE DEF dev, sem, memory, file
<1>1. CASE /\ UNCHANGED <<temp_char_buffer, heap, wbuf>>
           /\ buffer'.entry = buffer.entry
  BY <1>1 DEF IInv, OwnedBlocksLive, Stored
<1>2. CASE aesd_init_module
  <2>1. buffer'.entry = [i \in Slots |-> NullEntry] /\ temp_char_buffer' = NULL
    BY <1>2 DEF aesd_init_module, aesd_circular_buffer_init
  <2>2. Stored' = {}
    BY <2>1 DEF Stored, NullEntry
  <2>3. UNCHANGED <<heap, wbuf>>
    BY <1>2 DEF aesd_init_module
  <2> QED
    BY <2>1, <2>2, <2>3 DEF IInv, OwnedBlocksLive, NullEntry, TypeOK
<1>3. ASSUME NEW p \in Procs,
             /\ UNCHANGED <<temp_char_buffer, heap>>
             /\ buffer'.entry = buffer.entry
             /\ wbuf' = [wbuf EXCEPT ![p] = NULL]
      PROVE  OwnedBlocksLive'
  BY <1>3 DEF IInv, OwnedBlocksLive, Stored, TypeOK
<1>4. ASSUME NEW p \in Procs, NEW count, NEW newline,
             write_copy(p, count, newline)
      PROVE  OwnedBlocksLive'
  <2>1. /\ heap' = heap \cup {nalloc + 1}
        /\ wbuf' = [wbuf EXCEPT ![p] = nalloc + 1]
        /\ UNCHANGED <<buffer, temp_char_buffer>>
    BY <1>4 DEF write_copy, NewBlock
  <2>2. nalloc + 1 \notin heap
    BY DEF IInv, TypeOK
  <2> QED
    BY <2>1, <2>2 DEF IInv, OwnedBlocksLive, Stored, TypeOK, NULL
<1>5. ASSUME NEW p \in Procs, write_trylock_fails(p)
      PROVE  OwnedBlocksLive'
  <2>1. /\ heap' = heap \ {wbuf[p]}
        /\ wbuf' = [wbuf EXCEPT ![p] = NULL]
        /\ UNCHANGED <<buffer, temp_char_buffer>>
    BY <1>5 DEF write_trylock_fails, Return
  <2>2. wbuf[p] # NULL
    BY <1>5 DEF write_trylock_fails, IInv, WriterHasBlock
  <2> QED
    BY <2>1, <2>2 DEF IInv, OwnedBlocksLive, Stored, TypeOK, NULL
<1>6. ASSUME NEW p \in Procs, write_partial_first(p)
      PROVE  OwnedBlocksLive'
  <2>1. /\ wbuf' = [wbuf EXCEPT ![p] = NULL]
        /\ temp_char_buffer' = wbuf[p]
        /\ UNCHANGED <<buffer, heap>>
    BY <1>6 DEF write_partial_first, Return
  <2>2. wbuf[p] # NULL
    BY <1>6 DEF write_partial_first, IInv, WriterHasBlock
  <2> QED
    BY <2>1, <2>2 DEF IInv, OwnedBlocksLive, Stored, TypeOK, NULL
<1>7. ASSUME NEW p \in Procs, write_partial_concat(p)
      PROVE  OwnedBlocksLive'
  <2>1. /\ heap' = (heap \cup {nalloc + 1}) \ {wbuf[p], temp_char_buffer}
        /\ wbuf' = [wbuf EXCEPT ![p] = NULL]
        /\ temp_char_buffer' = nalloc + 1
        /\ UNCHANGED buffer
    BY <1>7 DEF write_partial_concat, NewBlock, Return
  <2>2. wbuf[p] # NULL /\ temp_char_buffer # NULL
    BY <1>7 DEF write_partial_concat, IInv, WriterHasBlock
  <2>3. nalloc + 1 \notin heap
    BY DEF IInv, TypeOK
  <2> QED
    BY <2>1, <2>2, <2>3 DEF IInv, OwnedBlocksLive, Stored, TypeOK, NULL
<1>8. ASSUME NEW p \in Procs, write_line(p)
      PROVE  OwnedBlocksLive'
  <2> DEFINE e   == [buffptr |-> wbuf[p], size |-> frame[p].count]
             in  == buffer.in_offs
             old == buffer.entry[in].buffptr
  <2>1. /\ buffer' = aesd_circular_buffer_add_entry(buffer, e)
        /\ heap' = heap \ {add_entry_returned(buffer).buffptr}
        /\ wbuf' = [wbuf EXCEPT ![p] = NULL]
        /\ UNCHANGED temp_char_buffer
    BY <1>8 DEF write_line, Return
  <2>2. wbuf[p] # NULL
    BY <1>8 DEF write_line, IInv, WriterHasBlock
  <2>3. /\ buffer.entry \in [Slots -> Entry]
        /\ in \in Slots
        /\ e \in Entry
    BY DEF IInv, TypeOK, Buffer, Frame, Entry
  <2>4. buffer'.entry = [buffer.entry EXCEPT ![in] = e]
    BY <2>1, <2>3, AddEntry DEF IInv, TypeOK
  \* What is freed is NULL, or the block of the slot that is overwritten.
  <2>5. add_entry_returned(buffer).buffptr \in {NULL, old}
    BY DEF IInv, IndicesAgree, add_entry_returned, NullEntry
  <2>6. \A i \in Slots : buffer'.entry[i].buffptr =
              IF i = in THEN wbuf[p] ELSE buffer.entry[i].buffptr
    BY <2>3, <2>4
  <2>7. NULL \notin heap
    BY DEF IInv, TypeOK, NULL
  <2>8. \A x \in heap : x \notin Stored => x \in heap'
    BY <2>1, <2>3, <2>5, <2>7 DEF Stored
  <2>9. \A i \in Slots \ {in} :
           buffer.entry[i].buffptr # NULL => buffer.entry[i].buffptr \in heap'
    BY <2>1, <2>3, <2>5, <2>7 DEF IInv, OwnedBlocksLive, Stored
  <2>10. wbuf[p] \in heap' /\ wbuf[p] \notin Stored
    BY <2>2, <2>8 DEF IInv, OwnedBlocksLive
  <2>11. Stored' \subseteq heap' /\ Stored' \subseteq Stored \cup {wbuf[p]}
    BY <2>3, <2>6, <2>9, <2>10 DEF Stored
  <2>12. \A i, j \in Slots :
            buffer'.entry[i].buffptr = buffer'.entry[j].buffptr =>
                i = j \/ buffer'.entry[i].buffptr = NULL
    BY <2>2, <2>3, <2>6, <2>10 DEF IInv, OwnedBlocksLive, Stored
  <2>13. temp_char_buffer' # NULL => temp_char_buffer' \in heap' \ Stored'
    BY <2>1, <2>2, <2>8, <2>11 DEF IInv, OwnedBlocksLive
  <2>14. \A q \in Procs : wbuf'[q] # NULL =>
            /\ wbuf'[q] \in heap' \ Stored'
            /\ wbuf'[q] # temp_char_buffer'
            /\ \A r \in Procs : wbuf'[r] = wbuf'[q] => r = q
    BY <2>1, <2>2, <2>8, <2>11 DEF IInv, OwnedBlocksLive, TypeOK
  <2> QED
    BY <2>11, <2>12, <2>13, <2>14 DEF OwnedBlocksLive
<1>9. CASE aesd_cleanup_module
  BY <1>1, <1>9 DEF aesd_cleanup_module
<1>10. ASSUME NEW p \in Procs,
              \/ aesd_open(p) \/ aesd_release(p)
              \/ \E count \in Counts : read_trylock(p, count)
              \/ read_find_start(p) \/ read_find_hit(p)
              \/ read_size(p) \/ read_ptr(p)
              \/ write_trylock(p) \/ write_partial_oops(p)
       PROVE  OwnedBlocksLive'
  BY <1>1, <1>10
  DEF aesd_open, aesd_release, read_trylock, read_find_start, read_find_hit,
      read_size, read_ptr, write_trylock, write_partial_oops
<1>11. ASSUME NEW p \in Procs,
              \/ read_trylock_fails(p) \/ write_copy_fails(p)
              \/ read_find_miss(p) \/ read_copied(p)
       PROVE  OwnedBlocksLive'
  BY <1>3, <1>11
  DEF read_trylock_fails, write_copy_fails, read_find_miss, read_copied,
      Return, find_miss_reset
<1>12. CASE UNCHANGED vars
  BY <1>1, <1>12 DEF vars
<1> QED
  BY <1>2, <1>4, <1>5, <1>6, <1>7, <1>8, <1>9, <1>10, <1>11, <1>12, NextCases
-----------------------------------------------------------------------------
\* The three parts together.
LEMMA InvariantStep == IInv /\ [Next]_vars => IInv'
BY TypeStep, SyncStep, OwnedStep DEF IInv

\* The module before it is first loaded.
LEMMA InvariantInit == Init => IInv
<1> SUFFICES ASSUME Init PROVE IInv
  OBVIOUS
<1>1. NoFrame \in Frame
  BY EntrySizeAssumption DEF Frame, NoFrame, Slots, NULL
<1>2. TypeOK /\ IndicesAgree(buffer)
  BY <1>1, InitBuffer DEF Init, TypeOK, Labels, NULL
<1>3. FilesOpen /\ SemAgrees /\ WriterHasBlock
  BY DriverAssumption DEF Init, FilesOpen, SemAgrees, WriterHasBlock
<1>4. buffer.entry = [i \in Slots |-> NullEntry]
  BY DEF Init, aesd_circular_buffer_init
<1>5. Stored = {}
  BY <1>4 DEF Stored, NullEntry
<1>6. OwnedBlocksLive
  BY <1>4, <1>5 DEF Init, OwnedBlocksLive, NullEntry
<1> QED
  BY <1>2, <1>3, <1>6 DEF IInv

(***************************************************************************)
(* The invariant of the driver.                                            *)
(***************************************************************************)
THEOREM Invariance == Spec => []IInv
BY InvariantInit, InvariantStep, PTL DEF Spec

(***************************************************************************)
(* Every variable of the driver keeps its type: in particular no index of  *)
(* the buffer and no slot a reader remembers ever leaves 0..ENTRY_SIZE-1.  *)
(***************************************************************************)
THEOREM TypeCorrect == Spec => []TypeOK
BY Invariance, PTL DEF IInv

(***************************************************************************)
(* No kfree of aesd_write ever frees a block that a slot,                  *)
(* temp_char_buffer or another writer still owns.                          *)
(***************************************************************************)
THEOREM OwnedBlocksAlwaysLive == Spec => []OwnedBlocksLive
BY Invariance, PTL DEF IInv

(***************************************************************************)
(* aesd_write loses data to the trylock only when another process is       *)
(* inside its critical section, or died there.                             *)
(***************************************************************************)
THEOREM DropsNeedContention == Spec => DroppedOnlyUnderContention
<1>1. ASSUME IInv, [Next]_vars
      PROVE  [\A p \in Procs :
                 pc[p] = "w_lock" /\ pc'[p] = "idle" =>
                     \E q \in Procs \ {p} :
                         pc[q] \in {"r_find", "r_scan", "w_body", "oops"}]_vars
  <2> USE DEF dev, sem, memory, file
  <2>1. ASSUME NEW p \in Procs, pc[p] = "w_lock", pc'[p] = "idle"
        PROVE  write_trylock_fails(p)
    <3>1. pc' # pc /\ pc \in [Procs -> Labels]
      BY <1>1, <2>1 DEF IInv, TypeOK
    <3>2. PICK q \in Procs : Call(q) \/ ReadStep(q) \/ WriteStep(q)
      BY <1>1, <3>1 DEF vars, Next, aesd_init_module, aesd_cleanup_module
    <3>3. CASE Call(q)
      BY <2>1, <3>1, <3>3
      DEF Call, aesd_open, aesd_release, read_trylock, read_trylock_fails,
          write_copy, write_copy_fails, Continue, Return
    <3>4. CASE ReadStep(q)
      BY <2>1, <3>1, <3>4
      DEF ReadStep, read_find_start, read_find_hit, read_find_miss, read_size,
          read_ptr, read_copied, Continue, Return
    <3>5. CASE WriteStep(q) /\ q # p
      BY <2>1, <3>1, <3>5
      DEF WriteStep, write_trylock, write_trylock_fails, write_partial_first,
          write_partial_concat, write_partial_oops, write_line, Continue,
          Return
    <3>6. CASE WriteStep(q) /\ q = p
      BY <2>1, <3>1, <3>6
      DEF WriteStep, write_trylock, write_partial_first,
          write_partial_concat, write_partial_oops, write_line, Continue
    <3> QED
      BY <3>2, <3>3, <3>4, <3>5, <3>6
  <2>2. ASSUME NEW p \in Procs, pc[p] = "w_lock", write_trylock_fails(p)
        PROVE  \E q \in Procs \ {p} :
                   pc[q] \in {"r_find", "r_scan", "w_body", "oops"}
    <3>1. readers # {} \/ writer # NoProc
      BY <2>2 DEF write_trylock_fails
    <3> QED
      BY <1>1, <2>2, <3>1 DEF IInv, TypeOK, SemAgrees
  <2> QED
    BY <2>1, <2>2
<1> QED
  BY <1>1, Invariance, PTL DEF Spec, DroppedOnlyUnderContention

(***************************************************************************)
(* No entry of the buffer changes between a reader's copy of out_offs and  *)
(* the end of its search.                                                  *)
(***************************************************************************)
THEOREM ScansAreStable == Spec => ScanSeesStableEntries
<1>1. ASSUME IInv, [Next]_vars
      PROVE  [\A p \in Procs :
                 pc[p] = "r_scan" /\ pc'[p] = "r_scan" =>
                     buffer'.entry = buffer.entry]_vars
  <2> USE DEF dev, sem, memory, file
  <2> SUFFICES ASSUME NEW p \in Procs, pc[p] = "r_scan",
                      buffer'.entry # buffer.entry
               PROVE  FALSE
    OBVIOUS
  <2>1. aesd_init_module \/ \E q \in Procs : write_line(q)
    <3>1. CASE aesd_cleanup_module
      BY <3>1 DEF aesd_cleanup_module
    <3>2. ASSUME NEW q \in Procs, Call(q) PROVE FALSE
      BY <3>2 DEF Call, aesd_open, aesd_release, read_trylock,
                  read_trylock_fails, write_copy, write_copy_fails
    <3>3. ASSUME NEW q \in Procs, ReadStep(q) PROVE FALSE
      BY <3>3 DEF ReadStep, read_find_start, read_find_hit, read_find_miss,
                  read_size, read_ptr, read_copied, find_miss_reset
    <3>4. ASSUME NEW q \in Procs, WriteStep(q) PROVE write_line(q)
      BY <3>4 DEF WriteStep, write_trylock, write_trylock_fails,
                  write_partial_first, write_partial_concat,
                  write_partial_oops
    <3> QED
      BY <1>1, <3>1, <3>2, <3>3, <3>4 DEF vars, Next
  <2>2. ~aesd_init_module
    BY <1>1 DEF aesd_init_module, IInv, FilesOpen
  <2>3. ASSUME NEW q \in Procs, write_line(q)
        PROVE  FALSE
    BY <1>1, <2>3, DriverAssumption DEF write_line, IInv, SemAgrees
  <2> QED
    BY <2>1, <2>2, <2>3
<1> QED
  BY <1>1, Invariance, PTL DEF Spec, ScanSeesStableEntries
-----------------------------------------------------------------------------
(***************************************************************************)
(* What the two lost properties of the driver need.  TLC shows that the    *)
(* driver leaks entries and copies from freed ones; the theorems below     *)
(* show that each has one cause only, for every number of processes.       *)
(***************************************************************************)

(***************************************************************************)
(* Who changes the entries: a write that saw a newline, and the loading of *)
(* the module.                                                             *)
(***************************************************************************)
LEMMA EntriesChange ==
    ASSUME [Next]_vars, ~aesd_init_module,
           \A p \in Procs : ~write_line(p)
    PROVE  /\ buffer'.entry = buffer.entry
           /\ buffer' = buffer \/ \E p \in Procs : read_find_miss(p)
<1> USE DEF dev, sem, memory, file
<1>1. CASE aesd_cleanup_module
  BY <1>1 DEF aesd_cleanup_module
<1>2. ASSUME NEW q \in Procs, Call(q) PROVE buffer' = buffer
  BY <1>2 DEF Call, aesd_open, aesd_release, read_trylock,
              read_trylock_fails, write_copy, write_copy_fails
<1>3. ASSUME NEW q \in Procs, ReadStep(q), ~read_find_miss(q)
      PROVE  buffer' = buffer
  BY <1>3 DEF ReadStep, read_find_start, read_find_hit, read_size, read_ptr,
              read_copied
<1>4. ASSUME NEW q \in Procs, read_find_miss(q)
      PROVE  buffer'.entry = buffer.entry
  BY <1>4 DEF read_find_miss, find_miss_reset
<1>5. ASSUME NEW q \in Procs, WriteStep(q) PROVE buffer' = buffer
  BY <1>5 DEF WriteStep, write_trylock, write_trylock_fails,
              write_partial_first, write_partial_concat, write_partial_oops
<1>6. CASE UNCHANGED vars
  BY <1>6 DEF vars
<1> QED
  BY <1>1, <1>2, <1>3, <1>4, <1>5, <1>6 DEF Next

(***************************************************************************)
(* A write that saw a newline: the buffer it leaves.                       *)
(***************************************************************************)
LEMMA LineAdded ==
    ASSUME IInv, NEW p \in Procs, write_line(p)
    PROVE  /\ buffer.entry \in [Slots -> Entry]
           /\ buffer.in_offs \in Slots
           /\ wbuf[p] # NULL
           /\ buffer'.entry = [buffer.entry EXCEPT ![buffer.in_offs] =
                                  [buffptr |-> wbuf[p], size |-> frame[p].count]]
           /\ buffer'.in_offs = Advance(buffer.in_offs)
           /\ buffer'.full = (buffer.full \/ Advance(buffer.in_offs) = 0)
           /\ heap' = heap \ {IF buffer.full
                               THEN buffer.entry[buffer.in_offs].buffptr
                               ELSE NULL}
<1> DEFINE e == [buffptr |-> wbuf[p], size |-> frame[p].count]
<1>1. e \in Entry
  BY DEF IInv, TypeOK, Frame, Entry
<1>2. buffer' = aesd_circular_buffer_add_entry(buffer, e)
  BY DEF write_line
<1>3. /\ buffer'.entry = [buffer.entry EXCEPT ![buffer.in_offs] = e]
      /\ buffer'.in_offs = Advance(buffer.in_offs)
      /\ buffer'.full = (buffer.full \/ Advance(buffer.in_offs) = 0)
  BY <1>1, <1>2, AddEntry DEF IInv, TypeOK
<1>4. wbuf[p] # NULL
  BY DEF write_line, IInv, WriterHasBlock
<1>5. /\ buffer.entry \in [Slots -> Entry]
      /\ buffer.in_offs \in Slots
  BY DEF IInv, TypeOK, Buffer
<1>6. heap' = heap \ {IF buffer.full THEN buffer.entry[buffer.in_offs].buffptr
                                     ELSE NULL}
  BY DEF write_line, add_entry_returned, NullEntry, IInv, IndicesAgree
<1> QED
  BY <1>3, <1>4, <1>5, <1>6
-----------------------------------------------------------------------------
\* Behaviours in which no read reaches the end of the data.
NoMissSpec ==
    Init /\ [][Next /\ \A p \in Procs : ~read_find_miss(p)]_vars

\* In a buffer that is not full nothing lies behind the entries.
UnusedSlotsEmpty ==
    ~buffer.full =>
        \A i \in Slots : i >= buffer.in_offs => buffer.entry[i] = NullEntry

LEMMA UnusedStep ==
    ASSUME IInv, UnusedSlotsEmpty, [Next]_vars,
           \A p \in Procs : ~read_find_miss(p)
    PROVE  UnusedSlotsEmpty'
<1>1. CASE aesd_init_module
  BY <1>1 DEF aesd_init_module, aesd_circular_buffer_init, UnusedSlotsEmpty
<1>2. ASSUME NEW p \in Procs, write_line(p) PROVE UnusedSlotsEmpty'
  <2> SUFFICES ASSUME ~buffer'.full, NEW i \in Slots, i >= buffer'.in_offs
               PROVE  buffer'.entry[i] = NullEntry
    BY DEF UnusedSlotsEmpty
  <2> DEFINE in == buffer.in_offs
  <2>1. /\ in \in Slots /\ ~buffer.full /\ Advance(in) # 0
        /\ buffer'.in_offs = Advance(in)
    BY <1>2, LineAdded
  <2>2. Advance(in) = in + 1
    BY <2>1, AdvanceValue, EntrySizeAssumption DEF Slots
  <2>3. i >= in /\ i # in
    BY <2>1, <2>2, EntrySizeAssumption DEF Slots
  <2>4. buffer'.entry[i] = buffer.entry[i]
    BY <1>2, <2>3, LineAdded
  <2> QED
    BY <2>1, <2>3, <2>4 DEF UnusedSlotsEmpty
<1>3. CASE ~aesd_init_module /\ \A p \in Procs : ~write_line(p)
  BY <1>3, EntriesChange DEF UnusedSlotsEmpty
<1> QED
  BY <1>1, <1>2, <1>3

(***************************************************************************)
(* The reset after a failed lookup (aesd-circular-buffer.c:46-48) is the   *)
(* only cause of the leak: as long as no read runs past the end,           *)
(* aesd_write frees every entry that it overwrites, in the same step.      *)
(***************************************************************************)
THEOREM LeakNeedsFailedRead == NoMissSpec => OverwrittenEntriesFreed
<1> DEFINE NoMiss == \A p \in Procs : ~read_find_miss(p)
           Inv == IInv /\ UnusedSlotsEmpty
           Freed == loaded /\ loaded' => Stored \cap heap' \subseteq Stored'
<1>1. Init => Inv
  BY InvariantInit DEF Init, aesd_circular_buffer_init, UnusedSlotsEmpty
<1>2. Inv /\ [Next /\ NoMiss]_vars => Inv'
  <2> SUFFICES ASSUME Inv, [Next /\ NoMiss]_vars PROVE Inv'
    OBVIOUS
  <2>1. [Next]_vars
    OBVIOUS
  <2>2. CASE NoMiss
    BY <2>1, <2>2, InvariantStep, UnusedStep
  <2>3. CASE UNCHANGED vars
    BY <2>3, <2>1, InvariantStep DEF vars, dev, UnusedSlotsEmpty
  <2> QED
    BY <2>2, <2>3
<1>3. Inv /\ [Next /\ NoMiss]_vars => [Freed]_vars
  <2> SUFFICES ASSUME Inv, Next, NoMiss, loaded, loaded' PROVE
               Stored \cap heap' \subseteq Stored'
    OBVIOUS
  <2>1. ~aesd_init_module
    BY DEF aesd_init_module
  <2>2. ASSUME NEW p \in Procs, write_line(p)
        PROVE  Stored \cap heap' \subseteq Stored'
    <3> DEFINE in == buffer.in_offs
               old == buffer.entry[in].buffptr
    <3>1. \A i \in Slots : i # in => buffer'.entry[i] = buffer.entry[i]
      BY <2>2, LineAdded
    <3>2. in \in Slots
      BY <2>2, LineAdded
    <3>3. old = NULL \/ old \notin heap'
      <4>1. CASE buffer.full
        BY <2>2, <4>1, LineAdded
      <4>2. CASE ~buffer.full
        <5>1. in >= in
          BY <3>2, EntrySizeAssumption DEF Slots
        <5> QED
          BY <3>2, <4>2, <5>1 DEF UnusedSlotsEmpty, NullEntry
      <4> QED
        BY <4>1, <4>2
    <3>4. ASSUME NEW x \in Stored, x \in heap' PROVE x \in Stored'
      <4>1. PICK i \in Slots : x = buffer.entry[i].buffptr /\ x # NULL
        BY DEF Stored
      <4>2. i # in
        BY <3>3, <3>4, <4>1
      <4>3. x = buffer'.entry[i].buffptr
        BY <3>1, <4>1, <4>2
      <4> QED
        BY <4>1, <4>3 DEF Stored
    <3> QED
      BY <3>4
  <2>3. CASE \A p \in Procs : ~write_line(p)
    <3>1. buffer'.entry = buffer.entry
      BY <2>1, <2>3, EntriesChange
    <3> QED
      BY <3>1 DEF Stored
  <2> QED
    BY <2>2, <2>3
<1> QED
  BY <1>1, <1>2, <1>3, PTL DEF NoMissSpec, OverwrittenEntriesFreed
-----------------------------------------------------------------------------
\* A reader that was given an entry and has let go of the lock.
UsesEntry(p) == pc[p] \in {"r_size", "r_ptr", "r_copy"}

\* Behaviours in which no write adds an entry while a reader uses one, as if
\* aesd_read kept dev->sem until it has copied.
HeldCopySpec ==
    Init /\ [][Next /\ ((\E p \in Procs : write_line(p)) =>
                          \A q \in Procs : ~UsesEntry(q))]_vars

\* An entry that has bytes has a block, and a reader uses such an entry.
EntriesInUse ==
    /\ \A i \in Slots : buffer.entry[i].size > 0 => buffer.entry[i].buffptr # NULL
    /\ \A p \in Procs :
          /\ UsesEntry(p) => buffer.entry[frame[p].entry].buffptr # NULL
          /\ pc[p] = "r_copy" =>
                frame[p].src = buffer.entry[frame[p].entry].buffptr

\* What a process's step does to who uses which entry.
LEMMA UsersStep ==
    ASSUME IInv, EntriesInUse, [Next]_vars, NEW p \in Procs,
           UsesEntry(p)', buffer'.entry = buffer.entry
    PROVE  /\ buffer'.entry[frame'[p].entry].buffptr # NULL
           /\ pc'[p] = "r_copy" =>
                 frame'[p].src = buffer'.entry[frame'[p].entry].buffptr
<1> USE DEF dev, sem, memory, file
<1>1. /\ pc \in [Procs -> Labels] /\ frame \in [Procs -> Frame]
      /\ buffer.entry \in [Slots -> Entry]
  BY DEF IInv, TypeOK, Buffer
<1>2. CASE pc'[p] = pc[p] /\ frame'[p] = frame[p]
  BY <1>2 DEF EntriesInUse, UsesEntry
<1>3. CASE read_find_hit(p)
  <2>1. /\ buffer \in Buffer /\ frame[p].from \in Slots /\ f_pos[p] \in Nat
    BY DEF IInv, TypeOK, Frame
  <2>2. PICK off : Offsets(buffer, frame[p].from, off)
    BY <2>1, OffsetsExist
  <2> DEFINE rtn == Lookup(p)
  <2>3. /\ rtn.slot \in Slots
        /\ rtn.entry_offset_byte \in Nat
        /\ rtn.entry_offset_byte < buffer.entry[rtn.slot].size
    BY <1>3, <2>1, <2>2, FindResult DEF read_find_hit, Lookup
  <2> HIDE DEF rtn
  <2>4. buffer.entry[rtn.slot].size \in Nat
    BY <1>1, <2>3 DEF Entry
  <2>5. buffer.entry[rtn.slot].buffptr # NULL
    BY <2>3, <2>4 DEF EntriesInUse
  <2>6. pc'[p] = "r_size" /\ frame'[p].entry = rtn.slot
    BY <1>1, <1>3 DEF read_find_hit, Continue, Frame, rtn
  <2> QED
    BY <2>5, <2>6
<1>4. CASE read_size(p)
  <2>1. pc[p] = "r_size" /\ pc'[p] = "r_ptr" /\ frame'[p] = frame[p]
    BY <1>1, <1>4 DEF read_size, Continue
  <2> QED
    BY <2>1 DEF EntriesInUse, UsesEntry
<1>5. CASE read_ptr(p)
  <2>1. /\ pc[p] = "r_ptr"
        /\ frame'[p] = [frame[p] EXCEPT
                          !.src = buffer.entry[frame[p].entry].buffptr]
    BY <1>1, <1>5 DEF read_ptr, Continue
  <2>2. /\ frame'[p].entry = frame[p].entry
        /\ frame'[p].src = buffer.entry[frame[p].entry].buffptr
    BY <1>1, <2>1 DEF Frame
  <2> QED
    BY <2>1, <2>2 DEF EntriesInUse, UsesEntry
<1>6. CASE aesd_init_module \/ aesd_cleanup_module \/ UNCHANGED vars
  BY <1>2, <1>6 DEF aesd_init_module, aesd_cleanup_module, vars
<1>7. ASSUME NEW q \in Procs, Call(q) PROVE pc'[p] = pc[p] /\ frame'[p] = frame[p]
  BY <1>1, <1>7 DEF Call, aesd_open, aesd_release, read_trylock,
       read_trylock_fails, write_copy, write_copy_fails, Continue, Return,
       UsesEntry
<1>8. ASSUME NEW q \in Procs, WriteStep(q)
      PROVE  pc'[p] = pc[p] /\ frame'[p] = frame[p]
  BY <1>1, <1>8 DEF WriteStep, write_trylock, write_trylock_fails,
       write_partial_first, write_partial_concat, write_partial_oops,
       write_line, Continue, Return, UsesEntry
<1>9. ASSUME NEW q \in Procs, ReadStep(q)
      PROVE  \/ pc'[p] = pc[p] /\ frame'[p] = frame[p]
             \/ read_find_hit(p) \/ read_size(p) \/ read_ptr(p)
  <2>1. CASE q # p
    BY <1>1, <1>9, <2>1 DEF ReadStep, read_find_start, read_find_hit,
         read_find_miss, read_size, read_ptr, read_copied, Continue, Return
  <2>2. CASE q = p
    BY <1>1, <1>9, <2>2 DEF ReadStep, read_find_start,
         read_find_miss, read_copied, Continue, Return, UsesEntry
  <2> QED
    BY <2>1, <2>2
<1> QED
  BY <1>2, <1>3, <1>4, <1>5, <1>6, <1>7, <1>8, <1>9 DEF Next

LEMMA InUseStep ==
    ASSUME IInv, EntriesInUse, [Next]_vars,
           (\E p \in Procs : write_line(p)) => \A q \in Procs : ~UsesEntry(q)
    PROVE  EntriesInUse'
<1>1. CASE aesd_init_module
  <2>1. \A p \in Procs : pc[p] \in {"idle", "oops"}
    BY <1>1 DEF aesd_init_module, IInv, FilesOpen
  <2>2. pc' = pc
    BY <1>1 DEF aesd_init_module
  <2>3. \A i \in Slots : buffer'.entry[i].size = 0
    BY <1>1 DEF aesd_init_module, aesd_circular_buffer_init, NullEntry
  <2> QED
    BY <2>1, <2>2, <2>3 DEF EntriesInUse, UsesEntry
<1>2. ASSUME NEW p \in Procs, write_line(p) PROVE EntriesInUse'
  <2>1. \A i \in Slots : buffer'.entry[i].size > 0 =>
                             buffer'.entry[i].buffptr # NULL
    <3>1. ASSUME NEW i \in Slots, i = buffer.in_offs
          PROVE  buffer'.entry[i].buffptr # NULL
      <4>1. buffer'.entry[i] = [buffptr |-> wbuf[p], size |-> frame[p].count]
        BY <1>2, <3>1, LineAdded
      <4>2. wbuf[p] # NULL
        BY <1>2, LineAdded
      <4> QED
        BY <4>1, <4>2
    <3>2. ASSUME NEW i \in Slots, i # buffer.in_offs
          PROVE  buffer'.entry[i] = buffer.entry[i]
      BY <1>2, <3>2, LineAdded
    <3> QED
      BY <3>1, <3>2 DEF EntriesInUse
  <2>2. \A q \in Procs : ~UsesEntry(q)'
    BY <1>2 DEF write_line, Return, UsesEntry, IInv, TypeOK
  <2> QED
    BY <2>1, <2>2 DEF EntriesInUse, UsesEntry
<1>3. CASE ~aesd_init_module /\ \A p \in Procs : ~write_line(p)
  <2>1. buffer'.entry = buffer.entry
    BY <1>3, EntriesChange
  <2>2. \A p \in Procs : pc'[p] = "r_copy" => UsesEntry(p)'
    BY DEF UsesEntry
  <2>3. ASSUME NEW p \in Procs, UsesEntry(p)'
        PROVE  /\ buffer'.entry[frame'[p].entry].buffptr # NULL
               /\ pc'[p] = "r_copy" =>
                     frame'[p].src = buffer'.entry[frame'[p].entry].buffptr
    BY <2>1, <2>3, UsersStep
  <2> QED
    BY <2>1, <2>2, <2>3 DEF EntriesInUse
<1> QED
  BY <1>1, <1>2, <1>3

(***************************************************************************)
(* The early up_read of aesd_read is the only cause of the use after free: *)
(* as long as no write adds an entry between the lookup and the end of the *)
(* copy, copy_to_user runs on a live block, whatever else the processes do *)
(* (failed reads that reset the indices, partial writes and oopses         *)
(* included).                                                              *)
(***************************************************************************)
THEOREM UseAfterFreeNeedsOverlap == HeldCopySpec => []CopyFromLiveBlock
<1> DEFINE Held == (\E p \in Procs : write_line(p)) =>
                       \A q \in Procs : ~UsesEntry(q)
           Inv == IInv /\ EntriesInUse
<1>1. Init => Inv
  <2> SUFFICES ASSUME Init PROVE EntriesInUse
    BY InvariantInit
  <2>1. \A i \in Slots : buffer.entry[i].size = 0
    BY DEF Init, aesd_circular_buffer_init, NullEntry
  <2>2. \A p \in Procs : pc[p] = "idle"
    BY DEF Init
  <2> QED
    BY <2>1, <2>2 DEF EntriesInUse, UsesEntry
<1>2. Inv /\ [Next /\ Held]_vars => Inv'
  <2> SUFFICES ASSUME Inv, [Next /\ Held]_vars PROVE Inv'
    OBVIOUS
  <2>1. [Next]_vars
    OBVIOUS
  <2>2. CASE Held
    BY <2>1, <2>2, InvariantStep, InUseStep
  <2>3. CASE UNCHANGED vars
    BY <2>1, <2>3, InvariantStep DEF vars, dev, EntriesInUse, UsesEntry
  <2> QED
    BY <2>2, <2>3
<1>3. Inv => CopyFromLiveBlock
  <2> SUFFICES ASSUME Inv, NEW p \in Procs, pc[p] = "r_copy"
               PROVE  frame[p].src \in heap
    BY DEF CopyFromLiveBlock
  <2>1. frame[p].entry \in Slots
    BY DEF IInv, TypeOK, Frame
  <2>2. /\ frame[p].src = buffer.entry[frame[p].entry].buffptr
        /\ frame[p].src # NULL
    BY DEF EntriesInUse, UsesEntry
  <2>3. frame[p].src \in Stored
    BY <2>1, <2>2 DEF Stored
  <2> QED
    BY <2>3 DEF IInv, OwnedBlocksLive
<1> QED
  BY <1>1, <1>2, <1>3, PTL DEF HeldCopySpec
=============================================================================
