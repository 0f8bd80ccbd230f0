------------------------------ MODULE AesdChar ------------------------------
(***************************************************************************)
(* The character driver aesd-char-driver/main.c: processes that open the   *)
(* device and call read and write concurrently.  A call is cut where       *)
(* another process can get in between: at the trylocks, inside the read    *)
(* lock that readers share, and after up_read, where aesd_read goes on     *)
(* using the entry it found.                                               *)
(*                                                                         *)
(* Memory is a set of live blocks.  kmalloc hands out a new number each    *)
(* time, so a pointer that is kept too long is told from a new block.  Of  *)
(* the data a call writes only its length is kept, and whether strstr      *)
(* finds a newline in it: the block has no terminating zero, so strstr may *)
(* run on into what lies behind the bytes written, and a zero byte among   *)
(* them stops it early.  What a call returns to user space is not kept.    *)
(***************************************************************************)
EXTENDS CircularBuffer, FiniteSets

CONSTANTS
    Procs,       \* processes, each with at most one open file
    NoProc,      \* nobody holds dev->sem for writing
    Counts,      \* byte counts passed to read and write
    MaxAllocs    \* bound on the number of kmalloc calls

ASSUME DriverAssumption ==
    /\ NoProc \notin Procs
    /\ Counts \subseteq Nat \ {0}
    /\ MaxAllocs \in Nat

VARIABLES
    loaded,            \* the module is in the kernel and the cdev is live
    buffer,            \* aesd_device.aesd_circular_buffer
    temp_char_buffer,  \* aesd_device.temp_char_buffer
    readers, writer,   \* aesd_device.sem: who holds it for reading, writing
    heap, nalloc,      \* live blocks; number of blocks ever allocated
    opened, f_pos,     \* per process: its file is open; its position
    pc, frame,         \* per process: where it is in a call; its locals
    wbuf               \* per process: `buffer' of aesd_write

dev    == <<buffer, temp_char_buffer>>
sem    == <<readers, writer>>
memory == <<heap, nalloc>>
file   == <<opened, f_pos>>
vars   == <<loaded, dev, sem, memory, file, pc, frame, wbuf>>

\* Locals of a call: its arguments, and in aesd_read the copy of out_offs the
\* search works on, the entry found, whether entry_offset_byte_rtn is 0, and
\* the pointer passed to copy_to_user.
Frame == [count : Nat, newline : BOOLEAN, from : Slots, entry : Slots,
          at_start : BOOLEAN, src : Nat]
NoFrame == [count |-> 0, newline |-> FALSE, from |-> 0, entry |-> 0,
            at_start |-> FALSE, src |-> NULL]

Init ==
    /\ loaded = FALSE
    /\ buffer = aesd_circular_buffer_init
    /\ temp_char_buffer = NULL
    /\ readers = {}
    /\ writer = NoProc
    /\ heap = {}
    /\ nalloc = 0
    /\ opened = [p \in Procs |-> FALSE]
    /\ f_pos = [p \in Procs |-> 0]
    /\ pc = [p \in Procs |-> "idle"]
    /\ frame = [p \in Procs |-> NoFrame]
    /\ wbuf = [p \in Procs |-> NULL]

\* A call of p returns to user space; its locals are gone.
Return(p) ==
    /\ pc' = [pc EXCEPT ![p] = "idle"]
    /\ frame' = [frame EXCEPT ![p] = NoFrame]
    /\ wbuf' = [wbuf EXCEPT ![p] = NULL]

\* A call of p goes on at label l with locals fr.
Continue(p, l, fr) ==
    /\ pc' = [pc EXCEPT ![p] = l]
    /\ frame' = [frame EXCEPT ![p] = fr]
-----------------------------------------------------------------------------
(***************************************************************************)
(* Loading, unloading, opening and closing.                                *)
(***************************************************************************)

\* Nothing can reach the device before cdev_add, so loading is one step.  A
\* failed alloc_chrdev_region or cdev_add undoes itself: no state changes.
aesd_init_module ==
    /\ ~loaded
    /\ loaded' = TRUE
    /\ buffer' = aesd_circular_buffer_init
    /\ temp_char_buffer' = NULL
    /\ readers' = {}
    /\ writer' = NoProc
    /\ UNCHANGED <<memory, file, pc, frame, wbuf>>

\* THIS_MODULE is the owner of the cdev: the kernel does not unload while a
\* file is open.  Nothing is freed.
aesd_cleanup_module ==
    /\ loaded
    /\ \A p \in Procs : ~opened[p]
    /\ loaded' = FALSE
    /\ UNCHANGED <<dev, sem, memory, file, pc, frame, wbuf>>

aesd_open(p) ==
    /\ loaded
    /\ pc[p] = "idle"
    /\ ~opened[p]
    /\ opened' = [opened EXCEPT ![p] = TRUE]
    /\ UNCHANGED <<loaded, dev, sem, memory, f_pos, pc, frame, wbuf>>

\* The file goes, and its position with it.
aesd_release(p) ==
    /\ pc[p] = "idle"
    /\ opened[p]
    /\ opened' = [opened EXCEPT ![p] = FALSE]
    /\ f_pos' = [f_pos EXCEPT ![p] = 0]
    /\ UNCHANGED <<loaded, dev, sem, memory, pc, frame, wbuf>>
-----------------------------------------------------------------------------
(***************************************************************************)
(* aesd_read.                                                              *)
(***************************************************************************)
read_trylock(p, count) ==
    /\ pc[p] = "idle"
    /\ opened[p]
    /\ writer = NoProc
    /\ readers' = readers \cup {p}
    /\ Continue(p, "r_find", [NoFrame EXCEPT !.count = count])
    /\ UNCHANGED <<loaded, dev, writer, memory, file, wbuf>>

read_trylock_fails(p) ==
    /\ pc[p] = "idle"
    /\ opened[p]
    /\ writer # NoProc
    /\ Return(p)
    /\ UNCHANGED <<loaded, dev, sem, memory, file>>

\* The search copies out_offs first; another reader may reset it meanwhile.
read_find_start(p) ==
    /\ pc[p] = "r_find"
    /\ Continue(p, "r_scan", [frame[p] EXCEPT !.from = buffer.out_offs])
    /\ UNCHANGED <<loaded, dev, sem, memory, file, wbuf>>

\* The search, and up_read.
Lookup(p) == find_entry_offset_for_fpos(buffer, frame[p].from, f_pos[p])

read_find_hit(p) ==
    /\ pc[p] = "r_scan"
    /\ Lookup(p).found
    /\ readers' = readers \ {p}
    /\ Continue(p, "r_size",
                [frame[p] EXCEPT
                    !.entry = Lookup(p).slot,
                    !.at_start = (Lookup(p).entry_offset_byte = 0)])
    /\ UNCHANGED <<loaded, dev, writer, memory, file, wbuf>>

read_find_miss_mutant(p) ==
    /\ pc[p] = "r_scan"
    /\ ~Lookup(p).found
    /\ buffer' = find_miss_reset(buffer)
    /\ Return(p)
    /\ UNCHANGED <<loaded, temp_char_buffer, sem, memory, file>>

read_find_miss(p) ==
    /\ pc[p] = "r_scan"
    /\ ~Lookup(p).found
    /\ buffer' = find_miss_reset(buffer)
    /\ readers' = readers \ {p}
    /\ Return(p)
    /\ UNCHANGED <<loaded, temp_char_buffer, writer, memory, file>>

\* entry->size is read without the lock; f_pos moves before the copy.
read_size(p) ==
    LET size   == buffer.entry[frame[p].entry].size
        retval == IF frame[p].count <= size THEN frame[p].count ELSE size
    IN  /\ pc[p] = "r_size"
        /\ f_pos' = [f_pos EXCEPT ![p] = @ + retval]
        /\ Continue(p, "r_ptr", frame[p])
        /\ UNCHANGED <<loaded, dev, sem, memory, opened, wbuf>>

read_ptr(p) ==
    /\ pc[p] = "r_ptr"
    /\ Continue(p, "r_copy",
                [frame[p] EXCEPT !.src = buffer.entry[frame[p].entry].buffptr])
    /\ UNCHANGED <<loaded, dev, sem, memory, file, wbuf>>

\* copy_to_user, from the start of the entry, is over, with or without EFAULT.
read_copied(p) ==
    /\ pc[p] = "r_copy"
    /\ Return(p)
    /\ UNCHANGED <<loaded, dev, sem, memory, file>>
-----------------------------------------------------------------------------
(***************************************************************************)
(* aesd_write.                                                             *)
(***************************************************************************)
NewBlock == nalloc + 1

\* kmalloc and copy_from_user succeed.
write_copy(p, count, newline) ==
    /\ pc[p] = "idle"
    /\ opened[p]
    /\ nalloc < MaxAllocs
    /\ nalloc' = NewBlock
    /\ heap' = heap \cup {NewBlock}
    /\ wbuf' = [wbuf EXCEPT ![p] = NewBlock]
    /\ Continue(p, "w_lock",
                [NoFrame EXCEPT !.count = count, !.newline = newline])
    /\ UNCHANGED <<loaded, dev, sem, file>>

\* One of them fails; what kmalloc returned is freed.
write_copy_fails(p) ==
    /\ pc[p] = "idle"
    /\ opened[p]
    /\ Return(p)
    /\ UNCHANGED <<loaded, dev, sem, memory, file>>

write_trylock_mutant(p) ==
    /\ pc[p] = "w_lock"
    /\ writer = NoProc
    /\ writer' = p
    /\ Continue(p, "w_body", frame[p])
    /\ UNCHANGED <<loaded, dev, readers, memory, file, wbuf>>

write_trylock(p) ==
    /\ pc[p] = "w_lock"
    /\ readers = {} /\ writer = NoProc
    /\ writer' = p
    /\ Continue(p, "w_body", frame[p])
    /\ UNCHANGED <<loaded, dev, readers, memory, file, wbuf>>

write_trylock_fails_mutant(p) ==
    /\ pc[p] = "w_lock"
    /\ readers # {} \/ writer # NoProc
    /\ UNCHANGED vars

\* Somebody holds the lock: the data is freed, yet count is returned.
write_trylock_fails(p) ==
    /\ pc[p] = "w_lock"
    /\ readers # {} \/ writer # NoProc
    /\ heap' = heap \ {wbuf[p]}
    /\ Return(p)
    /\ UNCHANGED <<loaded, dev, sem, nalloc, file>>

\* What strstr(buffer, "\n") reports.
SeesNewline(p) == frame[p].newline

write_partial_first(p) ==
    /\ pc[p] = "w_body"
    /\ ~SeesNewline(p)
    /\ temp_char_buffer = NULL
    /\ temp_char_buffer' = wbuf[p]
    /\ writer' = NoProc
    /\ Return(p)
    /\ UNCHANGED <<loaded, buffer, readers, memory, file>>

write_partial_concat_mutant(p) ==
    /\ pc[p] = "w_body"
    /\ ~SeesNewline(p)
    /\ temp_char_buffer # NULL
    /\ nalloc < MaxAllocs
    /\ nalloc' = NewBlock
    /\ heap' = (heap \cup {NewBlock}) \ {wbuf[p], temp_char_buffer}
    /\ writer' = NoProc
    /\ Return(p)
    /\ UNCHANGED <<loaded, dev, readers, file>>

write_partial_concat(p) ==
    /\ pc[p] = "w_body"
    /\ ~SeesNewline(p)
    /\ temp_char_buffer # NULL
    /\ nalloc < MaxAllocs
    /\ nalloc' = NewBlock
    /\ heap' = (heap \cup {NewBlock}) \ {wbuf[p], temp_char_buffer}
    /\ temp_char_buffer' = NewBlock
    /\ writer' = NoProc
    /\ Return(p)
    /\ UNCHANGED <<loaded, buffer, readers, file>>

\* kmalloc for the longer buffer returns NULL, which is not checked: strcpy
\* faults in the kernel.  The process dies, its file is closed, and the lock
\* stays taken.
write_partial_oops(p) ==
    /\ pc[p] = "w_body"
    /\ ~SeesNewline(p)
    /\ temp_char_buffer # NULL
    /\ Continue(p, "oops", NoFrame)
    /\ opened' = [opened EXCEPT ![p] = FALSE]
    /\ UNCHANGED <<loaded, dev, sem, memory, f_pos, wbuf>>

write_line(p) ==
    /\ pc[p] = "w_body"
    /\ SeesNewline(p)
    /\ buffer' = aesd_circular_buffer_add_entry(buffer,
                     [buffptr |-> wbuf[p], size |-> frame[p].count])
    /\ heap' = heap \ {add_entry_returned(buffer).buffptr}
    /\ writer' = NoProc
    /\ Return(p)
    /\ UNCHANGED <<loaded, temp_char_buffer, readers, nalloc, file>>
-----------------------------------------------------------------------------
ReadStep(p) ==
    \/ read_find_start(p)
    \/ read_find_hit(p)
    \/ read_find_miss(p)
    \/ read_size(p)
    \/ read_ptr(p)
    \/ read_copied(p)

WriteStep(p) ==
    \/ write_trylock(p)
    \/ write_trylock_fails(p)
    \/ write_partial_first(p)
    \/ write_partial_concat(p)
    \/ write_partial_oops(p)
    \/ write_line(p)

Call(p) ==
    \/ aesd_open(p)
    \/ aesd_release(p)
    \/ \E count \in Counts : read_trylock(p, count)
    \/ read_trylock_fails(p)
    \/ \E count \in Counts, newline \in BOOLEAN : write_copy(p, count, newline)
    \/ write_copy_fails(p)

Next ==
    \/ aesd_init_module
    \/ aesd_cleanup_module
    \/ \E p \in Procs : Call(p) \/ ReadStep(p) \/ WriteStep(p)

\* The kernel keeps running a process that is inside a call; nobody has to
\* make a call.
Fairness == \A p \in Procs : WF_vars(ReadStep(p) \/ WriteStep(p))

Spec == Init /\ [][Next]_vars

FairSpec == Spec /\ Fairness
-----------------------------------------------------------------------------
Labels == {"idle", "r_find", "r_scan", "r_size", "r_ptr", "r_copy",
           "w_lock", "w_body", "oops"}

TypeOK ==
    /\ loaded \in BOOLEAN
    /\ buffer \in Buffer
    /\ temp_char_buffer \in Nat
    /\ readers \subseteq Procs
    /\ writer \in Procs \cup {NoProc}
    /\ nalloc \in Nat
    /\ heap \subseteq 1..nalloc
    /\ opened \in [Procs -> BOOLEAN]
    /\ f_pos \in [Procs -> Nat]
    /\ pc \in [Procs -> Labels]
    /\ frame \in [Procs -> Frame]
    /\ wbuf \in [Procs -> Nat]

Stored == {buffer.entry[i].buffptr : i \in Slots} \ {NULL}

(***************************************************************************)
(* No dangling pointer in the device, whatever reads, failed reads, writes *)
(* and failed writes were interleaved: every block in a slot, in           *)
(* temp_char_buffer and in the hands of a writer is live, and no two of    *)
(* these owners hold the same block, so none of the kfree calls frees what *)
(* another owner still uses.                                               *)
(***************************************************************************)
OwnedBlocksLive ==
    /\ Stored \subseteq heap
    /\ \A i, j \in Slots :
          buffer.entry[i].buffptr = buffer.entry[j].buffptr =>
              i = j \/ buffer.entry[i].buffptr = NULL
    /\ temp_char_buffer # NULL => temp_char_buffer \in heap \ Stored
    /\ \A p \in Procs : wbuf[p] # NULL =>
          /\ wbuf[p] \in heap \ Stored
          /\ wbuf[p] # temp_char_buffer
          /\ \A q \in Procs : wbuf[q] = wbuf[p] => q = p

(***************************************************************************)
(* A write is dropped (freed, yet reported as complete) only while another *)
(* process is inside its critical section or died there: every path of     *)
(* aesd_read and aesd_write gives the semaphore back.                      *)
(***************************************************************************)
DroppedOnlyUnderContention ==
    [][\A p \in Procs :
          pc[p] = "w_lock" /\ pc'[p] = "idle" =>
              \E q \in Procs \ {p} :
                  pc[q] \in {"r_find", "r_scan", "w_body", "oops"}]_vars

(***************************************************************************)
(* A search that has copied out_offs sees entries that do not move until   *)
(* it ends, although the other readers it shares the lock with reset the   *)
(* indices under it (aesd-circular-buffer.c:46-48).                        *)
(***************************************************************************)
ScanSeesStableEntries ==
    [][\A p \in Procs :
          pc[p] = "r_scan" /\ pc'[p] = "r_scan" =>
              buffer'.entry = buffer.entry]_vars

(***************************************************************************)
(* A block that leaves its slot while the module is loaded is freed in the *)
(* same step: "Any memory referenced in add_entry must be allocated by     *)
(* and/or must have a lifetime managed by the caller"                      *)
(* (aesd-circular-buffer.c:58).                                            *)
(***************************************************************************)
OverwrittenEntriesFreed ==
    [][loaded /\ loaded' => Stored \cap heap' \subseteq Stored']_vars

(***************************************************************************)
(* copy_to_user runs on a live block: "Any necessary locking must be       *)
(* performed by caller" (aesd-circular-buffer.c:20) also while the entry   *)
(* that was found is in use.                                               *)
(***************************************************************************)
CopyFromLiveBlock ==
    \A p \in Procs : pc[p] = "r_copy" => frame[p].src \in heap

(***************************************************************************)
(* A read delivers the bytes at f_pos, "a specific position of circular    *)
(* buffer linear content" (main.c:60): since the copy starts at the first  *)
(* byte of the entry, f_pos must lie there.                                *)
(***************************************************************************)
ReadStartsAtFpos ==
    \A p \in Procs : pc[p] = "r_copy" => frame[p].at_start

(***************************************************************************)
(* Every call comes back: the trylocks never wait, so no process can keep  *)
(* another one inside a call, not even one that died holding the lock.     *)
(***************************************************************************)
CallsReturn ==
    \A p \in Procs : pc[p] # "idle" ~> pc[p] \in {"idle", "oops"}
=============================================================================
