------------------------------ MODULE Threading ------------------------------
(***************************************************************************)
(* examples/threading/threading.c: start_thread_obtaining_mutex, the       *)
(* threads it starts, and the caller that joins them and frees what they   *)
(* return.  Times are left out: a sleep may take any time.                 *)
(***************************************************************************)
EXTENDS Naturals

CONSTANTS
    Threads,   \* the pthread_t variables of the caller
    Mutexes,   \* the caller's mutexes
    Blocks,    \* memory for struct thread_data
    NULL, Nobody, Caller

ASSUME ThreadingAssumption ==
    /\ NULL \notin Blocks
    /\ Nobody \notin Threads /\ Caller \notin Threads /\ Nobody # Caller

VARIABLES
    pc,        \* per thread: its place, see Places
    param,     \* per thread: p_thread_data, or NULL
    heap,      \* blocks that were allocated and not freed
    data,      \* per block: struct thread_data without the times
    holder,    \* per mutex: who holds it
    crashed,   \* the process was killed
    orphans    \* history: blocks whose thread could not be created

vars == <<pc, param, heap, data, holder, crashed, orphans>>

\* "none": not started; "create": in start_thread_obtaining_mutex; the others
\* are the next call of threadfunc, up to its return.
Places == {"none", "create", "sleep", "lock", "unlock", "success", "returned"}

thread_data == [mutex : Mutexes, thread_complete_success : BOOLEAN]

Init ==
    /\ pc = [t \in Threads |-> "none"]
    /\ param = [t \in Threads |-> NULL]
    /\ heap = {}
    /\ data \in [Blocks -> thread_data]
    /\ holder = [m \in Mutexes |-> Nobody]
    /\ crashed = FALSE
    /\ orphans = {}

Mutex(t) == data[param[t]].mutex
-----------------------------------------------------------------------------
(* start_thread_obtaining_mutex *)

start_malloc_mutant(t, m) ==
    /\ pc[t] = "none"
    /\ \E b \in Blocks, garbage \in BOOLEAN :
          /\ heap' = heap \cup {b}
          /\ param' = [param EXCEPT ![t] = b]
          /\ data' = [data EXCEPT ![b] =
                        [mutex |-> m, thread_complete_success |-> garbage]]
    /\ pc' = [pc EXCEPT ![t] = "create"]
    /\ UNCHANGED <<holder, crashed, orphans>>

\* thread_complete_success is not set: it is whatever the memory holds.
start_malloc(t, m) ==
    /\ pc[t] = "none"
    /\ \E b \in Blocks \ heap, garbage \in BOOLEAN :
          /\ heap' = heap \cup {b}
          /\ param' = [param EXCEPT ![t] = b]
          /\ data' = [data EXCEPT ![b] =
                        [mutex |-> m, thread_complete_success |-> garbage]]
    /\ pc' = [pc EXCEPT ![t] = "create"]
    /\ UNCHANGED <<holder, crashed, orphans>>

start_malloc_fails_mutant(t) ==
    /\ pc[t] = "none"
    /\ pc' = [pc EXCEPT ![t] = "create"]
    /\ UNCHANGED <<param, heap, data, holder, crashed, orphans>>

\* The result of malloc is not tested: the next line writes through NULL.
start_malloc_fails(t) ==
    /\ pc[t] = "none"
    /\ crashed' = TRUE
    /\ UNCHANGED <<pc, param, heap, data, holder, orphans>>

start_create(t) ==
    /\ pc[t] = "create"
    /\ pc' = [pc EXCEPT ![t] = "sleep"]
    /\ UNCHANGED <<param, heap, data, holder, crashed, orphans>>

\* The function returns false, and nobody has the block any more.
start_create_fails(t) ==
    /\ pc[t] = "create"
    /\ pc' = [pc EXCEPT ![t] = "none"]
    /\ param' = [param EXCEPT ![t] = NULL]
    /\ orphans' = orphans \cup {param[t]}
    /\ UNCHANGED <<heap, data, holder, crashed>>
-----------------------------------------------------------------------------
(* threadfunc *)

thread_sleep(t) ==
    /\ pc[t] = "sleep"
    /\ pc' = [pc EXCEPT ![t] = "lock"]
    /\ UNCHANGED <<param, heap, data, holder, crashed, orphans>>

thread_lock(t) ==
    /\ pc[t] = "lock"
    /\ holder[Mutex(t)] = Nobody
    /\ holder' = [holder EXCEPT ![Mutex(t)] = t]
    /\ pc' = [pc EXCEPT ![t] = "unlock"]
    /\ UNCHANGED <<param, heap, data, crashed, orphans>>

\* The result of the lock is not tested: the thread goes on without the mutex.
thread_lock_fails(t) ==
    /\ pc[t] = "lock"
    /\ pc' = [pc EXCEPT ![t] = "unlock"]
    /\ UNCHANGED <<param, heap, data, holder, crashed, orphans>>

thread_unlock_mutant(t) ==
    /\ pc[t] = "unlock"
    /\ pc' = [pc EXCEPT ![t] = "success"]
    /\ UNCHANGED <<param, heap, data, holder, crashed, orphans>>

\* To unlock a mutex that one does not hold is an error or, on a mutex of the
\* default kind, undefined: it may take the mutex from who holds it.
thread_unlock(t) ==
    /\ pc[t] = "unlock"
    /\ \E h \in {Nobody, holder[Mutex(t)]} :
          /\ h # t
          /\ holder' = [holder EXCEPT ![Mutex(t)] = h]
    /\ pc' = [pc EXCEPT ![t] = "success"]
    /\ UNCHANGED <<param, heap, data, crashed, orphans>>

thread_success_mutant(t) ==
    /\ pc[t] = "success"
    /\ pc' = [pc EXCEPT ![t] = "returned"]
    /\ UNCHANGED <<param, heap, data, holder, crashed, orphans>>

thread_success(t) ==
    /\ pc[t] = "success"
    /\ data' = [data EXCEPT ![param[t]].thread_complete_success = TRUE]
    /\ pc' = [pc EXCEPT ![t] = "returned"]
    /\ UNCHANGED <<param, heap, holder, crashed, orphans>>
-----------------------------------------------------------------------------
(* The caller: it joins a thread and frees the block it gets, as threading.h *)
(* says, and uses the mutexes itself.                                        *)

caller_joins(t) ==
    /\ pc[t] = "returned"
    /\ heap' = heap \ {param[t]}
    /\ param' = [param EXCEPT ![t] = NULL]
    /\ pc' = [pc EXCEPT ![t] = "none"]
    /\ UNCHANGED <<data, holder, crashed, orphans>>

caller_locks(m) ==
    /\ holder[m] = Nobody
    /\ holder' = [holder EXCEPT ![m] = Caller]
    /\ UNCHANGED <<pc, param, heap, data, crashed, orphans>>

caller_unlocks(m) ==
    /\ holder[m] = Caller
    /\ holder' = [holder EXCEPT ![m] = Nobody]
    /\ UNCHANGED <<pc, param, heap, data, crashed, orphans>>
-----------------------------------------------------------------------------
\* A step of threadfunc in which no call fails.
thread_goes_on(t) ==
    /\ ~crashed
    /\ \/ thread_sleep(t) \/ thread_lock(t)
       \/ thread_unlock(t) \/ thread_success(t)

threadfunc(t) ==
    \/ thread_goes_on(t)
    \/ ~crashed /\ thread_lock_fails(t)

start_thread_obtaining_mutex(t) ==
    /\ ~crashed
    /\ \/ \E m \in Mutexes : start_malloc(t, m)
       \/ start_malloc_fails(t)
       \/ start_create(t) \/ start_create_fails(t)

Next ==
    \/ \E t \in Threads : threadfunc(t) \/ start_thread_obtaining_mutex(t)
    \/ /\ ~crashed
       /\ \/ \E t \in Threads : caller_joins(t)
          \/ \E m \in Mutexes : caller_locks(m) \/ caller_unlocks(m)

Spec == Init /\ [][Next]_vars

\* The threads are scheduled and the caller does not keep a mutex for ever.
\* Nothing is said of who gets a mutex that several wait for: a default mutex
\* may pass one of them over for ever.
FairSpec ==
    /\ Spec
    /\ \A t \in Threads : WF_vars(thread_goes_on(t))
    /\ \A m \in Mutexes : WF_vars(~crashed /\ caller_unlocks(m))
-----------------------------------------------------------------------------
(* Properties *)

\* The types; and a thread from its creation to its join has a block to
\* dereference (threading.c:17-27 never test p_thread_data).
TypeOK ==
    /\ pc \in [Threads -> Places]
    /\ param \in [Threads -> Blocks \cup {NULL}]
    /\ \A t \in Threads : pc[t] # "none" => param[t] \in Blocks
    /\ heap \subseteq Blocks
    /\ data \in [Blocks -> thread_data]
    /\ holder \in [Mutexes -> Threads \cup {Nobody, Caller}]
    /\ crashed \in BOOLEAN
    /\ orphans \subseteq Blocks

Owned == {param[t] : t \in {u \in Threads : pc[u] # "none"}}

\* From malloc to the join, the block of a thread is allocated and nobody
\* else's, also not one of a call that failed; and what is allocated beyond
\* that are the blocks of the calls that failed.
BlocksAccounted ==
    /\ heap = Owned \cup orphans
    /\ Owned \cap orphans = {}
    /\ \A t, u \in Threads :
          pc[t] # "none" /\ pc[u] # "none" /\ t # u => param[t] # param[u]

\* Who joins a thread reads that it succeeded, and the thread has given its
\* mutex back by then, if it had got it.  A mutex is held by the caller or by a
\* thread between its lock and its unlock.
JoinedIsDone ==
    /\ \A t \in Threads :
          pc[t] = "returned" => data[param[t]].thread_complete_success
    /\ \A m \in Mutexes, t \in Threads : holder[m] = t => pc[t] = "unlock"

\* A step in which the caller takes no mutex and starts no thread.
CallerStands ==
    /\ \A m \in Mutexes : holder'[m] = Caller => holder[m] = Caller
    /\ \A t \in Threads : pc[t] = "none" => pc'[t] = "none"

\* Threads that wait for one mutex do not keep each other from it for ever:
\* once the caller adds no more competition (no lock of its own, no new
\* thread), every thread that was started returns, unless the process is
\* killed.
ThreadsReturn ==
    <>[][CallerStands]_vars =>
        \A t \in Threads : pc[t] = "sleep" ~> pc[t] = "returned" \/ crashed
=============================================================================
