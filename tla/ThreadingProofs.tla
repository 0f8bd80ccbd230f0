--------------------------- MODULE ThreadingProofs ---------------------------
(* Theorems about Threading, for any number of threads, mutexes and blocks. *)
EXTENDS Threading, TLAPS

\* A mutex that a thread holds is the one its block names.
HoldersAgree ==
    \A m \in Mutexes, t \in Threads :
        holder[m] = t => pc[t] = "unlock" /\ m = Mutex(t)

IInv == TypeOK /\ BlocksAccounted /\ JoinedIsDone /\ HoldersAgree

(***************************************************************************)
(* The block of a thread that was started is allocated.                    *)
(***************************************************************************)
LEMMA ActiveBlock ==
    ASSUME IInv, NEW t \in Threads, pc[t] # "none"
    PROVE  /\ param[t] \in Blocks /\ param[t] \in heap
           /\ param[t] \in Owned /\ param[t] \notin orphans
           /\ data[param[t]] \in thread_data /\ Mutex(t) \in Mutexes
<1>1. param[t] \in Owned
  BY DEF Owned
<1>2. param[t] \in heap /\ param[t] \notin orphans
  BY <1>1 DEF IInv, BlocksAccounted
<1>3. data[param[t]] \in thread_data
  BY <1>2 DEF IInv, TypeOK
<1> QED
  BY <1>1, <1>2, <1>3 DEF IInv, TypeOK, Mutex, thread_data

(***************************************************************************)
(* A step of a started thread that keeps it started and moves no block.    *)
(***************************************************************************)
LEMMA BlocksUnchanged ==
    ASSUME IInv, NEW t \in Threads, pc[t] # "none",
           NEW l \in Places, l # "none", pc' = [pc EXCEPT ![t] = l],
           UNCHANGED <<param, heap, orphans>>
    PROVE  BlocksAccounted'
<1>1. {u \in Threads : pc'[u] # "none"} = {u \in Threads : pc[u] # "none"}
  BY DEF IInv, TypeOK
<1>2. Owned' = Owned
  BY <1>1 DEF Owned
<1> QED
  BY <1>1, <1>2 DEF IInv, BlocksAccounted, TypeOK

(***************************************************************************)
(* malloc succeeds.                                                        *)
(***************************************************************************)
LEMMA MallocStep ==
    ASSUME IInv, NEW t \in Threads, NEW m \in Mutexes, start_malloc(t, m)
    PROVE  IInv'
<1>1. PICK b \in Blocks \ heap, garbage \in BOOLEAN :
          /\ heap' = heap \cup {b}
          /\ param' = [param EXCEPT ![t] = b]
          /\ data' = [data EXCEPT ![b] =
                        [mutex |-> m, thread_complete_success |-> garbage]]
  BY DEF start_malloc
<1>2. /\ pc[t] = "none" /\ pc' = [pc EXCEPT ![t] = "create"]
      /\ UNCHANGED <<holder, crashed, orphans>>
  BY DEF start_malloc
<1>3. [mutex |-> m, thread_complete_success |-> garbage] \in thread_data
  BY DEF thread_data
<1>4. TypeOK'
  BY <1>1, <1>2, <1>3 DEF IInv, TypeOK, Places
<1>5. /\ pc'[t] = "create" /\ param'[t] = b
      /\ \A u \in Threads \ {t} : pc'[u] = pc[u] /\ param'[u] = param[u]
  BY <1>1, <1>2 DEF IInv, TypeOK
<1>6. Owned' = Owned \cup {b}
  BY <1>2, <1>5 DEF Owned
<1>7. b \notin Owned /\ b \notin orphans
  BY <1>1 DEF IInv, BlocksAccounted
<1>8. \A u \in Threads \ {t} : pc[u] # "none" => param[u] # b
  BY <1>7 DEF Owned
<1>9. BlocksAccounted'
  BY <1>1, <1>2, <1>5, <1>6, <1>7, <1>8 DEF IInv, BlocksAccounted
<1>10. \A u \in Threads \ {t} :
           pc[u] # "none" => data'[param'[u]] = data[param[u]]
  BY <1>1, <1>5, <1>8, ActiveBlock DEF IInv, TypeOK
<1>11. JoinedIsDone'
  BY <1>2, <1>5, <1>10 DEF IInv, JoinedIsDone
<1>12. HoldersAgree'
  BY <1>2, <1>5, <1>10 DEF IInv, HoldersAgree, Mutex
<1> QED
  BY <1>4, <1>9, <1>11, <1>12 DEF IInv

(***************************************************************************)
(* A thread loses its block: to the caller that joins it, or to nobody     *)
(* when it could not be created.                                           *)
(***************************************************************************)
LEMMA LosesBlock ==
    ASSUME IInv, NEW t \in Threads, pc[t] \in {"create", "returned"},
           pc' = [pc EXCEPT ![t] = "none"],
           param' = [param EXCEPT ![t] = NULL],
           UNCHANGED <<data, holder, crashed>>,
           \/ heap' = heap \ {param[t]} /\ orphans' = orphans
           \/ heap' = heap /\ orphans' = orphans \cup {param[t]}
    PROVE  IInv'
<1>1. /\ param[t] \in Blocks /\ param[t] \in heap
      /\ param[t] \in Owned /\ param[t] \notin orphans
  BY ActiveBlock
<1>2. TypeOK'
  BY <1>1 DEF IInv, TypeOK, Places
<1>3. /\ pc'[t] = "none"
      /\ \A u \in Threads \ {t} : pc'[u] = pc[u] /\ param'[u] = param[u]
  BY DEF IInv, TypeOK
<1>4. Owned' = Owned \ {param[t]}
  <2>1. \A u \in Threads \ {t} : pc[u] # "none" => param[u] # param[t]
    BY DEF IInv, BlocksAccounted
  <2> QED
    BY <1>3, <2>1 DEF Owned
<1>5. BlocksAccounted'
  BY <1>1, <1>3, <1>4 DEF IInv, BlocksAccounted
<1>6. JoinedIsDone'
  BY <1>3 DEF IInv, JoinedIsDone
<1>7. HoldersAgree'
  BY <1>3 DEF IInv, HoldersAgree, Mutex
<1> QED
  BY <1>2, <1>5, <1>6, <1>7 DEF IInv

(***************************************************************************)
(* The steps of threadfunc, and its creation.                              *)
(***************************************************************************)
LEMMA ThreadStep ==
    ASSUME IInv, NEW t \in Threads,
           \/ start_create(t) \/ thread_sleep(t) \/ thread_lock(t)
           \/ thread_lock_fails(t) \/ thread_unlock(t) \/ thread_success(t)
    PROVE  IInv'
<1>1. pc[t] # "none"
  BY DEF start_create, thread_sleep, thread_lock, thread_lock_fails,
         thread_unlock, thread_success
<1>2. /\ param[t] \in Blocks /\ Mutex(t) \in Mutexes
      /\ data[param[t]] \in thread_data
  BY <1>1, ActiveBlock
<1>3. CASE start_create(t) \/ thread_sleep(t) \/ thread_lock_fails(t)
  <2>1. PICK l \in {"sleep", "lock", "unlock"} : pc' = [pc EXCEPT ![t] = l]
    BY <1>3 DEF start_create, thread_sleep, thread_lock_fails
  <2>2. /\ UNCHANGED <<param, heap, data, holder, crashed, orphans>>
        /\ pc[t] \in {"create", "sleep", "lock"}
    BY <1>3 DEF start_create, thread_sleep, thread_lock_fails
  <2>3. TypeOK'
    BY <2>1, <2>2 DEF IInv, TypeOK, Places
  <2>4. BlocksAccounted'
    BY <1>1, <2>1, <2>2, BlocksUnchanged DEF Places
  <2>5. JoinedIsDone' /\ HoldersAgree'
    BY <2>1, <2>2 DEF IInv, TypeOK, JoinedIsDone, HoldersAgree, Mutex
  <2> QED
    BY <2>3, <2>4, <2>5 DEF IInv
<1>4. CASE thread_lock(t)
  <2>1. /\ pc[t] = "lock" /\ holder[Mutex(t)] = Nobody
        /\ holder' = [holder EXCEPT ![Mutex(t)] = t]
        /\ pc' = [pc EXCEPT ![t] = "unlock"]
        /\ UNCHANGED <<param, heap, data, crashed, orphans>>
    BY <1>4 DEF thread_lock
  <2>2. TypeOK'
    BY <1>2, <2>1 DEF IInv, TypeOK, Places
  <2>3. BlocksAccounted'
    BY <1>1, <2>1, BlocksUnchanged DEF Places
  <2>4. HoldersAgree'
    BY <1>2, <2>1 DEF IInv, TypeOK, HoldersAgree, Mutex
  <2>5. JoinedIsDone'
    BY <2>1, <2>4 DEF IInv, TypeOK, JoinedIsDone, HoldersAgree
  <2> QED
    BY <2>2, <2>3, <2>4, <2>5 DEF IInv
<1>5. CASE thread_unlock(t)
  <2>1. /\ pc[t] = "unlock"
        /\ pc' = [pc EXCEPT ![t] = "success"]
        /\ UNCHANGED <<param, heap, data, crashed, orphans>>
    BY <1>5 DEF thread_unlock
  <2>a. PICK h \in {Nobody, holder[Mutex(t)]} :
            h # t /\ holder' = [holder EXCEPT ![Mutex(t)] = h]
    BY <1>5 DEF thread_unlock
  <2>2. TypeOK'
    BY <1>2, <2>1, <2>a DEF IInv, TypeOK, Places
  <2>3. BlocksAccounted'
    BY <1>1, <2>1, BlocksUnchanged DEF Places
  <2>4. HoldersAgree'
    BY <1>2, <2>1, <2>a, ThreadingAssumption
    DEF IInv, TypeOK, HoldersAgree, Mutex
  <2>5. JoinedIsDone'
    BY <2>1, <2>4 DEF IInv, TypeOK, JoinedIsDone, HoldersAgree
  <2> QED
    BY <2>2, <2>3, <2>4, <2>5 DEF IInv
<1>6. CASE thread_success(t)
  <2> DEFINE d == [data[param[t]] EXCEPT !.thread_complete_success = TRUE]
  <2>1. /\ pc[t] = "success"
        /\ data' = [data EXCEPT ![param[t]] = d]
        /\ pc' = [pc EXCEPT ![t] = "returned"]
        /\ UNCHANGED <<param, heap, holder, crashed, orphans>>
    BY <1>2, <1>6 DEF thread_success, IInv, TypeOK
  <2>2. /\ d \in thread_data /\ d.thread_complete_success
        /\ d.mutex = data[param[t]].mutex
    BY <1>2 DEF thread_data
  <2> HIDE DEF d
  <2>3. TypeOK'
    BY <1>2, <2>1, <2>2 DEF IInv, TypeOK, Places
  <2>4. BlocksAccounted'
    BY <1>1, <2>1, BlocksUnchanged DEF Places
  <2>5. /\ data'[param'[t]] = d /\ pc'[t] = "returned"
        /\ \A u \in Threads \ {t} :
              /\ pc'[u] = pc[u] /\ param'[u] = param[u]
              /\ pc[u] # "none" => data'[param[u]] = data[param[u]]
    BY <1>1, <1>2, <2>1, ActiveBlock DEF IInv, TypeOK, BlocksAccounted
  <2>6. HoldersAgree'
    BY <2>1, <2>5 DEF IInv, HoldersAgree, Mutex
  <2>7. JoinedIsDone'
    BY <2>1, <2>2, <2>5, <2>6 DEF IInv, JoinedIsDone, HoldersAgree
  <2> QED
    BY <2>3, <2>4, <2>6, <2>7 DEF IInv
<1> QED
  BY <1>3, <1>4, <1>5, <1>6

(***************************************************************************)
(* The caller uses a mutex.                                                *)
(***************************************************************************)
LEMMA CallerMutexStep ==
    ASSUME IInv, NEW m \in Mutexes, caller_locks(m) \/ caller_unlocks(m)
    PROVE  IInv'
<1>1. PICK h \in {Nobody, Caller} : holder' = [holder EXCEPT ![m] = h]
  BY DEF caller_locks, caller_unlocks
<1>2. UNCHANGED <<pc, param, heap, data, crashed, orphans>>
  BY DEF caller_locks, caller_unlocks
<1>3. TypeOK'
  BY <1>1, <1>2 DEF IInv, TypeOK
<1>4. BlocksAccounted'
  BY <1>2 DEF IInv, BlocksAccounted, Owned
<1>5. HoldersAgree'
  BY <1>1, <1>2, ThreadingAssumption DEF IInv, TypeOK, HoldersAgree, Mutex
<1>6. JoinedIsDone'
  BY <1>2, <1>5 DEF IInv, JoinedIsDone, HoldersAgree
<1> QED
  BY <1>3, <1>4, <1>5, <1>6 DEF IInv

(***************************************************************************)
(* The invariant of the threads, their blocks and their mutexes.           *)
(***************************************************************************)
THEOREM ThreadingInvariant == Spec => []IInv
<1>1. ASSUME Init PROVE IInv
  <2>1. TypeOK
    BY <1>1 DEF Init, TypeOK, Places
  <2>2. Owned = {}
    BY <1>1 DEF Init, Owned
  <2> QED
    BY <1>1, <2>1, <2>2, ThreadingAssumption
    DEF Init, IInv, BlocksAccounted, JoinedIsDone, HoldersAgree
<1>2. ASSUME IInv, [Next]_vars PROVE IInv'
  <2>1. CASE UNCHANGED vars
    BY <1>2, <2>1 DEF IInv, TypeOK, BlocksAccounted, JoinedIsDone, HoldersAgree,
                      Owned, Mutex, vars
  <2>2. ASSUME NEW t \in Threads, start_malloc_fails(t) PROVE IInv'
    BY <1>2, <2>2 DEF start_malloc_fails, IInv, TypeOK, BlocksAccounted,
                      JoinedIsDone, HoldersAgree, Owned, Mutex
  <2>3. ASSUME NEW t \in Threads, start_create_fails(t) PROVE IInv'
    BY <1>2, <2>3, LosesBlock DEF start_create_fails
  <2>4. ASSUME NEW t \in Threads, caller_joins(t) PROVE IInv'
    BY <1>2, <2>4, LosesBlock DEF caller_joins
  <2> QED
    BY <1>2, <2>1, <2>2, <2>3, <2>4, MallocStep, ThreadStep, CallerMutexStep
    DEF Next, threadfunc, thread_goes_on, start_thread_obtaining_mutex
<1> QED
  BY <1>1, <1>2, PTL DEF Spec

(***************************************************************************)
(* TypeOK: from its creation to its join a thread has a block, which is    *)
(* what threadfunc dereferences without a test; a failed malloc leads to   *)
(* no thread with a NULL parameter, as the process has died by then.       *)
(***************************************************************************)
THEOREM ThreadingTypes == Spec => []TypeOK
<1>1. IInv => TypeOK
  BY DEF IInv
<1> QED
  BY <1>1, ThreadingInvariant, PTL

(***************************************************************************)
(* Every thread uses a block that is allocated and its own, and only the   *)
(* blocks of threads that could not be created are lost (BlocksAccounted). *)
(***************************************************************************)
THEOREM BlocksAlwaysAccounted == Spec => []BlocksAccounted
<1>1. IInv => BlocksAccounted
  BY DEF IInv
<1> QED
  BY <1>1, ThreadingInvariant, PTL

(***************************************************************************)
(* A thread that can be joined has set its result and given back its mutex *)
(* (JoinedIsDone).                                                         *)
(***************************************************************************)
THEOREM JoinedAlwaysDone == Spec => []JoinedIsDone
<1>1. IInv => JoinedIsDone
  BY DEF IInv
<1> QED
  BY <1>1, ThreadingInvariant, PTL
=============================================================================
