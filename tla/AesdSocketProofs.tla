-------------------------- MODULE AesdSocketProofs --------------------------
(***************************************************************************)
(* Theorems about AesdSocket, for every number of connections, chunks,     *)
(* timer expiries, thread names and signals.                               *)
(***************************************************************************)
EXTENDS AesdSocket, TLAPS, WellFoundedInduction

\* A signal interrupts accept only once, and worker n starts after the n-th
\* accept.
AcceptCounted ==
    /\ accepted = MaxAccepts + 1 =>
          EXIT_SIGNAL /\ mpc \notin {"accept", "accepting"}
    /\ mpc = "spawn" => accepted # 0 /\ wpc[accepted] = "none"
    /\ mpc = "insert" => accepted # 0 /\ tid[accepted] \in Tids
    /\ \A w \in Workers : w > accepted => wpc[w] = "none"

Started(w) == wpc[w] # "none"

\* Only the newest worker may still have to be joined, only main's walk over
\* the list may be on the way to it, and its name lies ahead of the cursor.
JoinAgrees ==
    /\ \A w \in Workers : tid[w] = Nobody <=> wpc[w] = "none"
    /\ \A w \in joined : wpc[w] = "exited"
    /\ \A w \in Workers \ joined : Started(w) => w = accepted
    /\ \A w \in Workers \ joined : Started(w) =>
          mpc \in {"insert", "reap", "killed"}
    /\ \A w \in Workers \ joined : Started(w) /\ mpc = "reap" =>
          \E i \in DOMAIN head : i >= cursor /\ head[i] = tid[w]

\* A timer thread writes to an open stream only with the mutex; the stream is
\* open until the cleanup.
LockAgrees ==
    /\ MutexHolderInside
    /\ \A x \in Expiries : tpc[x] = "write" => mutex = x \/ destroyed
    /\ mpc \notin {"exited", "killed"} =>
          (fp_open <=> mpc \notin {"destroy", "remove"})
    /\ destroyed => ~fp_open /\ mpc \in {"remove", "exited", "killed"}

\* Who has records in the stream, and that those of the worker that holds
\* the mutex come last.
StreamAgrees ==
    /\ \A i \in DOMAIN written, w \in Workers :
          written[i].by = w => wpc[w] \notin {"none", "start"}
    /\ \A i \in DOMAIN written, x \in Expiries :
          written[i].by = x => tpc[x] = "done"
    /\ \A w \in Workers : wpc[w] \in {"loop", "recv", "send"} =>
          \A i, j \in DOMAIN written :
              i < j /\ written[i].by = w => written[j].by = w
    /\ PacketsContiguous

Line(w) == [by |-> w, kind |-> "line"]

\* A line ends its worker's loop: while it is sent back it is the last
\* record and flushed.
ReplyAgrees ==
    /\ \A i \in DOMAIN written, w \in Workers :
          written[i] = Line(w) => wpc[w] \in {"send", "leave", "exited"}
    /\ \A i \in DOMAIN written, w \in Workers :
          written[i] = Line(w) /\ wpc[w] = "send" =>
              i = Len(written) /\ flushed = Len(written)
    /\ \A w \in Workers : reply[w] # NoReply => wpc[w] \in {"leave", "exited"}
    /\ ReplyEndsWithOwnLine

\* A connection that its client did not reset is open only while its worker
\* is at it.
ConnAgrees ==
    \A w \in Workers : conn[w] \in {"open", "eof"} =>
        wpc[w] \in {"start", "loop", "recv", "send"}

\* Timestamps are the timer's, and nothing comes from a socket that is -1.
RecordsAgree ==
    \A i \in DOMAIN written, w \in Workers : written[i].by = w =>
        written[i].kind # "stamp" /\ conn[w] # "bad"

\* Nobody was sent more than what is in the file; the cleanup finds all of the
\* stream there, and the file goes with the process.
FileAgrees ==
    /\ \A w \in Workers : reply[w] <= flushed
    /\ mpc \in {"destroy", "remove"} => flushed = Len(written)
    /\ removed => mpc = "exited"

\* The inductive invariant.
IInv ==
    /\ TypeOK
    /\ AcceptCounted
    /\ JoinAgrees
    /\ LockAgrees
    /\ StreamAgrees
    /\ ReplyAgrees
    /\ ConnAgrees
    /\ RecordsAgree
    /\ FileAgrees
-----------------------------------------------------------------------------
(***************************************************************************)
(* A step of the specification is a step of one of its actions.            *)
(***************************************************************************)
LEMMA NextCases ==
    ASSUME Next
    PROVE
           \/ loop_check \/ accept_call \/ check_thread_exit
           \/ check_thread_exit_done \/ release_all_thread \/ close_stream
           \/ destroy_mutex \/ remove_file \/ spawn_fails
           \/ insert_node \/ node_malloc_fails
           \/ \E t \in Tids : spawn(t)
           \/ \E fd \in {"open", "bad"} : accept_returns(fd)
           \/ \E s \in Signals : sigint_handler(s) \/ signal_default_action(s)
           \/ \E w \in Workers :
                 \/ worker_lock(w) \/ worker_check(w) \/ recv_line(w)
                 \/ recv_part(w) \/ recv_eof(w) \/ recv_eof_again(w)
                 \/ recv_error(w) \/ send_file_to_client(w)
                 \/ send_file_crashes(w) \/ send_sigpipe(w) \/ worker_exit(w)
           \/ \E x \in Expiries :
                 \/ timer_expires(x) \/ timer_lock(x) \/ timer_write(x)
                 \/ timer_write_closed(x)
BY DEF Next, MainStep, WorkerStep, ClientStep, TimerStep

(***************************************************************************)
(* A process that was killed takes no step.                                *)
(***************************************************************************)
LEMMA NextIsAlive ==
    ASSUME Next
    PROVE  mpc # "killed"
BY NextCases
DEF loop_check, accept_call, check_thread_exit, check_thread_exit_done,
    release_all_thread, close_stream, destroy_mutex, remove_file, spawn_fails,
    insert_node, node_malloc_fails, spawn, accept_returns, sigint_handler,
    signal_default_action, worker_lock, worker_check, recv_line, recv_part,
    recv_eof, recv_eof_again, recv_error, send_file_to_client,
    send_file_crashes, send_sigpipe, worker_exit, timer_expires, timer_lock,
    timer_write, timer_write_closed, Running

(***************************************************************************)
(* What Append does to a sequence, position by position.                   *)
(***************************************************************************)
LEMMA AppendFacts ==
    ASSUME NEW S, NEW s \in Seq(S), NEW r \in S
    PROVE  /\ Append(s, r) \in Seq(S)
           /\ Len(s) \in Nat
           /\ Len(Append(s, r)) = Len(s) + 1
           /\ DOMAIN s = 1..Len(s)
           /\ DOMAIN Append(s, r) = 1..(Len(s) + 1)
           /\ \A i \in DOMAIN s : Append(s, r)[i] = s[i]
           /\ Append(s, r)[Len(s) + 1] = r
OBVIOUS

(***************************************************************************)
(* The numbers of the workers.                                             *)
(***************************************************************************)
LEMMA WorkersAreNumbers ==
    /\ Workers \subseteq Nat
    /\ \A n \in Nat : n \in Workers <=> n # 0 /\ n <= MaxAccepts + 1
BY ServerAssumption DEF Workers

(***************************************************************************)
(* Every action keeps the types.                                           *)
(***************************************************************************)
LEMMA TypeStep ==
    ASSUME TypeOK, AcceptCounted, [Next]_vars
    PROVE  TypeOK'
<1> USE DEF main, sig, worker, lock, stream, TypeOK, AcceptCounted
<1>1. CASE UNCHANGED vars
  BY <1>1 DEF vars
<1>2. CASE loop_check
  BY <1>2 DEF loop_check
<1>3. CASE accept_call
  BY <1>3 DEF accept_call
<1>4. CASE check_thread_exit
  BY <1>4 DEF check_thread_exit, pthread_join, Unjoined
<1>5. CASE check_thread_exit_done
  BY <1>5 DEF check_thread_exit_done
<1>6. CASE release_all_thread
  <2>1. Tail(head) \in Seq(Tids)
    BY <1>6 DEF release_all_thread
  <2> QED
    BY <1>6, <2>1 DEF release_all_thread, pthread_join, Unjoined
<1>7. CASE close_stream
  <2>1. Len(written) \in 0..Len(written)
    BY AppendFacts
  <2> QED
    BY <1>7, <2>1 DEF close_stream
<1>8. CASE destroy_mutex
  BY <1>8 DEF destroy_mutex
<1>9. CASE remove_file
  BY <1>9 DEF remove_file
<1>10. CASE spawn_fails
  <2>1. Len(written) \in 0..Len(written)
    BY AppendFacts
  <2> QED
    BY <1>10, <2>1 DEF spawn_fails
<1>10a. CASE insert_node
  <2>1. Append(head, tid[accepted]) \in Seq(Tids)
    BY <1>10a, AppendFacts DEF insert_node
  <2> QED
    BY <1>10a, <2>1 DEF insert_node
<1>10b. CASE node_malloc_fails
  BY <1>10b DEF node_malloc_fails
<1>11. ASSUME NEW t \in Tids, spawn(t) PROVE TypeOK'
  BY <1>11, ServerAssumption, WorkersAreNumbers DEF spawn
<1>12. ASSUME NEW fd \in {"open", "bad"}, accept_returns(fd) PROVE TypeOK'
  BY <1>12, ServerAssumption, WorkersAreNumbers DEF accept_returns
<1>13. ASSUME NEW s \in Signals, sigint_handler(s) PROVE TypeOK'
  <2>1. accepted' \in 0..(MaxAccepts + 1)
    BY <1>13, ServerAssumption DEF sigint_handler
  <2> QED
    BY <1>13, <2>1 DEF sigint_handler
<1>14. ASSUME NEW s \in Signals, signal_default_action(s) PROVE TypeOK'
  BY <1>14 DEF signal_default_action
<1>15. ASSUME NEW w \in Workers, worker_lock(w) PROVE TypeOK'
  BY <1>15 DEF worker_lock, Goto
<1>16. ASSUME NEW w \in Workers, worker_check(w) PROVE TypeOK'
  BY <1>16 DEF worker_check, Goto
<1>17. ASSUME NEW w \in Workers, recv_line(w) PROVE TypeOK'
  <2>1. [by |-> w, kind |-> "line"] \in Record
    BY ServerAssumption DEF Record
  <2>2. written' \in Seq(Record) /\ flushed' \in 0..Len(written')
    BY <1>17, <2>1, AppendFacts DEF recv_line, Goto, WriteAndFlush
  <2> QED
    BY <1>17, <2>2 DEF recv_line, Goto, WriteAndFlush
<1>18. ASSUME NEW w \in Workers, recv_part(w) PROVE TypeOK'
  <2> DEFINE r == [by |-> w, kind |-> "part"]
  <2>1. r \in Record
    BY ServerAssumption DEF Record
  <2>2. written' = Append(written, r) /\ flushed' \in flushed..Len(written')
    BY <1>18, <2>1, AppendFacts DEF recv_part, Write, WriteAndFlush
  <2>3. written' \in Seq(Record) /\ flushed' \in 0..Len(written')
    BY <2>1, <2>2, AppendFacts
  <2>4. wpc' \in {[wpc EXCEPT ![w] = "loop"], [wpc EXCEPT ![w] = "send"]}
    BY <1>18 DEF recv_part, Goto
  <2>5. UNCHANGED <<fp_open, removed>>
    BY <1>18 DEF recv_part, Write, WriteAndFlush
  <2>6. wpc' \in [Workers -> {"none", "start", "loop", "recv", "send", "leave",
                              "exited"}]
    BY <2>4
  <2>7. UNCHANGED <<mpc, main, sig, tid, joined, conn, reply, tpc, lock>>
    BY <1>18 DEF recv_part
  <2> QED
    BY <2>3, <2>5, <2>6, <2>7
<1>19. ASSUME NEW w \in Workers, recv_eof(w) PROVE TypeOK'
  <2>1. Len(written) \in 0..Len(written)
    BY AppendFacts
  <2>2. flushed' \in 0..Len(written)
    BY <1>19, <2>1 DEF recv_eof
  <2> QED
    BY <1>19, <2>2 DEF recv_eof, Goto
<1>20. ASSUME NEW w \in Workers, recv_eof_again(w) PROVE TypeOK'
  BY <1>20 DEF recv_eof_again, Goto
<1>21. ASSUME NEW w \in Workers, recv_error(w) PROVE TypeOK'
  BY <1>21 DEF recv_error, Goto
<1>22. ASSUME NEW w \in Workers, send_file_to_client(w) PROVE TypeOK'
  BY <1>22 DEF send_file_to_client, Goto
<1>23. ASSUME NEW w \in Workers, send_sigpipe(w) PROVE TypeOK'
  BY <1>23 DEF send_sigpipe
<1>24. ASSUME NEW w \in Workers, worker_exit(w) PROVE TypeOK'
  BY <1>24 DEF worker_exit, Goto
<1>25. ASSUME NEW x \in Expiries, timer_expires(x) PROVE TypeOK'
  BY <1>25 DEF timer_expires
<1>26. ASSUME NEW x \in Expiries, timer_lock(x) PROVE TypeOK'
  BY <1>26 DEF timer_lock
<1>27. ASSUME NEW x \in Expiries, timer_write(x) PROVE TypeOK'
  <2>1. [by |-> x, kind |-> "stamp"] \in Record
    BY ServerAssumption DEF Record
  <2>2. written' \in Seq(Record) /\ flushed' \in 0..Len(written')
    BY <1>27, <2>1, AppendFacts DEF timer_write, Write, timer_unlock
  <2> QED
    BY <1>27, <2>2 DEF timer_write, Write, timer_unlock
<1>28. ASSUME NEW x \in Expiries, timer_write_closed(x) PROVE TypeOK'
  BY <1>28 DEF timer_write_closed, timer_unlock
<1>29. ASSUME NEW w \in Workers, send_file_crashes(w) PROVE TypeOK'
  BY <1>29 DEF send_file_crashes
<1> QED
  BY <1>1, <1>2, <1>3, <1>4, <1>5, <1>6, <1>7, <1>8, <1>9, <1>10,
     <1>10a, <1>10b, <1>11, <1>12, <1>13, <1>14, <1>15, <1>16, <1>17, <1>18, <1>19, <1>20, <1>21,
     <1>22, <1>23, <1>24, <1>25, <1>26, <1>27, <1>28, <1>29, NextCases

(***************************************************************************)
(* Every action keeps the count of accepted connections.                   *)
(***************************************************************************)
LEMMA AcceptStep ==
    ASSUME TypeOK, AcceptCounted, [Next]_vars
    PROVE  AcceptCounted'
<1> USE DEF main, sig, worker, lock, stream, TypeOK, AcceptCounted
<1>1. CASE UNCHANGED vars
  BY <1>1 DEF vars
<1>2. CASE loop_check
  BY <1>2, ServerAssumption, WorkersAreNumbers DEF loop_check
<1>3. CASE accept_call
  BY <1>3 DEF accept_call
<1>4. CASE check_thread_exit
  BY <1>4 DEF check_thread_exit, pthread_join
<1>5. CASE check_thread_exit_done
  BY <1>5 DEF check_thread_exit_done
<1>6. CASE release_all_thread
  BY <1>6 DEF release_all_thread, pthread_join
<1>7. CASE close_stream
  BY <1>7 DEF close_stream
<1>8. CASE destroy_mutex
  BY <1>8 DEF destroy_mutex
<1>9. CASE remove_file
  BY <1>9 DEF remove_file
<1>10. CASE spawn_fails
  BY <1>10 DEF spawn_fails
<1>10a. CASE insert_node
  BY <1>10a DEF insert_node
<1>10b. CASE node_malloc_fails
  BY <1>10b DEF node_malloc_fails
<1>11. ASSUME NEW t \in Tids, spawn(t) PROVE AcceptCounted'
  BY <1>11, ServerAssumption, WorkersAreNumbers DEF spawn
<1>12. ASSUME NEW fd \in {"open", "bad"}, accept_returns(fd)
       PROVE  AcceptCounted'
  BY <1>12, ServerAssumption, WorkersAreNumbers DEF accept_returns
<1>13. ASSUME NEW s \in Signals, sigint_handler(s) PROVE AcceptCounted'
  BY <1>13, ServerAssumption, WorkersAreNumbers DEF sigint_handler
<1>14. ASSUME NEW s \in Signals, signal_default_action(s)
       PROVE  AcceptCounted'
  BY <1>14 DEF signal_default_action
<1>15. ASSUME NEW w \in Workers, worker_lock(w) PROVE AcceptCounted'
  BY <1>15 DEF worker_lock, Goto
<1>16. ASSUME NEW w \in Workers, worker_check(w) PROVE AcceptCounted'
  BY <1>16 DEF worker_check, Goto
<1>17. ASSUME NEW w \in Workers, recv_line(w) PROVE AcceptCounted'
  BY <1>17 DEF recv_line, Goto, WriteAndFlush
<1>18. ASSUME NEW w \in Workers, recv_part(w) PROVE AcceptCounted'
  <2>1. wpc' \in {[wpc EXCEPT ![w] = "loop"], [wpc EXCEPT ![w] = "send"]}
    BY <1>18 DEF recv_part, Goto
  <2>2. wpc[w] = "recv" /\ UNCHANGED <<mpc, accepted, EXIT_SIGNAL, tid>>
    BY <1>18 DEF recv_part
  <2> QED
    BY <2>1, <2>2, WorkersAreNumbers
<1>19. ASSUME NEW w \in Workers, recv_eof(w) PROVE AcceptCounted'
  <2>1. wpc' \in {[wpc EXCEPT ![w] = "loop"], [wpc EXCEPT ![w] = "send"]}
    BY <1>19 DEF recv_eof, Goto
  <2>2. wpc[w] = "recv" /\ UNCHANGED <<mpc, accepted, EXIT_SIGNAL, tid>>
    BY <1>19 DEF recv_eof
  <2> QED
    BY <2>1, <2>2, WorkersAreNumbers
<1>20. ASSUME NEW w \in Workers, recv_eof_again(w) PROVE AcceptCounted'
  BY <1>20 DEF recv_eof_again, Goto
<1>21. ASSUME NEW w \in Workers, recv_error(w) PROVE AcceptCounted'
  BY <1>21 DEF recv_error, Goto
<1>22. ASSUME NEW w \in Workers, send_file_to_client(w) PROVE AcceptCounted'
  BY <1>22 DEF send_file_to_client, Goto
<1>23. ASSUME NEW w \in Workers, send_sigpipe(w) PROVE AcceptCounted'
  BY <1>23 DEF send_sigpipe
<1>24. ASSUME NEW w \in Workers, worker_exit(w) PROVE AcceptCounted'
  BY <1>24 DEF worker_exit, Goto
<1>25. ASSUME NEW x \in Expiries, timer_expires(x) PROVE AcceptCounted'
  BY <1>25 DEF timer_expires
<1>26. ASSUME NEW x \in Expiries, timer_lock(x) PROVE AcceptCounted'
  BY <1>26 DEF timer_lock
<1>27. ASSUME NEW x \in Expiries, timer_write(x) PROVE AcceptCounted'
  BY <1>27 DEF timer_write, Write, timer_unlock
<1>28. ASSUME NEW x \in Expiries, timer_write_closed(x) PROVE AcceptCounted'
  BY <1>28 DEF timer_write_closed, timer_unlock
<1>29. ASSUME NEW w \in Workers, send_file_crashes(w) PROVE AcceptCounted'
  BY <1>29 DEF send_file_crashes
<1> QED
  BY <1>1, <1>2, <1>3, <1>4, <1>5, <1>6, <1>7, <1>8, <1>9, <1>10,
     <1>10a, <1>10b, <1>11, <1>12, <1>13, <1>14, <1>15, <1>16, <1>17, <1>18, <1>19, <1>20, <1>21,
     <1>22, <1>23, <1>24, <1>25, <1>26, <1>27, <1>28, <1>29, NextCases

(***************************************************************************)
(* Every action keeps main's bookkeeping of its threads: this is where a   *)
(* joined thread's name that is used again could go wrong.                 *)
(***************************************************************************)
LEMMA JoinStep ==
    ASSUME TypeOK, AcceptCounted, JoinAgrees, [Next]_vars
    PROVE  JoinAgrees'
<1> USE DEF main, sig, worker, lock, stream, TypeOK, AcceptCounted, JoinAgrees,
            Started
<1>1. CASE UNCHANGED vars
  BY <1>1 DEF vars
<1>2. CASE loop_check
  BY <1>2 DEF loop_check
<1>3. CASE accept_call
  BY <1>3 DEF accept_call
<1>4. CASE check_thread_exit
  <2>1. /\ UNCHANGED <<mpc, accepted, head, wpc, tid>>
        /\ mpc = "reap"
        /\ cursor' = cursor + 1
        /\ joined' = joined \cup Unjoined(head[cursor])
        /\ \A w \in Unjoined(head[cursor]) : wpc[w] = "exited"
    BY <1>4 DEF check_thread_exit, pthread_join
  \* A worker that is still not joined has another name than this node.
  <2>2. ASSUME NEW w \in Workers \ joined', Started(w)
        PROVE  \E i \in DOMAIN head : i >= cursor + 1 /\ head[i] = tid[w]
    <3>1. PICK i \in DOMAIN head : i >= cursor /\ head[i] = tid[w]
      BY <2>1, <2>2
    <3>2. tid[w] # head[cursor]
      BY <2>1, <2>2 DEF Unjoined
    <3>3. i \in Int /\ i # cursor
      BY <3>1, <3>2
    <3> QED
      BY <3>1, <3>3
  <2>3. \A w \in joined' : wpc[w] = "exited"
    BY <2>1
  <2> QED
    BY <2>1, <2>2, <2>3
<1>5. CASE check_thread_exit_done
  BY <1>5 DEF check_thread_exit_done
<1>6. CASE release_all_thread
  BY <1>6 DEF release_all_thread, pthread_join
<1>7. CASE close_stream
  BY <1>7 DEF close_stream
<1>8. CASE destroy_mutex
  BY <1>8 DEF destroy_mutex
<1>9. CASE remove_file
  BY <1>9 DEF remove_file
<1>10. CASE spawn_fails
  BY <1>10 DEF spawn_fails
<1>10a. CASE insert_node
  <2>1. /\ mpc = "insert" /\ mpc' = "reap"
        /\ head' = Append(head, tid[accepted])
        /\ cursor' = 1
        /\ UNCHANGED <<accepted, wpc, tid, joined>>
    BY <1>10a DEF insert_node
  <2>2. /\ Len(head) + 1 \in DOMAIN head'
        /\ Len(head) + 1 >= cursor'
        /\ head'[Len(head) + 1] = tid'[accepted]
    BY <2>1, AppendFacts
  <2> QED
    BY <2>1, <2>2
<1>10b. CASE node_malloc_fails
  BY <1>10b DEF node_malloc_fails
<1>11. ASSUME NEW t \in Tids, spawn(t) PROVE JoinAgrees'
  <2>1. /\ mpc = "spawn" /\ mpc' = "insert"
        /\ wpc' = [wpc EXCEPT ![accepted] = "start"]
        /\ tid' = [tid EXCEPT ![accepted] = t]
        /\ UNCHANGED <<accepted, joined>>
    BY <1>11 DEF spawn
  <2>2. accepted \in Workers /\ wpc[accepted] = "none"
    BY <2>1, WorkersAreNumbers
  <2>4. \A w \in Workers : tid'[w] = Nobody <=> wpc'[w] = "none"
    BY <2>1, <2>2, ServerAssumption
  <2>5. \A w \in joined' : wpc'[w] = "exited"
    BY <2>1, <2>2
  <2>6. \A w \in Workers \ joined' : wpc'[w] # "none" => w = accepted
    BY <2>1, <2>2
  <2> QED
    BY <2>1, <2>4, <2>5, <2>6
<1>12. ASSUME NEW fd \in {"open", "bad"}, accept_returns(fd)
       PROVE  JoinAgrees'
  BY <1>12, ServerAssumption, WorkersAreNumbers DEF accept_returns
<1>13. ASSUME NEW s \in Signals, sigint_handler(s) PROVE JoinAgrees'
  BY <1>13, ServerAssumption, WorkersAreNumbers DEF sigint_handler
<1>14. ASSUME NEW s \in Signals, signal_default_action(s) PROVE JoinAgrees'
  BY <1>14 DEF signal_default_action
<1>15. ASSUME NEW w \in Workers, worker_lock(w) PROVE JoinAgrees'
  BY <1>15 DEF worker_lock, Goto
<1>16. ASSUME NEW w \in Workers, worker_check(w) PROVE JoinAgrees'
  BY <1>16 DEF worker_check, Goto
<1>17. ASSUME NEW w \in Workers, recv_line(w) PROVE JoinAgrees'
  BY <1>17 DEF recv_line, Goto, WriteAndFlush
<1>18. ASSUME NEW w \in Workers, recv_part(w) PROVE JoinAgrees'
  <2>1. wpc' \in {[wpc EXCEPT ![w] = "loop"], [wpc EXCEPT ![w] = "send"]}
    BY <1>18 DEF recv_part, Goto
  <2>2. wpc[w] = "recv" /\ UNCHANGED <<mpc, main, tid, joined>>
    BY <1>18 DEF recv_part
  <2> QED
    BY <2>1, <2>2
<1>19. ASSUME NEW w \in Workers, recv_eof(w) PROVE JoinAgrees'
  <2>1. wpc' \in {[wpc EXCEPT ![w] = "loop"], [wpc EXCEPT ![w] = "send"]}
    BY <1>19 DEF recv_eof, Goto
  <2>2. wpc[w] = "recv" /\ UNCHANGED <<mpc, main, tid, joined>>
    BY <1>19 DEF recv_eof
  <2> QED
    BY <2>1, <2>2
<1>20. ASSUME NEW w \in Workers, recv_eof_again(w) PROVE JoinAgrees'
  BY <1>20 DEF recv_eof_again, Goto
<1>21. ASSUME NEW w \in Workers, recv_error(w) PROVE JoinAgrees'
  BY <1>21 DEF recv_error, Goto
<1>22. ASSUME NEW w \in Workers, send_file_to_client(w) PROVE JoinAgrees'
  BY <1>22 DEF send_file_to_client, Goto
<1>23. ASSUME NEW w \in Workers, send_sigpipe(w) PROVE JoinAgrees'
  BY <1>23 DEF send_sigpipe
<1>24. ASSUME NEW w \in Workers, worker_exit(w) PROVE JoinAgrees'
  BY <1>24 DEF worker_exit, Goto
<1>25. ASSUME NEW x \in Expiries, timer_expires(x) PROVE JoinAgrees'
  BY <1>25 DEF timer_expires
<1>26. ASSUME NEW x \in Expiries, timer_lock(x) PROVE JoinAgrees'
  BY <1>26 DEF timer_lock
<1>27. ASSUME NEW x \in Expiries, timer_write(x) PROVE JoinAgrees'
  BY <1>27 DEF timer_write, Write, timer_unlock
<1>28. ASSUME NEW x \in Expiries, timer_write_closed(x) PROVE JoinAgrees'
  BY <1>28 DEF timer_write_closed, timer_unlock
<1>29. ASSUME NEW w \in Workers, send_file_crashes(w) PROVE JoinAgrees'
  BY <1>29 DEF send_file_crashes
<1> QED
  BY <1>1, <1>2, <1>3, <1>4, <1>5, <1>6, <1>7, <1>8, <1>9, <1>10,
     <1>10a, <1>10b, <1>11, <1>12, <1>13, <1>14, <1>15, <1>16, <1>17, <1>18, <1>19, <1>20, <1>21,
     <1>22, <1>23, <1>24, <1>25, <1>26, <1>27, <1>28, <1>29, NextCases

(***************************************************************************)
(* Every action keeps the mutex and its holders in step.                   *)
(***************************************************************************)
LEMMA LockStep ==
    ASSUME TypeOK, AcceptCounted, LockAgrees, [Next]_vars
    PROVE  LockAgrees'
<1> USE DEF main, sig, worker, lock, stream, TypeOK, AcceptCounted, LockAgrees,
            MutexHolderInside
<1>1. CASE UNCHANGED vars
  BY <1>1 DEF vars
<1>2. CASE loop_check
  BY <1>2 DEF loop_check
<1>3. CASE accept_call
  BY <1>3 DEF accept_call
<1>4. CASE check_thread_exit
  BY <1>4 DEF check_thread_exit, pthread_join
<1>5. CASE check_thread_exit_done
  BY <1>5 DEF check_thread_exit_done
<1>6. CASE release_all_thread
  BY <1>6 DEF release_all_thread, pthread_join
<1>7. CASE close_stream
  BY <1>7 DEF close_stream
<1>8. CASE destroy_mutex
  BY <1>8 DEF destroy_mutex
<1>9. CASE remove_file
  BY <1>9 DEF remove_file
<1>10. CASE spawn_fails
  BY <1>10 DEF spawn_fails
<1>10a. CASE insert_node
  BY <1>10a DEF insert_node
<1>10b. CASE node_malloc_fails
  BY <1>10b DEF node_malloc_fails
<1>11. ASSUME NEW t \in Tids, spawn(t) PROVE LockAgrees'
  BY <1>11, ServerAssumption, WorkersAreNumbers DEF spawn
<1>12. ASSUME NEW fd \in {"open", "bad"}, accept_returns(fd)
       PROVE  LockAgrees'
  BY <1>12 DEF accept_returns
<1>13. ASSUME NEW s \in Signals, sigint_handler(s) PROVE LockAgrees'
  BY <1>13 DEF sigint_handler
<1>14. ASSUME NEW s \in Signals, signal_default_action(s) PROVE LockAgrees'
  BY <1>14 DEF signal_default_action
<1>15. ASSUME NEW w \in Workers, worker_lock(w) PROVE LockAgrees'
  BY <1>15, ServerAssumption, WorkersAreNumbers DEF worker_lock, Goto
<1>16. ASSUME NEW w \in Workers, worker_check(w) PROVE LockAgrees'
  BY <1>16 DEF worker_check, Goto
<1>17. ASSUME NEW w \in Workers, recv_line(w) PROVE LockAgrees'
  BY <1>17 DEF recv_line, Goto, WriteAndFlush
<1>18. ASSUME NEW w \in Workers, recv_part(w) PROVE LockAgrees'
  BY <1>18 DEF recv_part, Goto, Write, WriteAndFlush
<1>19. ASSUME NEW w \in Workers, recv_eof(w) PROVE LockAgrees'
  BY <1>19 DEF recv_eof, Goto
<1>20. ASSUME NEW w \in Workers, recv_eof_again(w) PROVE LockAgrees'
  BY <1>20 DEF recv_eof_again, Goto
<1>21. ASSUME NEW w \in Workers, recv_error(w) PROVE LockAgrees'
  BY <1>21, ServerAssumption, WorkersAreNumbers DEF recv_error, Goto
<1>22. ASSUME NEW w \in Workers, send_file_to_client(w) PROVE LockAgrees'
  BY <1>22, ServerAssumption, WorkersAreNumbers DEF send_file_to_client, Goto
<1>23. ASSUME NEW w \in Workers, send_sigpipe(w) PROVE LockAgrees'
  BY <1>23 DEF send_sigpipe
<1>24. ASSUME NEW w \in Workers, worker_exit(w) PROVE LockAgrees'
  BY <1>24 DEF worker_exit, Goto
<1>25. ASSUME NEW x \in Expiries, timer_expires(x) PROVE LockAgrees'
  BY <1>25 DEF timer_expires
<1>26. ASSUME NEW x \in Expiries, timer_lock(x) PROVE LockAgrees'
  BY <1>26, ServerAssumption, WorkersAreNumbers DEF timer_lock
<1>27. ASSUME NEW x \in Expiries, timer_write(x) PROVE LockAgrees'
  BY <1>27, ServerAssumption, WorkersAreNumbers
  DEF timer_write, Write, timer_unlock
<1>28. ASSUME NEW x \in Expiries, timer_write_closed(x) PROVE LockAgrees'
  BY <1>28, ServerAssumption, WorkersAreNumbers
  DEF timer_write_closed, timer_unlock
<1>29. ASSUME NEW w \in Workers, send_file_crashes(w) PROVE LockAgrees'
  BY <1>29 DEF send_file_crashes
<1> QED
  BY <1>1, <1>2, <1>3, <1>4, <1>5, <1>6, <1>7, <1>8, <1>9, <1>10,
     <1>10a, <1>10b, <1>11, <1>12, <1>13, <1>14, <1>15, <1>16, <1>17, <1>18, <1>19, <1>20, <1>21,
     <1>22, <1>23, <1>24, <1>25, <1>26, <1>27, <1>28, <1>29, NextCases

(***************************************************************************)
(* The stream after one more record.                                       *)
(***************************************************************************)
LEMMA WrittenGrows ==
    ASSUME TypeOK, NEW r \in Record, written' = Append(written, r)
    PROVE  \E n \in Nat :
              /\ DOMAIN written' = DOMAIN written \cup {n}
              /\ \A i \in DOMAIN written :
                    i \in Nat /\ i < n /\ written'[i] = written[i]
              /\ written'[n] = r
              /\ n = Len(written')
<1>1. written \in Seq(Record)
  BY DEF TypeOK
<1> DEFINE s == Append(written, r)
           n == Len(written) + 1
<1>2. /\ n \in Nat
      /\ DOMAIN s = DOMAIN written \cup {n}
      /\ \A i \in DOMAIN written : i \in Nat /\ i < n /\ s[i] = written[i]
      /\ s[n] = r
      /\ n = Len(s)
  BY <1>1, AppendFacts
<1> HIDE DEF n
<1> QED
  BY <1>2

(***************************************************************************)
(* Every action keeps the records of a client together: its worker appends *)
(* behind its own records, and a timer thread appends only while no worker *)
(* holds the mutex.                                                        *)
(***************************************************************************)
LEMMA StreamStep ==
    ASSUME TypeOK, AcceptCounted, LockAgrees, StreamAgrees, [Next]_vars
    PROVE  StreamAgrees'
<1> USE DEF main, sig, worker, lock, stream
<1>1. CASE UNCHANGED <<wpc, tpc, written>>
  BY <1>1 DEF StreamAgrees, PacketsContiguous
<1>2. ASSUME NEW w \in Workers,
             NEW l \in {"loop", "recv", "send", "leave", "exited"},
             wpc' = [wpc EXCEPT ![w] = l], UNCHANGED <<tpc, written>>,
             wpc[w] \in {"loop", "recv", "send"} \/ l \in {"leave", "exited"}
      PROVE  StreamAgrees'
  BY <1>2 DEF TypeOK, StreamAgrees, PacketsContiguous
<1>3. ASSUME NEW w \in Workers, worker_lock(w) PROVE StreamAgrees'
  <2>1. /\ wpc' = [wpc EXCEPT ![w] = "loop"]
        /\ UNCHANGED <<tpc, written>>
        /\ \A i \in DOMAIN written : written[i].by # w
    BY <1>3 DEF worker_lock, Goto, StreamAgrees
  <2> QED
    BY <2>1 DEF TypeOK, StreamAgrees, PacketsContiguous
<1>4. ASSUME NEW t \in Tids, spawn(t) PROVE StreamAgrees'
  <2>1. /\ accepted \in Workers
        /\ wpc[accepted] = "none"
        /\ wpc' = [wpc EXCEPT ![accepted] = "start"]
        /\ UNCHANGED <<tpc, written>>
    BY <1>4, WorkersAreNumbers DEF spawn, TypeOK, AcceptCounted
  <2> QED
    BY <2>1 DEF TypeOK, StreamAgrees, PacketsContiguous
<1>5. ASSUME NEW x \in Expiries, NEW l, tpc' = [tpc EXCEPT ![x] = l],
             tpc[x] # "done", UNCHANGED <<wpc, written>>
      PROVE  StreamAgrees'
  BY <1>5 DEF TypeOK, StreamAgrees, PacketsContiguous
<1>6. ASSUME NEW w \in Workers, NEW r \in Record, r.by = w,
             written' = Append(written, r),
             wpc' \in {[wpc EXCEPT ![w] = "loop"], [wpc EXCEPT ![w] = "send"]},
             wpc[w] = "recv", UNCHANGED tpc
      PROVE  StreamAgrees'
  <2>1. PICK n \in Nat :
           /\ DOMAIN written' = DOMAIN written \cup {n}
           /\ \A i \in DOMAIN written :
                 i \in Nat /\ i < n /\ written'[i] = written[i]
           /\ written'[n] = r
    BY <1>6, WrittenGrows
  <2>2. w \notin Expiries /\ \A v \in Workers :
           wpc'[v] \in {"loop", "recv", "send"} => v = w
    BY <1>6, ServerAssumption DEF TypeOK, LockAgrees, MutexHolderInside
  <2>3. \A i \in DOMAIN written', v \in Workers :
           written'[i].by = v => wpc'[v] \notin {"none", "start"}
    <3>1. \A v \in Workers : wpc[v] \notin {"none", "start"} =>
              wpc'[v] \notin {"none", "start"}
      BY <1>6 DEF TypeOK
    <3> QED
      BY <1>6, <2>1, <3>1 DEF StreamAgrees
  <2>4. \A i \in DOMAIN written', x \in Expiries :
           written'[i].by = x => tpc'[x] = "done"
    BY <1>6, <2>1, <2>2 DEF StreamAgrees
  <2>5. \A i, j \in DOMAIN written' :
           i < j /\ written'[i].by = w => written'[j].by = w
    BY <1>6, <2>1 DEF StreamAgrees
  <2>6. PacketsContiguous'
    <3> SUFFICES ASSUME NEW i \in DOMAIN written', NEW j \in DOMAIN written',
                        NEW k \in DOMAIN written', i < j, j < k,
                        written'[i].by = written'[k].by
                 PROVE  written'[j].by = written'[i].by
      BY DEF PacketsContiguous
    <3>1. i \in DOMAIN written /\ j \in DOMAIN written
      BY <2>1
    <3>2. CASE k = n
      BY <1>6, <2>1, <2>5, <3>2
    <3>3. CASE k \in DOMAIN written
      BY <2>1, <3>1, <3>3 DEF StreamAgrees, PacketsContiguous
    <3> QED
      BY <2>1, <3>2, <3>3
  <2> QED
    BY <2>2, <2>3, <2>4, <2>5, <2>6 DEF StreamAgrees
<1>7. ASSUME NEW x \in Expiries, timer_write(x) PROVE StreamAgrees'
  <2> DEFINE r == [by |-> x, kind |-> "stamp"]
  <2>1. /\ written' = Append(written, r)
        /\ tpc' = [tpc EXCEPT ![x] = "done"]
        /\ tpc[x] = "write"
        /\ fp_open
        /\ UNCHANGED wpc
    BY <1>7 DEF timer_write, Write
  <2>2. PICK n \in Nat :
           /\ DOMAIN written' = DOMAIN written \cup {n}
           /\ \A i \in DOMAIN written :
                 i \in Nat /\ i < n /\ written'[i] = written[i]
           /\ written'[n].by = x
    <3>1. r \in Record /\ r.by = x
      BY DEF Record
    <3> QED
      BY <2>1, <3>1, WrittenGrows
  <2>3. /\ x \notin Workers
        /\ \A v \in Workers : wpc'[v] \notin {"loop", "recv", "send"}
    BY <2>1, ServerAssumption DEF LockAgrees, MutexHolderInside
  <2>4. \A i \in DOMAIN written', v \in Workers :
           written'[i].by = v => wpc'[v] \notin {"none", "start"}
    BY <2>1, <2>2, <2>3 DEF StreamAgrees
  <2>5. \A i \in DOMAIN written : written[i].by # x
    BY <2>1 DEF StreamAgrees
  <2>6. \A i \in DOMAIN written', y \in Expiries :
           written'[i].by = y => tpc'[y] = "done"
    <3>1. tpc'[x] = "done" /\ \A y \in Expiries : y # x => tpc'[y] = tpc[y]
      BY <2>1 DEF TypeOK
    <3> QED
      BY <2>2, <2>5, <3>1 DEF StreamAgrees
  <2>7. PacketsContiguous'
    <3> SUFFICES ASSUME NEW i \in DOMAIN written', NEW j \in DOMAIN written',
                        NEW k \in DOMAIN written', i < j, j < k,
                        written'[i].by = written'[k].by
                 PROVE  written'[j].by = written'[i].by
      BY DEF PacketsContiguous
    <3>1. i \in DOMAIN written /\ j \in DOMAIN written
      BY <2>2
    <3>2. k \in DOMAIN written
      BY <2>2, <2>5, <3>1
    <3> QED
      BY <2>2, <3>1, <3>2 DEF StreamAgrees, PacketsContiguous
  <2> QED
    BY <2>3, <2>4, <2>6, <2>7 DEF StreamAgrees
<1>8. ASSUME NEW w \in Workers,
             \/ worker_check(w) \/ recv_eof(w) \/ recv_eof_again(w)
             \/ recv_error(w) \/ send_file_to_client(w) \/ worker_exit(w)
      PROVE  StreamAgrees'
  BY <1>2, <1>8
  DEF worker_check, recv_eof, recv_eof_again, recv_error,
      send_file_to_client, worker_exit, Goto
<1>9. ASSUME NEW w \in Workers, recv_line(w) \/ recv_part(w)
      PROVE  StreamAgrees'
  <2> DEFINE line == [by |-> w, kind |-> "line"]
             part == [by |-> w, kind |-> "part"]
  <2>1. line \in Record /\ part \in Record /\ line.by = w /\ part.by = w
    BY DEF Record
  <2> HIDE DEF line, part
  <2>2. written' = Append(written, line) \/ written' = Append(written, part)
    BY <1>9 DEF recv_line, recv_part, Write, WriteAndFlush, line, part
  <2>3. /\ wpc' \in {[wpc EXCEPT ![w] = "loop"], [wpc EXCEPT ![w] = "send"]}
        /\ wpc[w] = "recv"
        /\ UNCHANGED tpc
    BY <1>9 DEF recv_line, recv_part, Goto
  <2> QED
    BY <1>6, <2>1, <2>2, <2>3
<1>10. ASSUME NEW x \in Expiries,
              timer_expires(x) \/ timer_lock(x) \/ timer_write_closed(x)
       PROVE  StreamAgrees'
  BY <1>5, <1>10 DEF timer_expires, timer_lock, timer_write_closed
<1>11. CASE UNCHANGED vars
  BY <1>1, <1>11 DEF vars
<1>12. CASE \/ loop_check \/ accept_call \/ check_thread_exit
            \/ check_thread_exit_done \/ release_all_thread \/ close_stream
            \/ destroy_mutex \/ remove_file \/ spawn_fails
            \/ insert_node \/ node_malloc_fails
            \/ \E fd \in {"open", "bad"} : accept_returns(fd)
            \/ \E s \in Signals : sigint_handler(s) \/ signal_default_action(s)
            \/ \E w \in Workers : send_sigpipe(w) \/ send_file_crashes(w)
  BY <1>1, <1>12
  DEF loop_check, accept_call, check_thread_exit, check_thread_exit_done,
      release_all_thread, close_stream, destroy_mutex, remove_file,
      insert_node, node_malloc_fails,
      spawn_fails, accept_returns, sigint_handler, signal_default_action,
      send_sigpipe, send_file_crashes
<1> QED
  BY <1>3, <1>4, <1>7, <1>8, <1>9, <1>10, <1>11, <1>12, NextCases

(***************************************************************************)
(* Every action keeps what clients were sent: between the flush and the    *)
(* send nobody else writes, since the worker holds the mutex, and main     *)
(* does not close the stream, since it waits for the worker.               *)
(***************************************************************************)
LEMMA ReplyStep ==
    ASSUME IInv, [Next]_vars
    PROVE  ReplyAgrees'
<1> USE DEF main, sig, worker, lock, stream
<1>1. CASE UNCHANGED <<wpc, written, flushed, reply>>
  BY <1>1 DEF IInv, ReplyAgrees, ReplyEndsWithOwnLine
\* A worker moves on, before its line or after it was sent.
<1>2. ASSUME NEW w \in Workers, NEW l,
             wpc' = [wpc EXCEPT ![w] = l], UNCHANGED <<written, reply>>,
             flushed' = flushed \/ wpc[w] = "recv",
             \/ wpc[w] \in {"none", "start", "loop", "recv"}
             \/ wpc[w] = "leave" /\ l = "exited"
      PROVE  ReplyAgrees'
  <2>1. \A v \in Workers : wpc[v] = "send" => flushed' = flushed
    BY <1>2 DEF IInv, LockAgrees, MutexHolderInside
  <2> QED
    BY <1>2, <2>1 DEF IInv, TypeOK, ReplyAgrees, ReplyEndsWithOwnLine
<1>3. CASE close_stream \/ spawn_fails
  <2>1. /\ UNCHANGED <<wpc, written, reply>>
        /\ \A v \in Workers : wpc[v] # "send"
    BY <1>3 DEF close_stream, spawn_fails, IInv, JoinAgrees, Started
  <2> QED
    BY <2>1 DEF IInv, ReplyAgrees, ReplyEndsWithOwnLine
<1>4. ASSUME NEW w \in Workers, recv_part(w) PROVE ReplyAgrees'
  <2> DEFINE r == [by |-> w, kind |-> "part"]
  <2>1. /\ r \in Record
        /\ \A v \in Workers : r # Line(v)
    BY DEF Record, Line
  <2>2. /\ written' = Append(written, r)
        /\ wpc' \in {[wpc EXCEPT ![w] = "loop"], [wpc EXCEPT ![w] = "send"]}
        /\ wpc[w] = "recv"
        /\ UNCHANGED reply
    BY <1>4 DEF recv_part, Write, WriteAndFlush, Goto
  <2>3. PICK n \in Nat :
           /\ DOMAIN written' = DOMAIN written \cup {n}
           /\ \A i \in DOMAIN written : written'[i] = written[i]
           /\ written'[n] = r
    BY <2>1, <2>2, WrittenGrows DEF IInv
  <2>4. \A v \in Workers : v # w => wpc'[v] = wpc[v] /\ wpc[v] # "send"
    BY <2>2 DEF IInv, TypeOK, LockAgrees, MutexHolderInside
  <2>5. \A i \in DOMAIN written : written[i] # Line(w)
    BY <2>2 DEF IInv, ReplyAgrees
  <2>6. reply[w] = NoReply
    BY <2>2 DEF IInv, ReplyAgrees
  <2>7. ASSUME NEW i \in DOMAIN written', NEW v \in Workers,
               written'[i] = Line(v)
        PROVE  i \in DOMAIN written /\ written[i] = Line(v) /\ v # w
    BY <2>1, <2>3, <2>5, <2>7
  <2>8. \A v \in Workers : reply'[v] # NoReply => v # w /\ reply'[v] = reply[v]
    BY <2>2, <2>6
  <2>9. ReplyEndsWithOwnLine'
    BY <2>7, <2>8 DEF IInv, ReplyAgrees, ReplyEndsWithOwnLine, Line
  <2> QED
    BY <2>4, <2>7, <2>8, <2>9 DEF IInv, ReplyAgrees
<1>5. ASSUME NEW w \in Workers, recv_line(w) PROVE ReplyAgrees'
  <2>1. Line(w) \in Record /\ \A v \in Workers : Line(v) = Line(w) => v = w
    BY DEF Record, Line
  <2>2. /\ written' = Append(written, Line(w))
        /\ flushed' = Len(written')
        /\ wpc' = [wpc EXCEPT ![w] = "send"]
        /\ wpc[w] = "recv"
        /\ UNCHANGED reply
    BY <1>5 DEF recv_line, WriteAndFlush, Goto, Line
  <2>3. PICK n \in Nat :
           /\ DOMAIN written' = DOMAIN written \cup {n}
           /\ \A i \in DOMAIN written : written'[i] = written[i]
           /\ written'[n] = Line(w)
           /\ n = Len(written')
    BY <2>1, <2>2, WrittenGrows DEF IInv
  <2>4. \A v \in Workers : v # w => wpc'[v] = wpc[v] /\ wpc[v] # "send"
    BY <2>2 DEF IInv, TypeOK, LockAgrees, MutexHolderInside
  <2>5. \A i \in DOMAIN written : written[i] # Line(w)
    BY <2>2 DEF IInv, ReplyAgrees
  <2>6. reply[w] = NoReply /\ wpc'[w] = "send"
    BY <2>2 DEF IInv, TypeOK, ReplyAgrees
  <2>7. \A i \in DOMAIN written', v \in Workers : written'[i] = Line(v) =>
           \/ v = w /\ i = n
           \/ v # w /\ i \in DOMAIN written /\ written[i] = Line(v)
    BY <2>1, <2>3, <2>5
  <2> QED
    BY <2>2, <2>3, <2>4, <2>6, <2>7
    DEF IInv, ReplyAgrees, ReplyEndsWithOwnLine, Line
<1>6. ASSUME NEW w \in Workers, send_file_to_client(w) PROVE ReplyAgrees'
  <2>1. /\ wpc[w] = "send"
        /\ wpc' = [wpc EXCEPT ![w] = "leave"]
        /\ reply' = [reply EXCEPT ![w] = IF conn[w] = "bad" THEN reply[w]
                                         ELSE flushed]
        /\ UNCHANGED <<written, flushed>>
    BY <1>6 DEF send_file_to_client, Goto
  <2>2. \A i \in DOMAIN written : written[i] = Line(w) => flushed = i
    BY <2>1 DEF IInv, ReplyAgrees
  <2>3. reply[w] = NoReply
    BY <2>1 DEF IInv, ReplyAgrees
  <2>4. \A v \in Workers : v # w => reply'[v] = reply[v] /\ wpc'[v] = wpc[v]
    BY <2>1 DEF IInv, TypeOK
  <2>5. wpc'[w] = "leave" /\ reply'[w] \in {NoReply, flushed}
    BY <2>1, <2>3 DEF IInv, TypeOK
  <2> QED
    BY <2>1, <2>2, <2>4, <2>5
    DEF IInv, ReplyAgrees, ReplyEndsWithOwnLine, Line
<1>7. ASSUME NEW x \in Expiries, timer_write(x) PROVE ReplyAgrees'
  <2> DEFINE r == [by |-> x, kind |-> "stamp"]
  <2>1. /\ r \in Record
        /\ \A v \in Workers : r # Line(v)
    BY DEF Record, Line
  <2>2. /\ written' = Append(written, r)
        /\ tpc[x] = "write"
        /\ fp_open
        /\ UNCHANGED <<wpc, reply>>
    BY <1>7 DEF timer_write, Write
  <2>3. PICK n \in Nat :
           /\ DOMAIN written' = DOMAIN written \cup {n}
           /\ \A i \in DOMAIN written : written'[i] = written[i]
           /\ written'[n] = r
    BY <2>1, <2>2, WrittenGrows DEF IInv
  <2>4. \A v \in Workers : wpc[v] # "send"
    BY <2>2, ServerAssumption DEF IInv, LockAgrees, MutexHolderInside
  <2> QED
    BY <2>1, <2>2, <2>3, <2>4
    DEF IInv, ReplyAgrees, ReplyEndsWithOwnLine, Line
<1>8. ASSUME NEW w \in Workers,
             \/ worker_lock(w) \/ worker_check(w) \/ recv_eof(w)
             \/ recv_eof_again(w) \/ recv_error(w) \/ worker_exit(w)
      PROVE  ReplyAgrees'
  BY <1>2, <1>8
  DEF worker_lock, worker_check, recv_eof, recv_eof_again, recv_error,
      worker_exit, Goto
<1>9. ASSUME NEW t \in Tids, spawn(t) PROVE ReplyAgrees'
  <2>1. accepted \in Workers /\ wpc[accepted] = "none"
    BY <1>9, WorkersAreNumbers DEF spawn, IInv, TypeOK, AcceptCounted
  <2> QED
    BY <1>2, <1>9, <2>1 DEF spawn
<1>10. CASE UNCHANGED vars
  BY <1>1, <1>10 DEF vars
<1>11. CASE \/ loop_check \/ accept_call \/ check_thread_exit
            \/ check_thread_exit_done \/ release_all_thread
            \/ destroy_mutex \/ remove_file
            \/ insert_node \/ node_malloc_fails
            \/ \E fd \in {"open", "bad"} : accept_returns(fd)
            \/ \E s \in Signals : sigint_handler(s) \/ signal_default_action(s)
            \/ \E w \in Workers : send_sigpipe(w) \/ send_file_crashes(w)
            \/ \E x \in Expiries : timer_expires(x) \/ timer_lock(x)
            \/ \E x \in Expiries : timer_write_closed(x)
  BY <1>1, <1>11
  DEF loop_check, accept_call, check_thread_exit, check_thread_exit_done,
      release_all_thread, destroy_mutex, remove_file, insert_node,
      node_malloc_fails, accept_returns, sigint_handler, signal_default_action, send_sigpipe,
      send_file_crashes, timer_expires, timer_lock, timer_write_closed
<1> QED
  BY <1>3, <1>4, <1>5, <1>6, <1>7, <1>8, <1>9, <1>10, <1>11, NextCases

(***************************************************************************)
(* Every action closes a connection before its worker leaves, unless the   *)
(* client reset it.                                                        *)
(***************************************************************************)
LEMMA ConnStep ==
    ASSUME TypeOK, AcceptCounted, ConnAgrees, [Next]_vars
    PROVE  ConnAgrees'
<1> USE DEF main, sig, worker, lock, stream
<1>1. CASE UNCHANGED <<wpc, conn>>
  BY <1>1 DEF ConnAgrees
<1>2. ASSUME NEW w \in Workers, NEW l \in {"start", "loop", "recv", "send"},
             wpc' = [wpc EXCEPT ![w] = l],
             \A v \in Workers : v # w => conn'[v] = conn[v]
      PROVE  ConnAgrees'
  BY <1>2 DEF TypeOK, ConnAgrees
<1>3. ASSUME NEW w \in Workers, recv_error(w) \/ send_file_to_client(w)
      PROVE  ConnAgrees'
  <2>1. /\ wpc' = [wpc EXCEPT ![w] = "leave"]
        /\ conn'[w] \notin {"open", "eof"}
        /\ \A v \in Workers : v # w => conn'[v] = conn[v]
    BY <1>3 DEF recv_error, send_file_to_client, Goto, TypeOK
  <2> QED
    BY <2>1 DEF TypeOK, ConnAgrees
<1>4. ASSUME NEW w \in Workers, worker_exit(w) PROVE ConnAgrees'
  BY <1>4 DEF worker_exit, Goto, TypeOK, ConnAgrees
<1>5. ASSUME NEW w \in Workers,
             \/ worker_lock(w) \/ worker_check(w) \/ recv_line(w)
             \/ recv_part(w) \/ recv_eof(w) \/ recv_eof_again(w)
      PROVE  ConnAgrees'
  <2>1. \E l \in {"loop", "recv", "send"} : wpc' = [wpc EXCEPT ![w] = l]
    BY <1>5 DEF worker_lock, worker_check, recv_line, recv_part, recv_eof,
                recv_eof_again, Goto
  <2>2. \A v \in Workers : v # w => conn'[v] = conn[v]
    BY <1>5 DEF worker_lock, worker_check, recv_line, recv_part, recv_eof,
                recv_eof_again, TypeOK
  <2> QED
    BY <1>2, <2>1, <2>2
<1>6. ASSUME NEW t \in Tids, spawn(t) PROVE ConnAgrees'
  <2>1. accepted \in Workers
    BY <1>6, WorkersAreNumbers DEF spawn, TypeOK, AcceptCounted
  <2> QED
    BY <1>2, <1>6, <2>1 DEF spawn, TypeOK
<1>7. CASE UNCHANGED vars
  BY <1>1, <1>7 DEF vars
<1>8. CASE \/ loop_check \/ accept_call \/ check_thread_exit
           \/ check_thread_exit_done \/ release_all_thread \/ close_stream
           \/ destroy_mutex \/ remove_file \/ spawn_fails
           \/ insert_node \/ node_malloc_fails
           \/ \E fd \in {"open", "bad"} : accept_returns(fd)
           \/ \E s \in Signals : sigint_handler(s) \/ signal_default_action(s)
           \/ \E w \in Workers : send_sigpipe(w) \/ send_file_crashes(w)
           \/ \E x \in Expiries : timer_expires(x) \/ timer_lock(x)
           \/ \E x \in Expiries : timer_write(x) \/ timer_write_closed(x)
  BY <1>1, <1>8
  DEF loop_check, accept_call, check_thread_exit, check_thread_exit_done,
      release_all_thread, close_stream, destroy_mutex, remove_file,
      insert_node, node_malloc_fails,
      spawn_fails, accept_returns, sigint_handler, signal_default_action,
      send_sigpipe, send_file_crashes, timer_expires, timer_lock, timer_write,
      timer_write_closed
<1> QED
  BY <1>3, <1>4, <1>5, <1>6, <1>7, <1>8, NextCases

(***************************************************************************)
(* What the stream gets from a step: nothing, or one record whose kind     *)
(* fits its author.                                                        *)
(***************************************************************************)
LEMMA WrittenStep ==
    ASSUME TypeOK, [Next]_vars
    PROVE  \/ UNCHANGED written
           \/ \E w \in Workers, k \in {"part", "line"} :
                 /\ written' = Append(written, [by |-> w, kind |-> k])
                 /\ wpc[w] = "recv"
                 /\ wpc' \in {[wpc EXCEPT ![w] = "loop"],
                              [wpc EXCEPT ![w] = "send"]}
                 /\ conn[w] = "open"
                 /\ UNCHANGED <<mutex, reply, conn>>
           \/ \E x \in Expiries :
                 /\ written' = Append(written, [by |-> x, kind |-> "stamp"])
                 /\ timer_write(x)
<1> USE DEF main, sig, worker, lock, stream
<1>1. ASSUME NEW w \in Workers, recv_line(w) \/ recv_part(w)
      PROVE  \E k \in {"part", "line"} :
                 /\ written' = Append(written, [by |-> w, kind |-> k])
                 /\ wpc[w] = "recv"
                 /\ wpc' \in {[wpc EXCEPT ![w] = "loop"],
                              [wpc EXCEPT ![w] = "send"]}
                 /\ conn[w] = "open"
                 /\ UNCHANGED <<mutex, reply, conn>>
  BY <1>1 DEF recv_line, recv_part, Write, WriteAndFlush, Goto
<1>2. ASSUME NEW x \in Expiries, timer_write(x)
      PROVE  written' = Append(written, [by |-> x, kind |-> "stamp"])
  BY <1>2 DEF timer_write, Write
<1>3. CASE \/ UNCHANGED vars
           \/ loop_check \/ accept_call \/ check_thread_exit
           \/ check_thread_exit_done \/ release_all_thread \/ close_stream
           \/ destroy_mutex \/ remove_file \/ spawn_fails
           \/ insert_node \/ node_malloc_fails
           \/ \E t \in Tids : spawn(t)
           \/ \E fd \in {"open", "bad"} : accept_returns(fd)
           \/ \E s \in Signals : sigint_handler(s) \/ signal_default_action(s)
           \/ \E w \in Workers :
                 \/ worker_lock(w) \/ worker_check(w)
                 \/ recv_eof(w) \/ recv_eof_again(w)
                 \/ recv_error(w) \/ send_file_to_client(w)
                 \/ send_file_crashes(w) \/ send_sigpipe(w) \/ worker_exit(w)
           \/ \E x \in Expiries :
                 timer_expires(x) \/ timer_lock(x) \/ timer_write_closed(x)
  BY <1>3
  DEF vars, loop_check, accept_call, check_thread_exit, check_thread_exit_done,
      release_all_thread, close_stream, destroy_mutex, remove_file,
      insert_node, node_malloc_fails,
      spawn_fails, spawn, accept_returns, sigint_handler,
      signal_default_action, worker_lock, worker_check, recv_eof,
      recv_eof_again, recv_error, send_file_to_client, send_file_crashes,
      send_sigpipe, worker_exit, timer_expires, timer_lock,
      timer_write_closed
<1> QED
  BY <1>1, <1>2, <1>3, NextCases

(***************************************************************************)
(* A worker whose records are in the stream keeps a socket that is not -1. *)
(***************************************************************************)
LEMMA GoodConnStep ==
    ASSUME TypeOK, AcceptCounted, StreamAgrees, [Next]_vars,
           NEW i \in DOMAIN written, NEW w \in Workers, written[i].by = w,
           conn[w] # "bad"
    PROVE  conn'[w] # "bad"
<1> USE DEF main, sig, worker, lock, stream
<1>1. ASSUME NEW v \in Workers,
             recv_eof(v) \/ recv_error(v) \/ send_file_to_client(v)
      PROVE  conn'[w] # "bad"
  <2>1. \E c \in {"eof", "reset", "closed", conn[v]} :
            conn' = [conn EXCEPT ![v] = c]
    BY <1>1 DEF recv_eof, recv_error, send_file_to_client
  <2> QED
    BY <2>1 DEF TypeOK
<1>2. ASSUME NEW t \in Tids, spawn(t) PROVE conn'[w] # "bad"
  <2>1. accepted \in Workers /\ wpc[accepted] = "none"
    BY <1>2, WorkersAreNumbers DEF spawn, TypeOK, AcceptCounted
  <2>2. w # accepted
    BY <2>1 DEF StreamAgrees
  <2> QED
    BY <1>2, <2>1, <2>2 DEF spawn, TypeOK
<1>3. CASE \/ UNCHANGED vars
           \/ loop_check \/ accept_call \/ check_thread_exit
           \/ check_thread_exit_done \/ release_all_thread \/ close_stream
           \/ destroy_mutex \/ remove_file \/ spawn_fails
           \/ insert_node \/ node_malloc_fails
           \/ \E fd \in {"open", "bad"} : accept_returns(fd)
           \/ \E s \in Signals : sigint_handler(s) \/ signal_default_action(s)
           \/ \E v \in Workers :
                 \/ worker_lock(v) \/ worker_check(v) \/ recv_eof_again(v)
                 \/ recv_line(v) \/ recv_part(v)
                 \/ send_file_crashes(v) \/ send_sigpipe(v) \/ worker_exit(v)
           \/ \E x \in Expiries :
                 \/ timer_expires(x) \/ timer_lock(x) \/ timer_write(x)
                 \/ timer_write_closed(x)
  <2>1. UNCHANGED conn
    BY <1>3
    DEF vars, loop_check, accept_call, check_thread_exit,
        check_thread_exit_done, release_all_thread, close_stream,
        destroy_mutex, remove_file, spawn_fails, insert_node,
        node_malloc_fails, accept_returns,
        sigint_handler, signal_default_action, worker_lock, worker_check,
        recv_eof_again, recv_line, recv_part, send_file_crashes, send_sigpipe,
        worker_exit, timer_expires, timer_lock, timer_write,
        timer_write_closed
  <2> QED
    BY <2>1
<1> QED
  BY <1>1, <1>2, <1>3, NextCases

(***************************************************************************)
(* Every action keeps the kinds of the records and their sockets.          *)
(***************************************************************************)
LEMMA RecordsStep ==
    ASSUME TypeOK, AcceptCounted, StreamAgrees, RecordsAgree, [Next]_vars
    PROVE  RecordsAgree'
<1>1. \A i \in DOMAIN written, w \in Workers : written[i].by = w =>
          written[i].kind # "stamp" /\ conn'[w] # "bad"
  BY GoodConnStep DEF RecordsAgree
<1>2. ASSUME NEW r \in Record, written' = Append(written, r),
             \A w \in Workers : r.by = w =>
                 r.kind # "stamp" /\ conn'[w] # "bad"
      PROVE  RecordsAgree'
  BY <1>1, <1>2, WrittenGrows DEF RecordsAgree
<1>3. ASSUME NEW w \in Workers, NEW k \in {"part", "line"},
             written' = Append(written, [by |-> w, kind |-> k]),
             conn[w] = "open", UNCHANGED conn
      PROVE  RecordsAgree'
  <2> DEFINE r == [by |-> w, kind |-> k]
  <2>1. /\ r \in Record /\ r.kind # "stamp" /\ r.by = w
        /\ written' = Append(written, r) /\ conn'[w] # "bad"
    BY <1>3 DEF Record
  <2> HIDE DEF r
  <2> QED
    BY <1>2, <2>1
<1>4. ASSUME NEW x \in Expiries,
             written' = Append(written, [by |-> x, kind |-> "stamp"])
      PROVE  RecordsAgree'
  <2> DEFINE r == [by |-> x, kind |-> "stamp"]
  <2>1. r \in Record /\ r.by \notin Workers /\ written' = Append(written, r)
    BY <1>4, ServerAssumption DEF Record
  <2> HIDE DEF r
  <2> QED
    BY <1>2, <2>1
<1>5. CASE UNCHANGED written
  BY <1>1, <1>5 DEF RecordsAgree
<1> QED
  BY <1>3, <1>4, <1>5, WrittenStep

(***************************************************************************)
(* What a step does to what others can see of the server: the stage main   *)
(* is in, the stream, the file, and its name.                              *)
(***************************************************************************)
Loop == {"check", "accept", "accepting", "spawn", "insert", "reap", "release"}

LEMMA OutsideView ==
    ASSUME TypeOK, JoinAgrees, LockAgrees, [Next]_vars
    PROVE  \/ UNCHANGED <<written, flushed, removed, mpc>>
           \/ /\ mpc \in Loop /\ mpc' \in Loop
              /\ UNCHANGED <<written, flushed, removed>>
           \/ /\ mpc \in Loop /\ mpc' \in Loop \cup {"destroy", "failed"}
              /\ flushed' = Len(written) /\ UNCHANGED <<written, removed>>
           \/ /\ mpc \in Loop /\ UNCHANGED <<mpc, removed>>
              /\ \E r \in Record : written' = Append(written, r)
              /\ flushed' \in flushed..Len(written')
           \/ /\ mpc = "destroy" /\ mpc' = "remove"
              /\ UNCHANGED <<written, flushed, removed>>
           \/ /\ mpc = "remove" /\ mpc' = "exited" /\ removed' \in BOOLEAN
              /\ UNCHANGED <<written, flushed>>
           \/ /\ Running /\ mpc' = "killed"
              /\ UNCHANGED <<written, flushed, removed>>
<1> USE DEF main, sig, worker, lock, stream
<1>0. \A w \in Workers : Running /\ wpc[w] = "recv" => mpc \in {"insert", "reap"}
  BY DEF TypeOK, JoinAgrees, Started, Running
<1>1. CASE \/ UNCHANGED vars
           \/ \E w \in Workers :
                 \/ worker_lock(w) \/ worker_check(w) \/ recv_eof_again(w)
                 \/ recv_error(w) \/ send_file_to_client(w)
                 \/ worker_exit(w)
           \/ \E x \in Expiries : timer_expires(x) \/ timer_lock(x)
           \/ check_thread_exit \/ release_all_thread
  BY <1>1
  DEF vars, worker_lock, worker_check, recv_eof_again, recv_error,
      send_file_to_client, worker_exit, timer_expires, timer_lock,
      check_thread_exit, release_all_thread
<1>2. CASE \/ loop_check \/ accept_call \/ check_thread_exit_done
           \/ insert_node
           \/ \E t \in Tids : spawn(t)
           \/ \E fd \in {"open", "bad"} : accept_returns(fd)
  BY <1>2
  DEF Loop, loop_check, accept_call, check_thread_exit_done, insert_node,
      spawn, accept_returns
<1>3. CASE close_stream \/ spawn_fails
  BY <1>3 DEF Loop, close_stream, spawn_fails
<1>4. CASE destroy_mutex
  BY <1>4 DEF destroy_mutex
<1>5. CASE remove_file
  BY <1>5 DEF remove_file
<1>6. ASSUME NEW s \in Signals, sigint_handler(s)
      PROVE  /\ UNCHANGED <<written, flushed, removed>>
             /\ mpc' = mpc \/ (mpc \in Loop /\ mpc' \in Loop)
  BY <1>6 DEF sigint_handler, Loop
<1>7. CASE \/ node_malloc_fails
           \/ \E s \in Signals : signal_default_action(s)
           \/ \E w \in Workers : send_file_crashes(w) \/ send_sigpipe(w)
  BY <1>7 DEF node_malloc_fails, signal_default_action, send_file_crashes,
              send_sigpipe, Running
<1>8. ASSUME NEW x \in Expiries, timer_write_closed(x)
      PROVE  /\ UNCHANGED <<written, flushed, removed>>
             /\ mpc' = mpc \/ (Running /\ mpc' = "killed")
  BY <1>8 DEF timer_write_closed
<1>9. ASSUME NEW w \in Workers, recv_eof(w)
      PROVE  /\ mpc \in Loop /\ UNCHANGED <<mpc, written, removed>>
             /\ flushed' \in {flushed, Len(written)}
  BY <1>0, <1>9 DEF recv_eof, Loop
<1>10. ASSUME NEW w \in Workers, recv_line(w) \/ recv_part(w)
       PROVE  /\ mpc \in Loop /\ UNCHANGED <<mpc, removed>>
              /\ \E r \in Record : written' = Append(written, r)
              /\ flushed' \in flushed..Len(written')
  <2>1. /\ Running /\ wpc[w] = "recv" /\ UNCHANGED <<mpc, removed>>
        /\ flushed' \in flushed..Len(written') \/ flushed' = Len(written')
    BY <1>10 DEF recv_line, recv_part, Write, WriteAndFlush
  <2>2. \E k \in {"part", "line"} :
            written' = Append(written, [by |-> w, kind |-> k])
    BY <1>10 DEF recv_line, recv_part, Write, WriteAndFlush
  <2>3. \A k \in {"part", "line"} : [by |-> w, kind |-> k] \in Record
    BY DEF Record
  <2>4. PICK r \in Record : written' = Append(written, r)
    BY <2>2, <2>3
  <2>5. flushed' \in flushed..Len(written')
    <3>1. Len(written) \in Nat /\ Len(written') = Len(written) + 1
      BY <2>4, AppendFacts DEF TypeOK
    <3> QED
      BY <2>1, <3>1 DEF TypeOK
  <2> QED
    BY <1>0, <2>1, <2>4, <2>5 DEF Loop
<1>11. ASSUME NEW x \in Expiries, timer_write(x)
       PROVE  /\ mpc \in Loop /\ UNCHANGED <<mpc, removed>>
              /\ \E r \in Record : written' = Append(written, r)
              /\ flushed' \in flushed..Len(written')
  <2>1. /\ Running /\ fp_open /\ UNCHANGED <<mpc, removed>>
        /\ flushed' \in flushed..Len(written')
    BY <1>11 DEF timer_write, Write
  <2>2. mpc \in Loop
    BY <2>1 DEF TypeOK, LockAgrees, Running, Loop
  <2>3. written' = Append(written, [by |-> x, kind |-> "stamp"])
    BY <1>11 DEF timer_write, Write
  <2>4. [by |-> x, kind |-> "stamp"] \in Record
    BY DEF Record
  <2> QED
    BY <2>1, <2>2, <2>3, <2>4
<1> QED
  BY <1>1, <1>2, <1>3, <1>4, <1>5, <1>6, <1>7, <1>8, <1>9, <1>10, <1>11,
     NextCases

(***************************************************************************)
(* A client is sent what is in the file; nothing else changes an answer.   *)
(***************************************************************************)
LEMMA AnswerStep ==
    ASSUME TypeOK, [Next]_vars
    PROVE  \/ UNCHANGED reply
           \/ \E w \in Workers : \E n \in {reply[w], flushed} :
                 reply' = [reply EXCEPT ![w] = n] /\ UNCHANGED <<flushed, mpc>>
<1> USE DEF main, sig, worker, lock, stream
<1>1. ASSUME NEW w \in Workers, send_file_to_client(w)
      PROVE  \E n \in {reply[w], flushed} :
                 reply' = [reply EXCEPT ![w] = n] /\ UNCHANGED <<flushed, mpc>>
  BY <1>1 DEF send_file_to_client
<1>2. CASE \/ UNCHANGED vars
           \/ loop_check \/ accept_call \/ check_thread_exit
           \/ check_thread_exit_done \/ release_all_thread \/ close_stream
           \/ destroy_mutex \/ remove_file \/ spawn_fails
           \/ insert_node \/ node_malloc_fails
           \/ \E t \in Tids : spawn(t)
           \/ \E fd \in {"open", "bad"} : accept_returns(fd)
           \/ \E s \in Signals : sigint_handler(s) \/ signal_default_action(s)
           \/ \E w \in Workers :
                 \/ worker_lock(w) \/ worker_check(w) \/ recv_line(w)
                 \/ recv_part(w) \/ recv_eof(w) \/ recv_eof_again(w)
                 \/ recv_error(w) \/ send_file_crashes(w) \/ send_sigpipe(w)
                 \/ worker_exit(w)
           \/ \E x \in Expiries :
                 \/ timer_expires(x) \/ timer_lock(x) \/ timer_write(x)
                 \/ timer_write_closed(x)
  BY <1>2
  DEF vars, loop_check, accept_call, check_thread_exit, check_thread_exit_done,
      release_all_thread, close_stream, destroy_mutex, remove_file,
      spawn_fails, insert_node, node_malloc_fails, spawn, accept_returns,
      sigint_handler, signal_default_action, worker_lock, worker_check,
      recv_line, recv_part, recv_eof, recv_eof_again, recv_error,
      send_file_crashes, send_sigpipe, worker_exit, timer_expires, timer_lock,
      timer_write, timer_write_closed
<1> QED
  BY <1>1, <1>2, NextCases

(***************************************************************************)
(* Every action keeps the file in step with the stream and the answers.    *)
(***************************************************************************)
LEMMA FileStep ==
    ASSUME TypeOK, JoinAgrees, LockAgrees, FileAgrees, [Next]_vars
    PROVE  FileAgrees'
<1>1. /\ Len(written) \in Nat /\ flushed \in 0..Len(written)
      /\ \A r \in Record : Len(Append(written, r)) = Len(written) + 1
  BY AppendFacts DEF TypeOK
<1>2. flushed' \in Nat /\ flushed <= flushed'
  BY <1>1, OutsideView
<1>3. \A w \in Workers : reply'[w] <= flushed'
  <2>1. CASE UNCHANGED reply
    BY <1>1, <1>2, <2>1 DEF TypeOK, FileAgrees, NoReply
  <2>2. CASE \E w \in Workers : \E n \in {reply[w], flushed} :
                reply' = [reply EXCEPT ![w] = n] /\ UNCHANGED <<flushed, mpc>>
    <3>1. \A w \in Workers : reply'[w] \in {reply[w], flushed}
      BY <2>2 DEF TypeOK
    <3> QED
      BY <1>1, <2>2, <3>1 DEF TypeOK, FileAgrees, NoReply
  <2> QED
    BY <2>1, <2>2, AnswerStep
<1>4. mpc' \in {"destroy", "remove"} => flushed' = Len(written)'
  BY OutsideView DEF FileAgrees, Loop
<1>5. removed' => mpc' = "exited"
  BY OutsideView DEF FileAgrees, Loop, Running
<1> QED
  BY <1>3, <1>4, <1>5 DEF FileAgrees
-----------------------------------------------------------------------------
(***************************************************************************)
(* The invariant of the server.                                            *)
(***************************************************************************)
THEOREM Invariance == Spec => []IInv
<1>1. ASSUME Init PROVE IInv
  <2>1. TypeOK
    <3>1. /\ head \in Seq(Tids)
          /\ written \in Seq(Record)
          /\ flushed \in 0..Len(written)
      BY <1>1 DEF Init
    <3>2. accepted \in 0..(MaxAccepts + 1) /\ cursor \in Nat \ {0}
      BY <1>1, ServerAssumption DEF Init
    <3>3. /\ wpc \in [Workers -> {"none", "start", "loop", "recv", "send",
                                 "leave", "exited"}]
          /\ tid \in [Workers -> Tids \cup {Nobody}]
          /\ conn \in [Workers -> {"open", "eof", "reset", "closed", "bad"}]
          /\ reply \in [Workers -> Nat \cup {NoReply}]
          /\ tpc \in [Expiries -> {"none", "lock", "write", "done"}]
      BY <1>1 DEF Init
    <3>4. /\ handlers \subseteq Signals
          /\ joined \subseteq Workers
          /\ mutex \in Workers \cup Expiries \cup {Nobody}
      BY <1>1 DEF Init
    <3>5. /\ EXIT_SIGNAL \in BOOLEAN
          /\ destroyed \in BOOLEAN
          /\ fp_open \in BOOLEAN
          /\ removed \in BOOLEAN
      BY <1>1 DEF Init
    <3> QED
      BY <1>1, <3>1, <3>2, <3>3, <3>4, <3>5 DEF Init, TypeOK
  <2>2. AcceptCounted /\ JoinAgrees /\ LockAgrees
    BY <1>1, ServerAssumption, WorkersAreNumbers
    DEF Init, AcceptCounted, JoinAgrees, Started, LockAgrees,
        MutexHolderInside
  <2>3. StreamAgrees /\ ReplyAgrees
    BY <1>1
    DEF Init, StreamAgrees, PacketsContiguous, ReplyAgrees,
        ReplyEndsWithOwnLine
  <2>4. ConnAgrees /\ RecordsAgree /\ FileAgrees
    BY <1>1 DEF Init, ConnAgrees, RecordsAgree, FileAgrees, NoReply
  <2> QED
    BY <2>1, <2>2, <2>3, <2>4 DEF IInv
<1>2. IInv /\ [Next]_vars => IInv'
  BY TypeStep, AcceptStep, JoinStep, LockStep, StreamStep, ReplyStep, ConnStep,
     RecordsStep, FileStep
  DEF IInv
<1> QED
  BY <1>1, <1>2, PTL DEF Spec

(***************************************************************************)
(* Every variable of the server keeps its type; in particular accept is    *)
(* interrupted by a signal at most once.                                   *)
(***************************************************************************)
THEOREM TypeCorrect == Spec => []TypeOK
BY Invariance, PTL DEF IInv

(***************************************************************************)
(* The data of a client is never torn apart in the file.                   *)
(***************************************************************************)
THEOREM PacketsAlwaysContiguous == Spec => []PacketsContiguous
BY Invariance, PTL DEF IInv, StreamAgrees

(***************************************************************************)
(* A client that sent a line is sent the file up to that line, exactly.    *)
(***************************************************************************)
THEOREM RepliesAlwaysComplete == Spec => []ReplyEndsWithOwnLine
BY Invariance, PTL DEF IInv, ReplyAgrees

(***************************************************************************)
(* The mutex is held only between lock and unlock.                         *)
(***************************************************************************)
THEOREM MutexHolderAlwaysInside == Spec => []MutexHolderInside
BY Invariance, PTL DEF IInv, LockAgrees

(***************************************************************************)
(* main never takes the stream and the mutex from a live worker.           *)
(***************************************************************************)
THEOREM WorkersAlwaysGoneBeforeCleanup == Spec => []WorkersGoneBeforeCleanup
<1>1. IInv => WorkersGoneBeforeCleanup
  BY DEF IInv, JoinAgrees, Started, WorkersGoneBeforeCleanup, Alive
<1> QED
  BY <1>1, Invariance, PTL

(***************************************************************************)
(* Only connections that their clients reset keep a descriptor.            *)
(***************************************************************************)
THEOREM DescriptorsAlwaysReturned == Spec => []OnlyResetsLeaveDescriptors
<1>1. IInv => OnlyResetsLeaveDescriptors
  BY DEF IInv, TypeOK, JoinAgrees, Started, ConnAgrees, Descriptors,
         OnlyResetsLeaveDescriptors
<1> QED
  BY <1>1, Invariance, PTL
-----------------------------------------------------------------------------
(***************************************************************************)
(* A set of numbers that is not empty has a least one.                     *)
(***************************************************************************)
LEMMA LeastNumber ==
    ASSUME NEW T, T \subseteq Nat, T # {}
    PROVE  \E m \in T : \A k \in T : m <= k
<1>1. PICK m \in T : \A k \in T : ~(<<k, m>> \in OpToRel(<, Nat))
  BY NatLessThanWellFounded, WFMin
<1>2. ASSUME NEW k \in T PROVE m <= k
  <2>1. ~(k < m)
    BY <1>1 DEF OpToRel
  <2> QED
    BY <2>1
<1> QED
  BY <1>2

(***************************************************************************)
(* As long as the process lives the committed part of the stream is a      *)
(* prefix of it, and the rest was written by the worker that holds the     *)
(* mutex.                                                                  *)
(***************************************************************************)
LEMMA CommittedIsPrefix ==
    ASSUME IInv, mpc # "killed"
    PROVE  \E n \in 0..Len(written) :
               /\ Committed = [i \in 1..n |-> written[i]]
               /\ \A i \in 1..n : written[i].by # mutex
               /\ \A i \in (n + 1)..Len(written) : written[i].by = mutex
               /\ mutex \notin Workers => n = Len(written)
<1>1. /\ written \in Seq(Record) /\ Len(written) \in Nat
      /\ DOMAIN written = 1..Len(written)
      /\ \A i \in DOMAIN written : written[i].by \in Workers \cup Expiries
  <2>1. written \in Seq(Record)
    BY DEF IInv, TypeOK
  <2>2. \A r \in Record : r.by \in Workers \cup Expiries
    BY DEF Record
  <2>3. \A i \in DOMAIN written : written[i] \in Record
    BY <2>1
  <2> QED
    BY <2>1, <2>2, <2>3
<1> DEFINE T == {i \in DOMAIN written : written[i].by = mutex}
<1>2. ASSUME NEW n \in 0..Len(written),
             \A i \in 1..n : written[i].by # mutex,
             \A i \in (n + 1)..Len(written) : written[i].by = mutex
      PROVE  Committed = [i \in 1..n |-> written[i]]
  <2>1. {j \in DOMAIN written : written[j].by # mutex} = 1..n
    BY <1>1, <1>2
  <2> QED
    BY <2>1 DEF Committed
<1>3. mutex \notin Workers => T = {}
  <2>1. Nobody \notin Workers \cup Expiries
    BY ServerAssumption
  <2>2. mutex \in Expiries => T = {}
    BY DEF IInv, LockAgrees, MutexHolderInside, StreamAgrees
  <2>3. mutex = Nobody => T = {}
    BY <1>1, <2>1
  <2> QED
    BY <2>2, <2>3 DEF IInv, TypeOK
<1>4. CASE T = {}
  <2>1. \A i \in 1..Len(written) : written[i].by # mutex
    BY <1>1, <1>4
  <2>2. Len(written) \in 0..Len(written)
    BY <1>1
  <2>3. \A i \in (Len(written) + 1)..Len(written) : written[i].by = mutex
    BY <1>1
  <2> QED
    BY <1>2, <2>1, <2>2, <2>3
<1>5. CASE T # {}
  <2>1. PICK m \in T : \A k \in T : m <= k
    <3>1. T \subseteq Nat
      BY <1>1
    <3> HIDE DEF T
    <3> QED
      BY <1>5, <3>1, LeastNumber
  <2>2. m \in 1..Len(written) /\ m - 1 \in 0..Len(written)
    BY <1>1, <2>1
  <2>3. mutex \in Workers /\ wpc[mutex] \in {"loop", "recv", "send"}
    BY <1>3, <1>5 DEF IInv, LockAgrees, MutexHolderInside
  <2>4. \A i \in DOMAIN written : m < i => written[i].by = mutex
    BY <1>1, <2>1, <2>3 DEF IInv, StreamAgrees
  <2>5. \A i \in m..Len(written) : written[i].by = mutex
    BY <1>1, <2>1, <2>2, <2>4
  <2>6. \A i \in 1..(m - 1) : written[i].by # mutex
    BY <1>1, <2>1, <2>2
  <2> DEFINE n == m - 1
  <2>7. n \in 0..Len(written) /\ n + 1 = m
    BY <2>2
  <2> HIDE DEF n
  <2>8. /\ \A i \in 1..n : written[i].by # mutex
        /\ \A i \in (n + 1)..Len(written) : written[i].by = mutex
    BY <2>5, <2>6, <2>7 DEF n
  <2> QED
    BY <1>2, <2>3, <2>7, <2>8
<1> QED
  BY <1>4, <1>5

(***************************************************************************)
(* A step that changes neither the stream nor the answers, and the mutex   *)
(* only to or from somebody who wrote nothing, changes no committed record.*)
(***************************************************************************)
LEMMA CommittedUnchanged ==
    ASSUME UNCHANGED <<written, reply>>, mpc # "killed", mpc' # "killed",
           \A i \in DOMAIN written : written[i].by # mutex <=> written[i].by # mutex'
    PROVE  UNCHANGED Log!vars
<1>1. {j \in DOMAIN written' : written'[j].by # mutex'} =
          {j \in DOMAIN written : written[j].by # mutex}
  OBVIOUS
<1>2. Committed' = Committed
  BY <1>1 DEF Committed
<1> QED
  BY <1>2 DEF Log!vars

(***************************************************************************)
(* A prefix and what follows it, as sets of positions.                     *)
(***************************************************************************)
LEMMA PrefixPositions ==
    ASSUME NEW m \in Nat, NEW k \in Nat, k <= m
    PROVE  /\ \A i \in 1..k : i \in 1..m
           /\ \A i \in (k + 1)..m : i \in 1..m /\ i \notin 1..k
  OBVIOUS

(***************************************************************************)
(* A worker gives the mutex back: its packet is committed.                 *)
(***************************************************************************)
LEMMA UnlockCommits ==
    ASSUME IInv, NEW w \in Workers, mutex = w, mutex' = Nobody,
           mpc # "killed", mpc' # "killed", UNCHANGED written,
           NEW n, n \in 0..Len(written) \cup {NoReply},
           reply' = [reply EXCEPT ![w] = n],
           \A i \in DOMAIN written : written[i] = Line(w) =>
               n = Len(written) /\ i = Len(written)
    PROVE  Log!Serve(w)
<1>1. PICK c \in Nat :
          /\ c <= Len(written)
          /\ Committed = [i \in 1..c |-> written[i]]
          /\ \A i \in 1..c : written[i].by # w
          /\ \A i \in (c + 1)..Len(written) : written[i].by = w
  <2>1. PICK c \in 0..Len(written) :
            /\ Committed = [i \in 1..c |-> written[i]]
            /\ \A i \in 1..c : written[i].by # w
            /\ \A i \in (c + 1)..Len(written) : written[i].by = w
    BY CommittedIsPrefix
  <2>2. Len(written) \in Nat
    BY DEF IInv, TypeOK
  <2>3. c \in Nat /\ c <= Len(written)
    BY <2>1, <2>2
  <2> QED
    BY <2>1, <2>3
<1>2. /\ written \in Seq(Record) /\ Len(written) \in Nat
      /\ DOMAIN written = 1..Len(written)
      /\ \A i \in DOMAIN written : written[i] \in Record
  BY DEF IInv, TypeOK
<1>c. /\ \A i \in 1..c : i \in DOMAIN written
      /\ \A i \in (c + 1)..Len(written) : i \in DOMAIN written
  <2>1. c \in Nat /\ c <= Len(written) /\ Len(written) \in Nat
    BY <1>1, <1>2, Zenon
  <2>2. /\ \A i \in 1..c : i \in 1..Len(written)
        /\ \A i \in (c + 1)..Len(written) : i \in 1..Len(written)
    BY <2>1, PrefixPositions, Zenon
  <2> QED
    BY <1>2, <2>2, Zenon
<1>3. Committed' = written
  <2>1. \A r \in Record : r.by # Nobody
    BY ServerAssumption DEF Record
  <2>2. {j \in DOMAIN written : written[j].by # Nobody} = DOMAIN written
    BY <1>2, <2>1
  <2>3. Committed' = [i \in DOMAIN written |-> written[i]]
    BY <2>2 DEF Committed
  <2> QED
    BY <1>2, <2>3
<1>4. Len(Committed) = c /\ DOMAIN Committed = 1..c
  <2>1. [i \in 1..c |-> written[i]] \in [1..c -> Record]
    BY <1>2, <1>c
  <2> QED
    BY <1>1, <1>c, <2>1
<1>5. Log!Added = (c + 1)..Len(written)
  BY <1>3, <1>4 DEF Log!Added
<1>6. ASSUME NEW i \in (c + 1)..Len(written)
      PROVE  /\ written[i].by = w
             /\ written[i].kind = "part" \/ i = Len(written)
             /\ written[i].kind = "line" => n = Len(written)
  <2>1. i \in DOMAIN written /\ written[i].by = w /\ written[i] \in Record
    <3>1. i \in DOMAIN written
      BY <1>c, Zenon
    <3> QED
      BY <1>1, <1>2, <3>1, Zenon
  <2>2. written[i].kind \in {"part", "line"}
    BY <2>1 DEF IInv, RecordsAgree, Record
  <2>3. written[i].kind = "line" => written[i] = Line(w)
    BY <2>1 DEF Record, Line
  <2> QED
    BY <2>1, <2>2, <2>3
<1>7. w \notin Log!Authors
  BY <1>1, <1>4 DEF Log!Authors
<1>8. Log!Extends
  BY <1>1, <1>2, <1>c, <1>3, <1>4 DEF Log!Extends
<1> QED
  BY <1>3, <1>5, <1>6, <1>7, <1>8 DEF Log!Serve

(***************************************************************************)
(* The process is killed: what is in the file holds all that anybody was   *)
(* sent, and at most the beginning of the packet of the worker that holds  *)
(* the mutex.                                                              *)
(***************************************************************************)
LEMMA KillIsCrash ==
    ASSUME IInv, mpc # "killed", mpc' = "killed",
           UNCHANGED <<written, flushed, reply>>
    PROVE  Log!Crash
<1>1. /\ written \in Seq(Record) /\ Len(written) \in Nat
      /\ DOMAIN written = 1..Len(written)
      /\ \A i \in DOMAIN written : written[i] \in Record
      /\ flushed \in Nat /\ flushed <= Len(written)
  BY DEF IInv, TypeOK
<1>2. PICK n \in 0..Len(written) :
          /\ Committed = [i \in 1..n |-> written[i]]
          /\ \A i \in 1..n : written[i].by # mutex
          /\ \A i \in (n + 1)..Len(written) : written[i].by = mutex
          /\ mutex \notin Workers => n = Len(written)
  BY CommittedIsPrefix
<1>3. /\ DOMAIN Committed = 1..n /\ Len(Committed) = n
      /\ \A i \in 1..n : Committed[i] = written[i]
  <2>1. n \in Nat /\ n <= Len(written)
    BY <1>1
  <2>a. \A i \in 1..n : i \in DOMAIN written
    BY <1>1, <2>1
  <2>2. [i \in 1..n |-> written[i]] \in [1..n -> Record]
    BY <1>1, <2>a
  <2> QED
    BY <1>2, <2>1, <2>2
<1>4. /\ DOMAIN Committed' = 1..flushed /\ Len(Committed') = flushed
      /\ \A i \in 1..flushed : Committed'[i] = written[i]
  <2>1. Committed' = SubSeq(written, 1, flushed)
    BY DEF Committed
  <2> QED
    BY <1>1, <2>1
<1>5. Log!Added = (n + 1)..flushed
  BY <1>3, <1>4 DEF Log!Added
<1>6. ASSUME NEW i \in (n + 1)..flushed
      PROVE  /\ mutex \in Workers /\ Committed'[i].by = mutex
             /\ Committed'[i].kind = "part" \/ i = flushed
  <2>1. /\ i \in DOMAIN written /\ i \in 1..flushed
        /\ i \in (n + 1)..Len(written) /\ n # Len(written)
    <3>1. /\ n \in Nat /\ n <= Len(written) /\ Len(written) \in Nat
          /\ flushed \in Nat /\ flushed <= Len(written)
      BY <1>1
    <3>2. i \in Nat /\ n < i /\ i <= flushed
      BY <3>1
    <3>3. /\ i \in 1..Len(written) /\ i \in 1..flushed
          /\ i \in (n + 1)..Len(written) /\ n # Len(written)
      BY <3>1, <3>2
    <3> QED
      BY <1>1, <3>3
  <2>2. mutex \in Workers /\ written[i].by = mutex
    BY <1>2, <2>1
  <2>3. written[i].kind \in {"part", "line"}
    BY <1>1, <2>1, <2>2 DEF IInv, RecordsAgree, Record
  <2>4. written[i].kind = "line" => written[i] = Line(mutex)
    BY <1>1, <2>1, <2>2 DEF Record, Line
  <2>5. wpc[mutex] \in {"loop", "recv", "send"}
    BY <2>2 DEF IInv, LockAgrees, MutexHolderInside
  <2>6. written[i] = Line(mutex) => i = flushed
    BY <2>1, <2>2, <2>5 DEF IInv, ReplyAgrees
  <2> QED
    BY <1>4, <2>1, <2>2, <2>3, <2>4, <2>6
<1>7. mutex \notin Log!Authors
  BY <1>2, <1>3 DEF Log!Authors
<1>8. \A w \in Workers : reply[w] <= Len(Committed')
  BY <1>4 DEF IInv, FileAgrees
<1>9. \A i \in DOMAIN Committed \cap DOMAIN Committed' :
          Committed'[i] = Committed[i]
  BY <1>3, <1>4
<1>10. Log!Added # {} => \E w \in Workers \ Log!Authors :
          \A i \in Log!Added :
              /\ Committed'[i].by = w
              /\ Committed'[i].kind = "part" \/ i = Len(Committed')
  BY <1>4, <1>5, <1>6, <1>7
<1> QED
  BY <1>8, <1>9, <1>10 DEF Log!Crash

(***************************************************************************)
(* Every step of the server is a step of the packet log, or changes        *)
(* nothing of it.                                                          *)
(***************************************************************************)
LEMMA LogStep ==
    ASSUME IInv, [Next]_vars
    PROVE  [Log!Next]_(Log!vars)
<1> USE DEF main, sig, worker, lock, stream
<1>0. /\ written \in Seq(Record) /\ Len(written) \in Nat
      /\ DOMAIN written = 1..Len(written)
      /\ \A i \in DOMAIN written : written[i].by # Nobody
  <2>1. \A r \in Record : r.by # Nobody
    BY ServerAssumption DEF Record
  <2>2. written \in Seq(Record)
    BY DEF IInv, TypeOK
  <2>3. \A i \in DOMAIN written : written[i] \in Record
    BY <2>2
  <2> QED
    BY <2>1, <2>2, <2>3
<1>k. CASE Next /\ mpc' = "killed"
  <2>1. mpc # "killed" /\ UNCHANGED <<written, flushed>>
    BY <1>k, NextIsAlive, OutsideView DEF IInv, Loop
  <2>2. UNCHANGED reply
    BY <1>k, <2>1, AnswerStep DEF IInv
  <2>3. Log!Crash
    BY <1>k, <2>1, <2>2, KillIsCrash
  <2> QED
    BY <2>1, <2>3 DEF Log!Next
<1>8. CASE UNCHANGED vars
  <2>1. UNCHANGED <<mpc, written, flushed, mutex, reply>>
    BY <1>8 DEF vars
  <2> QED
    BY <2>1 DEF Log!vars, Committed
<1> SUFFICES ASSUME Next, mpc' # "killed"
             PROVE  [Log!Next]_(Log!vars)
  BY <1>k, <1>8
<1>a. mpc # "killed"
  BY NextIsAlive
<1>1. CASE UNCHANGED <<written, mutex, reply>>
  BY <1>1, <1>a, CommittedUnchanged
<1>2. ASSUME NEW w \in Workers, worker_lock(w) PROVE UNCHANGED Log!vars
  <2>1. mutex = Nobody /\ mutex' = w /\ UNCHANGED <<written, reply>>
    BY <1>2 DEF worker_lock
  <2>2. \A i \in DOMAIN written : written[i].by # w
    BY <1>2 DEF worker_lock, IInv, StreamAgrees
  <2> QED
    BY <1>0, <2>1, <2>2, <1>a, CommittedUnchanged
<1>3. ASSUME NEW x \in Expiries, timer_lock(x) \/ timer_write_closed(x)
      PROVE  UNCHANGED Log!vars
  <2>1. /\ \/ mutex \in {Nobody, x} /\ mutex' \in {Nobody, x}
           \/ mutex' = mutex
        /\ UNCHANGED <<written, reply>>
    BY <1>3 DEF timer_lock, timer_write_closed, timer_unlock
  <2>2. \A i \in DOMAIN written : written[i].by # x
    BY <1>3 DEF timer_lock, timer_write_closed, IInv, StreamAgrees
  <2> QED
    BY <1>0, <2>1, <2>2, <1>a, CommittedUnchanged
<1>4. ASSUME NEW w \in Workers, recv_error(w) PROVE Log!Serve(w)
  <2>1. /\ wpc[w] = "recv" /\ mutex' = Nobody /\ UNCHANGED <<written, reply>>
    BY <1>4 DEF recv_error
  <2>2. mutex = w /\ reply[w] = NoReply
    BY <2>1 DEF IInv, LockAgrees, MutexHolderInside, ReplyAgrees
  <2>3. \A i \in DOMAIN written : written[i] # Line(w)
    BY <2>1 DEF IInv, ReplyAgrees
  <2>4. reply' = [reply EXCEPT ![w] = NoReply]
    BY <2>1, <2>2 DEF IInv, TypeOK
  <2> QED
    BY <2>1, <2>2, <2>3, <2>4, <1>a, UnlockCommits
<1>5. ASSUME NEW w \in Workers, send_file_to_client(w) PROVE Log!Serve(w)
  <2>1. /\ wpc[w] = "send" /\ mutex' = Nobody /\ UNCHANGED written
        /\ reply' = [reply EXCEPT ![w] =
                         IF conn[w] = "bad" THEN reply[w] ELSE flushed]
    BY <1>5 DEF send_file_to_client
  <2>2. mutex = w /\ reply[w] = NoReply
    BY <2>1 DEF IInv, LockAgrees, MutexHolderInside, ReplyAgrees
  <2>3. \A i \in DOMAIN written : written[i] = Line(w) =>
            i = Len(written) /\ flushed = Len(written) /\ conn[w] # "bad"
    BY <2>1 DEF IInv, ReplyAgrees, RecordsAgree, Line
  <2> DEFINE n == IF conn[w] = "bad" THEN NoReply ELSE flushed
  <2>4. n \in 0..Len(written) \cup {NoReply} /\ reply' = [reply EXCEPT ![w] = n]
    BY <2>1, <2>2 DEF IInv, TypeOK
  <2>5. \A i \in DOMAIN written : written[i] = Line(w) =>
            n = Len(written) /\ i = Len(written)
    BY <2>3
  <2> HIDE DEF n
  <2> QED
    BY <2>1, <2>2, <2>4, <2>5, <1>a, UnlockCommits
<1>6. ASSUME NEW w \in Workers, NEW k \in {"part", "line"},
             written' = Append(written, [by |-> w, kind |-> k]),
             wpc[w] = "recv", UNCHANGED <<mutex, reply>>
      PROVE  UNCHANGED Log!vars
  <2> DEFINE r == [by |-> w, kind |-> k]
  <2>1. mutex = w /\ r \in Record /\ r.by = w
    BY <1>6 DEF IInv, LockAgrees, MutexHolderInside, Record
  <2> HIDE DEF r
  <2>2. PICK n \in Nat :
           /\ DOMAIN written' = DOMAIN written \cup {n}
           /\ \A i \in DOMAIN written : i < n /\ written'[i] = written[i]
           /\ written'[n] = r
    BY <1>6, <2>1, WrittenGrows DEF IInv, r
  <2>3. {j \in DOMAIN written' : written'[j].by # mutex'} =
            {j \in DOMAIN written : written[j].by # mutex}
    BY <1>6, <2>1, <2>2
  <2>4. Committed' = Committed
    BY <1>a, <2>2, <2>3 DEF Committed
  <2> QED
    BY <1>6, <1>a, <2>4 DEF Log!vars
<1>7. ASSUME NEW x \in Expiries, timer_write(x) PROVE Log!Stamp(x)
  <2> DEFINE r == [by |-> x, kind |-> "stamp"]
  <2>1. /\ written' = Append(written, r) /\ UNCHANGED reply
        /\ tpc[x] = "write" /\ mutex = x /\ mutex' = Nobody
    BY <1>7 DEF timer_write, Write, timer_unlock, IInv, LockAgrees
  <2>2. /\ \A i \in DOMAIN written : written[i].by # x
        /\ r \in Record /\ r.by = x /\ x # Nobody
    BY <2>1, ServerAssumption DEF IInv, StreamAgrees, Record
  <2>3. Committed = written
    <3>1. {j \in DOMAIN written : written[j].by # mutex} = DOMAIN written
      BY <2>1, <2>2
    <3> QED
      BY <1>0, <1>a, <3>1 DEF Committed
  <2>4. Committed' = Append(written, r)
    <3> HIDE DEF r
    <3>1. PICK n \in Nat :
             /\ DOMAIN written' = DOMAIN written \cup {n}
             /\ \A i \in DOMAIN written : written'[i] = written[i]
             /\ written'[n] = r
      BY <2>1, <2>2, WrittenGrows DEF IInv
    <3>2. {j \in DOMAIN written' : written'[j].by # mutex'} = DOMAIN written'
      BY <1>0, <2>1, <2>2, <3>1
    <3>3. Committed' = [i \in DOMAIN written' |-> written'[i]]
      BY <3>2 DEF Committed
    <3>4. written' \in Seq(Record)
      BY <1>0, <2>1, <2>2
    <3>5. written' = [i \in DOMAIN written' |-> written'[i]]
      BY <3>4
    <3> QED
      BY <2>1, <3>3, <3>5
  <2> QED
    BY <1>a, <2>1, <2>2, <2>3, <2>4 DEF Log!Stamp, Log!Authors
<1>9. CASE \/ loop_check \/ accept_call \/ check_thread_exit
           \/ check_thread_exit_done \/ release_all_thread \/ close_stream
           \/ destroy_mutex \/ remove_file \/ spawn_fails
           \/ insert_node \/ node_malloc_fails
           \/ \E t \in Tids : spawn(t)
           \/ \E fd \in {"open", "bad"} : accept_returns(fd)
           \/ \E s \in Signals : sigint_handler(s) \/ signal_default_action(s)
           \/ \E w \in Workers :
                 \/ worker_check(w) \/ recv_eof(w) \/ recv_eof_again(w)
                 \/ send_file_crashes(w) \/ send_sigpipe(w) \/ worker_exit(w)
           \/ \E x \in Expiries : timer_expires(x)
  BY <1>1, <1>9
  DEF loop_check, accept_call, check_thread_exit, check_thread_exit_done,
      release_all_thread, close_stream, destroy_mutex, remove_file,
      insert_node, node_malloc_fails,
      spawn_fails, spawn, accept_returns, sigint_handler,
      signal_default_action, worker_check, recv_eof, recv_eof_again,
      send_file_crashes, send_sigpipe, worker_exit, timer_expires
<1>10. ASSUME NEW w \in Workers, recv_line(w) \/ recv_part(w)
       PROVE  UNCHANGED Log!vars
  <2>1. \E k \in {"part", "line"} :
            /\ written' = Append(written, [by |-> w, kind |-> k])
            /\ wpc[w] = "recv"
            /\ UNCHANGED <<mutex, reply>>
    BY <1>10 DEF recv_line, recv_part, Write, WriteAndFlush
  <2> QED
    BY <1>6, <2>1
<1> QED
  BY <1>a, <1>2, <1>3, <1>4, <1>5, <1>7, <1>9, <1>10, NextCases DEF Log!Next

(***************************************************************************)
(* The server implements the packet log: connections are served as if each *)
(* sent its packet and got its answer in one step, and what a client was   *)
(* sent is still in the file when the process is killed, at any place.     *)
(***************************************************************************)
THEOREM AlwaysServesAtomically == Spec => ServesAtomically
<1>1. Init => Log!Init
  BY DEF Init, Log!Init, Committed
<1>2. IInv /\ [Next]_vars => [Log!Next]_(Log!vars)
  BY LogStep
<1> QED
  BY <1>1, <1>2, Invariance, PTL DEF Spec, ServesAtomically, Log!Spec
-----------------------------------------------------------------------------
(***************************************************************************)
(* Records that leave the buffer are, in the terms of AesdSocketInstances, *)
(* a flush of the only instance.                                           *)
(***************************************************************************)
LEMMA FlushIsFlushTo ==
    ASSUME flushed \in Nat, flushed' \in Nat, flushed <= flushed'
    PROVE  Life!FlushTo("me", flushed')
<1> DEFINE old == {"me"} \X (1..flushed)
           new == {"me"} \X (1..flushed')
           mine == {r \in Me(old)[Me("me")["me"]] : r[1] = "me"}
           rest == Me(old)[Me("me")["me"]] \ mine
           add == {"me"} \X ((flushed + 1)..flushed')
<1>1. Me("me")["me"] = "me" /\ Me(old)["me"] = old
  BY DEF Me
<1>2. mine = old /\ rest = {}
  BY <1>1
<1>3. old \cup {} \cup add = new
  <2>1. (1..flushed) \cup ((flushed + 1)..flushed') = 1..flushed'
    OBVIOUS
  <2> QED
    BY <2>1
<1>4. {} \in IF flushed' = Me(flushed)["me"] THEN {rest} ELSE SUBSET rest
  BY <1>2
<1>5. /\ Me(new) = [Me(old) EXCEPT ![Me("me")["me"]] = mine \cup {} \cup add]
      /\ Me(flushed') = [Me(flushed) EXCEPT !["me"] = flushed']
      /\ Me(flushed)["me"] = flushed
  BY <1>1, <1>2, <1>3 DEF Me
<1>6. Me(new) = Me(old)' /\ Me(flushed') = Me(flushed)'
  BY DEF Me
<1> HIDE DEF old, new, mine, rest, add
<1>7. \E left \in IF flushed' = Me(flushed)["me"] THEN {rest} ELSE SUBSET rest :
          Me(old)' = [Me(old) EXCEPT ![Me("me")["me"]] =
                         mine \cup left \cup add]
  BY <1>4, <1>5, <1>6
<1> QED
  BY <1>5, <1>6, <1>7 DEF Life!FlushTo, old, new, mine, rest, add

(***************************************************************************)
(* Every step of the server is one of a serving instance, or is not seen.  *)
(***************************************************************************)
LEMMA LifeStep ==
    ASSUME IInv, [Next]_vars
    PROVE  [Life!Serve("me")]_(Life!vars)
<1> USE DEF Me, Listening, Running, ExitStatus, Loop
<1> USE DEF Life!vars, Life!timer, Life!disk, Life!buffer, Life!Goto,
            Life!Report, Life!Exit, Life!RETCODE_SUCCESS,
            Life!RETCODE_FAILURE, Life!NoStatus, Life!KilledStatus
<1>0. Len(written) \in Nat /\ flushed \in Nat /\ flushed <= Len(written)
  BY DEF IInv, TypeOK
<1>a. 0 % 256 = 0 /\ 1 % 256 = 1
  OBVIOUS
<1>1. CASE UNCHANGED <<written, flushed, removed, mpc>>
  BY <1>1
<1>2. CASE /\ mpc \in Loop /\ mpc' \in Loop
           /\ UNCHANGED <<written, flushed, removed>>
  BY <1>2
<1>3. CASE /\ mpc \in Loop /\ mpc' \in Loop \cup {"destroy", "failed"}
           /\ flushed' = Len(written) /\ UNCHANGED <<written, removed>>
  <2>1. Life!FlushTo("me", flushed')
    BY <1>0, <1>3, FlushIsFlushTo
  <2>2. Me(Len(written))["me"] = flushed'
    BY <1>3
  <2>3. Life!FlushTo("me", Me(Len(written))["me"])
    BY <2>1, <2>2
  <2>4. CASE mpc' = "failed"
    <3>1. Life!Goto("me", "exited") /\ Life!Report("me", 1)
      BY <1>3, <2>4
    <3>2. Life!Exit("me", Life!RETCODE_FAILURE)
      BY <1>a, <3>1
    <3> HIDE DEF Life!Exit, Life!Goto, Life!Report
    <3> QED
      BY <1>3, <2>3, <2>4, <3>2 DEF Life!loop_fails, Life!Serve
  <2>5. CASE mpc' # "failed"
    BY <1>3, <2>3, <2>5 DEF Life!flush_stream, Life!Serve
  <2> QED
    BY <2>4, <2>5
<1>4. ASSUME mpc \in Loop, UNCHANGED <<mpc, removed>>,
             NEW r \in Record, written' = Append(written, r),
             flushed' \in flushed..Len(written')
      PROVE  Life!write_record("me")
  <2>1. Len(written') = Len(written) + 1
    BY <1>4, AppendFacts DEF IInv, TypeOK
  <2>2. Life!FlushTo("me", flushed')
    BY <1>0, <1>4, <2>1, FlushIsFlushTo
  <2>3. flushed' \in Me(flushed)["me"]..(Me(Len(written))["me"] + 1)
    BY <1>4, <2>1
  <2>4. /\ Me(Len(written))["me"] + 1 \in Nat
        /\ Me(Len(written))' =
              [Me(Len(written)) EXCEPT !["me"] = Me(Len(written))["me"] + 1]
    BY <1>0, <2>1
  <2> QED
    BY <1>4, <2>2, <2>3, <2>4 DEF Life!write_record
<1>5. CASE /\ mpc = "destroy" /\ mpc' = "remove"
           /\ UNCHANGED <<written, flushed, removed>>
  <2>1. Me(Len(written))["me"] = flushed'
    BY <1>5 DEF IInv, FileAgrees
  <2>2. Life!FlushTo("me", flushed')
    BY <1>0, <1>5, FlushIsFlushTo
  <2>3. Life!FlushTo("me", Me(Len(written))["me"])
    BY <2>1, <2>2
  <2> QED
    BY <1>5, <2>3 DEF Life!close_socket, Life!Serve
<1>6. CASE /\ mpc = "remove" /\ mpc' = "exited" /\ removed' \in BOOLEAN
           /\ UNCHANGED <<written, flushed>>
  <2>1. ~removed
    BY <1>6 DEF IInv, FileAgrees
  <2> QED
    <3>1. Life!Goto("me", "exited") /\ Life!Report("me", 0)
      BY <1>6
    <3>2. Life!Exit("me", Life!RETCODE_SUCCESS)
      BY <1>a, <3>1
    <3> HIDE DEF Life!Exit, Life!Goto, Life!Report
    <3> QED
      BY <1>6, <2>1, <3>2 DEF Life!remove_file, Life!Serve
<1>7. CASE /\ Running /\ mpc' = "killed"
           /\ UNCHANGED <<written, flushed, removed>>
  BY <1>7 DEF Life!killed, Life!Serve, Life!Starting
<1> QED
  BY <1>1, <1>2, <1>3, <1>4, <1>5, <1>6, <1>7, OutsideView
  DEF IInv, Life!Serve

(***************************************************************************)
(* For any number of connections, signals and expiries, the threads of the *)
(* server do to the port, the file and the exit status what                *)
(* AesdSocketInstances lets one serving instance do, also when remove      *)
(* fails, when main returns from inside its loop and when it is killed:    *)
(* that module's few steps leave out nothing another instance could notice.*)
(***************************************************************************)
THEOREM AlwaysRunsAsInstance == Spec => RunsAsInstance
<1>1. IInv /\ [Next]_vars => [Life!Serve("me")]_(Life!vars)
  BY LifeStep
<1> QED
  BY <1>1, Invariance, PTL DEF Spec, RunsAsInstance
=============================================================================
