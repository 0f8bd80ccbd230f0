----------------------------- MODULE AesdSocket -----------------------------
(***************************************************************************)
(* The running server of server/src: the accept loop of main, one thread   *)
(* per accepted connection, a thread per expiry of the 10 second timer,    *)
(* and the signals that end the program.  They share one mutex, one stdio  *)
(* stream on TEMP_PATH and EXIT_SIGNAL.  The steps before the accept loop  *)
(* are not part of this module.                                            *)
(*                                                                         *)
(* The n-th call of accept yields worker n.  What a client sends is cut    *)
(* into chunks, one per recv: a chunk with a newline (a line) or without   *)
(* (a part).  The stream is the sequence of what was written, with its     *)
(* author; only its first `flushed' records have reached the file.         *)
(***************************************************************************)
EXTENDS Integers, Sequences, FiniteSets

CONSTANTS
    MaxAccepts,   \* bound on the calls of accept that no signal interrupts
    MaxFds,       \* descriptors the process may open beside its own files
    MaxParts,     \* bound on the chunks without a newline, of all clients
    Expiries,     \* expiries of the timer, each at most once
    Tids,         \* values of pthread_t
    Signals,      \* the signals main registers a handler for
    Nobody        \* owner of a free mutex, pthread_t of a thread not started

\* One more than MaxAccepts: a signal interrupts accept at most once, since
\* the loop ends after it.
Workers == 1..(MaxAccepts + 1)

ASSUME ServerAssumption ==
    /\ MaxAccepts \in Nat
    /\ MaxFds \in Nat
    /\ MaxParts \in Nat
    /\ Expiries \cap Workers = {}
    /\ Nobody \notin Workers \cup Expiries \cup Tids
    /\ Tids # {}

VARIABLES
    mpc,          \* main: where it is; the process has ended at "exited"
                  \* (with 0), "failed" (with an error) and "killed"
    fd_accept,    \* main: what accept returned, "open" or "bad" (-1)
    accepted,     \* main: number of calls of accept that returned
    head, cursor, \* main: the list of nodes, and p_node's place in it
    EXIT_SIGNAL,  \* a handler ran
    handlers,     \* signals that still have their handler
    wpc,          \* per worker: where it is
    tid,          \* per worker: its pthread_t
    joined,       \* workers that were joined
    conn,         \* per worker: its socket, "open", "eof", "reset", "closed"
                  \* or "bad"; the first three occupy a descriptor
    reply,        \* per worker: how many records its client was sent
    tpc,          \* per expiry: where its thread is
    mutex,        \* who holds the mutex
    destroyed,    \* pthread_mutex_destroy succeeded
    fp_open,      \* the stream has not been closed
    written,      \* what was written to the stream
    flushed,      \* how many records of it are in the file
    removed       \* TEMP_PATH does not name the file any more

main   == <<fd_accept, accepted, head, cursor>>
sig    == <<EXIT_SIGNAL, handlers>>
worker == <<wpc, tid, joined, conn, reply>>
lock   == <<mutex, destroyed>>
stream == <<fp_open, written, flushed, removed>>
vars   == <<mpc, main, sig, worker, tpc, lock, stream>>

Running == mpc \notin {"exited", "failed", "killed"}

NoReply == -1

Record == [by : Workers \cup Expiries, kind : {"part", "line", "stamp"}]

Init ==
    /\ mpc = "check"
    /\ fd_accept = "bad"
    /\ accepted = 0
    /\ head = <<>>
    /\ cursor = 1
    /\ EXIT_SIGNAL = FALSE
    /\ handlers = Signals
    /\ wpc = [w \in Workers |-> "none"]
    /\ tid = [w \in Workers |-> Nobody]
    /\ joined = {}
    /\ conn = [w \in Workers |-> "bad"]
    /\ reply = [w \in Workers |-> NoReply]
    /\ tpc = [x \in Expiries |-> "none"]
    /\ mutex = Nobody
    /\ destroyed = FALSE
    /\ fp_open = TRUE
    /\ written = <<>>
    /\ flushed = 0
    /\ removed = FALSE
-----------------------------------------------------------------------------
(***************************************************************************)
(* Signals.  The source asks for _POSIX_C_SOURCE 200112L, which makes      *)
(* signal() the System V one: the handler runs once, then the default      *)
(* action is back, and a system call it interrupts returns EINTR.  Signals *)
(* sent to the process go to the main thread.                              *)
(***************************************************************************)
sigint_handler(s) ==
    /\ Running
    /\ s \in handlers
    /\ handlers' = handlers \ {s}
    /\ EXIT_SIGNAL' = TRUE
    /\ IF mpc = "accepting"
       THEN /\ mpc' = "spawn"
            /\ fd_accept' = "bad"
            /\ accepted' = accepted + 1
            /\ UNCHANGED <<head, cursor>>
       ELSE UNCHANGED <<mpc, main>>
    /\ UNCHANGED <<worker, tpc, lock, stream>>

signal_default_action(s) ==
    /\ Running
    /\ s \notin handlers
    /\ mpc' = "killed"
    /\ UNCHANGED <<main, sig, worker, tpc, lock, stream>>
-----------------------------------------------------------------------------
(***************************************************************************)
(* main.                                                                   *)
(***************************************************************************)
loop_check_mutant ==
    /\ mpc = "check"
    /\ mpc' = "accept"
    /\ UNCHANGED <<main, sig, worker, tpc, lock, stream>>

loop_check ==
    /\ mpc = "check"
    /\ mpc' = IF EXIT_SIGNAL THEN "release" ELSE "accept"
    /\ UNCHANGED <<main, sig, worker, tpc, lock, stream>>

\* The program enters the system call; from here a signal interrupts it.
accept_call ==
    /\ mpc = "accept"
    /\ mpc' = "accepting"
    /\ UNCHANGED <<main, sig, worker, tpc, lock, stream>>

Descriptors == {w \in Workers : conn[w] \in {"open", "eof", "reset"}}

\* A connection, or an error.  The check behind the call tests `ret', which
\* accept did not set, so an error goes on with -1 as if it were a socket.
accept_returns(fd) ==
    /\ mpc = "accepting"
    /\ accepted < MaxAccepts
    /\ fd = "open" => Cardinality(Descriptors) < MaxFds
    /\ mpc' = "spawn"
    /\ fd_accept' = fd
    /\ accepted' = accepted + 1
    /\ UNCHANGED <<head, cursor, sig, worker, tpc, lock, stream>>

\* Threads that are called t and were not joined yet.
Unjoined(t) == {w \in Workers \ joined : tid[w] = t}

\* malloc of the thread's data and pthread_create; the worker runs from here.
\* A pthread_t is free again once its thread was joined.
spawn(t) ==
    /\ mpc = "spawn"
    /\ Unjoined(t) = {}
    /\ mpc' = "insert"
    /\ wpc' = [wpc EXCEPT ![accepted] = "start"]
    /\ tid' = [tid EXCEPT ![accepted] = t]
    /\ conn' = [conn EXCEPT ![accepted] = fd_accept]
    /\ UNCHANGED <<main, sig, joined, reply, tpc, lock, stream>>

\* malloc or pthread_create fails: main returns without any cleanup, but for
\* the flush of the stream at exit.
spawn_fails ==
    /\ mpc = "spawn"
    /\ mpc' = "failed"
    /\ flushed' = Len(written)
    /\ UNCHANGED <<main, sig, worker, tpc, lock, fp_open, written, removed>>

\* The node of the new thread is allocated and inserted.
insert_node ==
    /\ mpc = "insert"
    /\ mpc' = "reap"
    /\ head' = Append(head, tid[accepted])
    /\ cursor' = 1
    /\ UNCHANGED <<fd_accept, accepted, sig, worker, tpc, lock, stream>>

\* The result of the node's malloc is not tested: main writes through NULL,
\* while the new worker may be anywhere.
node_malloc_fails ==
    /\ mpc = "insert"
    /\ mpc' = "killed"
    /\ UNCHANGED <<main, sig, worker, tpc, lock, stream>>

\* Waits for the thread called t.  The second join of a node finds none and
\* returns ESRCH, unless a new thread got the same pthread_t.
pthread_join(t) ==
    /\ \A w \in Unjoined(t) : wpc[w] = "exited"
    /\ joined' = joined \cup Unjoined(t)

\* check_thread_exit.  node.thread_exit holds a pointer turned into a bool,
\* which is always true, so every node is joined on every pass.
check_thread_exit ==
    /\ mpc = "reap"
    /\ cursor <= Len(head)
    /\ pthread_join(head[cursor])
    /\ cursor' = cursor + 1
    /\ UNCHANGED <<mpc, fd_accept, accepted, head, sig, wpc, tid, conn, reply,
                   tpc, lock, stream>>

check_thread_exit_done_mutant ==
    /\ mpc = "reap"
    /\ cursor >= Len(head)
    /\ mpc' = "check"
    /\ UNCHANGED <<main, sig, worker, tpc, lock, stream>>

check_thread_exit_done ==
    /\ mpc = "reap"
    /\ cursor > Len(head)
    /\ mpc' = "check"
    /\ UNCHANGED <<main, sig, worker, tpc, lock, stream>>

release_all_thread_mutant ==
    /\ mpc = "release"
    /\ head # <<>>
    /\ pthread_join(Head(head))
    /\ UNCHANGED <<mpc, main, sig, wpc, tid, conn, reply, tpc, lock, stream>>

release_all_thread ==
    /\ mpc = "release"
    /\ head # <<>>
    /\ pthread_join(Head(head))
    /\ head' = Tail(head)
    /\ UNCHANGED <<mpc, fd_accept, accepted, cursor, sig, wpc, tid, conn,
                   reply, tpc, lock, stream>>

close_stream_mutant ==
    /\ mpc = "release"
    /\ head = <<>>
    /\ mpc' = "destroy"
    /\ UNCHANGED <<main, sig, worker, tpc, lock, stream>>

\* The list is empty: fclose writes out what is buffered.
close_stream ==
    /\ mpc = "release"
    /\ head = <<>>
    /\ mpc' = "destroy"
    /\ fp_open' = FALSE
    /\ flushed' = Len(written)
    /\ UNCHANGED <<main, sig, worker, tpc, lock, written, removed>>

\* The socket is closed; destroying a mutex that is held fails with EBUSY.
destroy_mutex ==
    /\ mpc = "destroy"
    /\ mpc' = "remove"
    /\ destroyed' = (mutex = Nobody)
    /\ UNCHANGED <<main, sig, worker, tpc, mutex, stream>>

\* remove may fail, which changes nothing but a message; main returns 0, and
\* that ends every thread.
remove_file ==
    /\ mpc = "remove"
    /\ mpc' = "exited"
    /\ removed' \in BOOLEAN
    /\ UNCHANGED <<main, sig, worker, tpc, lock, fp_open, written, flushed>>
-----------------------------------------------------------------------------
(***************************************************************************)
(* thread_socket_receive.                                                  *)
(***************************************************************************)
Goto(w, l) == wpc' = [wpc EXCEPT ![w] = l]

\* fwrite of r; stdio may write out any part of its buffer on the way.
Write(r) ==
    /\ written' = Append(written, r)
    /\ flushed' \in flushed..Len(written')
    /\ UNCHANGED <<fp_open, removed>>

\* fwrite of r, then fflush.
WriteAndFlush(r) ==
    /\ written' = Append(written, r)
    /\ flushed' = Len(written')
    /\ UNCHANGED <<fp_open, removed>>

worker_lock(w) ==
    /\ Running
    /\ wpc[w] = "start"
    /\ mutex = Nobody
    /\ mutex' = w
    /\ Goto(w, "loop")
    /\ UNCHANGED <<mpc, main, sig, tid, joined, conn, reply, tpc, destroyed,
                   stream>>

worker_check_mutant(w) ==
    /\ Running
    /\ wpc[w] = "loop"
    /\ Goto(w, "recv")
    /\ UNCHANGED <<mpc, main, sig, tid, joined, conn, reply, tpc, lock, stream>>

\* When EXIT_SIGNAL ends the loop nothing is flushed.
worker_check(w) ==
    /\ Running
    /\ wpc[w] = "loop"
    /\ Goto(w, IF EXIT_SIGNAL THEN "send" ELSE "recv")
    /\ UNCHANGED <<mpc, main, sig, tid, joined, conn, reply, tpc, lock, stream>>

recv_line_mutant(w) ==
    /\ Running
    /\ wpc[w] = "recv"
    /\ conn[w] = "open"
    /\ Write([by |-> w, kind |-> "line"])
    /\ Goto(w, "send")
    /\ UNCHANGED <<mpc, main, sig, tid, joined, conn, reply, tpc, lock>>

recv_line(w) ==
    /\ Running
    /\ wpc[w] = "recv"
    /\ conn[w] = "open"
    /\ WriteAndFlush([by |-> w, kind |-> "line"])
    /\ Goto(w, "send")
    /\ UNCHANGED <<mpc, main, sig, tid, joined, conn, reply, tpc, lock>>

\* buf holds no terminating zero, so strchr may find a newline in what lies
\* behind the chunk: the loop then ends as if the client had sent one.
recv_part(w) ==
    /\ Running
    /\ wpc[w] = "recv"
    /\ conn[w] = "open"
    /\ Cardinality({i \in DOMAIN written : written[i].kind = "part"}) < MaxParts
    /\ LET r == [by |-> w, kind |-> "part"]
       IN  \/ Write(r) /\ Goto(w, "loop")
           \/ WriteAndFlush(r) /\ Goto(w, "send")
    /\ UNCHANGED <<mpc, main, sig, tid, joined, conn, reply, tpc, lock>>

\* recv returns 0 and leaves buf alone, so strchr says what it said of the
\* chunk before: no newline.  Without one, buf was never set.
recv_eof(w) ==
    /\ Running
    /\ wpc[w] = "recv"
    /\ conn[w] = "open"
    /\ conn' = [conn EXCEPT ![w] = "eof"]
    /\ \/ Goto(w, "loop") /\ UNCHANGED flushed
       \/ /\ \A i \in DOMAIN written : written[i].by # w
          /\ flushed' = Len(written)
          /\ Goto(w, "send")
    /\ UNCHANGED <<mpc, main, sig, tid, joined, reply, tpc, lock, fp_open,
                   written, removed>>

\* At the end of the stream recv returns 0 again, at once.
recv_eof_again(w) ==
    /\ Running
    /\ wpc[w] = "recv"
    /\ conn[w] = "eof"
    /\ Goto(w, "loop")
    /\ UNCHANGED <<mpc, main, sig, tid, joined, conn, reply, tpc, lock, stream>>

recv_error_mutant(w) ==
    /\ Running
    /\ wpc[w] = "recv"
    /\ conn[w] \in {"open", "bad"}
    /\ Goto(w, "leave")
    /\ UNCHANGED <<mpc, main, sig, tid, joined, conn, reply, tpc, lock, stream>>

\* recv returns -1: on a descriptor that is -1, or because the client reset
\* the connection.  The descriptor is not closed.
recv_error(w) ==
    /\ Running
    /\ wpc[w] = "recv"
    /\ conn[w] \in {"open", "bad"}
    /\ conn' = [conn EXCEPT ![w] = IF @ = "open" THEN "reset" ELSE @]
    /\ mutex' = Nobody
    /\ Goto(w, "leave")
    /\ UNCHANGED <<mpc, main, sig, tid, joined, reply, tpc, destroyed, stream>>

send_file_to_client_mutant(w) ==
    /\ Running
    /\ wpc[w] = "send"
    /\ Cardinality(Descriptors) < MaxFds
    /\ reply' = [reply EXCEPT ![w] = IF conn[w] = "bad" THEN @ ELSE flushed]
    /\ mutex' = Nobody
    /\ Goto(w, "leave")
    /\ UNCHANGED <<mpc, main, sig, tid, joined, conn, tpc, destroyed, stream>>

\* send_file_to_client, which takes one more descriptor for the file, then
\* shutdown, close and unlock.
send_file_to_client(w) ==
    /\ Running
    /\ wpc[w] = "send"
    /\ Cardinality(Descriptors) < MaxFds
    /\ reply' = [reply EXCEPT ![w] = IF conn[w] = "bad" THEN @ ELSE flushed]
    /\ conn' = [conn EXCEPT ![w] = IF @ = "bad" THEN @ ELSE "closed"]
    /\ mutex' = Nobody
    /\ Goto(w, "leave")
    /\ UNCHANGED <<mpc, main, sig, tid, joined, tpc, destroyed, stream>>

\* fopen finds no descriptor and returns NULL, which fgetc reads from.
send_file_crashes(w) ==
    /\ Running
    /\ wpc[w] = "send"
    /\ Cardinality(Descriptors) >= MaxFds
    /\ mpc' = "killed"
    /\ UNCHANGED <<main, sig, worker, tpc, lock, stream>>

\* The client has gone: its host answers the first send with a reset, and
\* the next one raises SIGPIPE, which nobody handles.
send_sigpipe(w) ==
    /\ Running
    /\ wpc[w] = "send"
    /\ Cardinality(Descriptors) < MaxFds
    /\ conn[w] # "bad"
    /\ flushed > 0
    /\ mpc' = "killed"
    /\ UNCHANGED <<main, sig, worker, tpc, lock, stream>>

worker_exit(w) ==
    /\ Running
    /\ wpc[w] = "leave"
    /\ Goto(w, "exited")
    /\ UNCHANGED <<mpc, main, sig, tid, joined, conn, reply, tpc, lock, stream>>
-----------------------------------------------------------------------------
(***************************************************************************)
(* timer_thread.  The timer is never deleted: it expires as long as the    *)
(* process lives, and every expiry is a thread of its own.                 *)
(***************************************************************************)
timer_expires(x) ==
    /\ Running
    /\ tpc[x] = "none"
    /\ tpc' = [tpc EXCEPT ![x] = "lock"]
    /\ UNCHANGED <<mpc, main, sig, worker, lock, stream>>

timer_lock_mutant(x) ==
    /\ Running
    /\ tpc[x] = "lock"
    /\ tpc' = [tpc EXCEPT ![x] = "write"]
    /\ UNCHANGED <<mpc, main, sig, worker, lock, stream>>

\* Locking a destroyed mutex returns EINVAL, which is not checked.
timer_lock(x) ==
    /\ Running
    /\ tpc[x] = "lock"
    /\ mutex = Nobody
    /\ mutex' = IF destroyed THEN mutex ELSE x
    /\ tpc' = [tpc EXCEPT ![x] = "write"]
    /\ UNCHANGED <<mpc, main, sig, worker, destroyed, stream>>

\* pthread_mutex_unlock by x.
timer_unlock(x) == mutex' = IF mutex = x THEN Nobody ELSE mutex

timer_write(x) ==
    /\ Running
    /\ tpc[x] = "write"
    /\ fp_open
    /\ Write([by |-> x, kind |-> "stamp"])
    /\ timer_unlock(x)
    /\ tpc' = [tpc EXCEPT ![x] = "done"]
    /\ UNCHANGED <<mpc, main, sig, worker, destroyed>>

\* fwrite to a stream that was closed: nothing, or a crash.
timer_write_closed(x) ==
    /\ Running
    /\ tpc[x] = "write"
    /\ ~fp_open
    /\ mpc' \in {mpc, "killed"}
    /\ timer_unlock(x)
    /\ tpc' = [tpc EXCEPT ![x] = "done"]
    /\ UNCHANGED <<main, sig, worker, destroyed, stream>>
-----------------------------------------------------------------------------
\* Steps main takes on its own; it waits in accept for a client or a signal.
MainStep ==
    \/ loop_check
    \/ accept_call
    \/ \E t \in Tids : spawn(t)
    \/ insert_node
    \/ check_thread_exit
    \/ check_thread_exit_done
    \/ release_all_thread
    \/ close_stream
    \/ destroy_mutex
    \/ remove_file

\* Steps a worker takes without its client.
WorkerStep(w) ==
    \/ worker_lock(w)
    \/ worker_check(w)
    \/ recv_eof_again(w)
    \/ conn[w] = "bad" /\ recv_error(w)
    \/ conn[w] = "bad" /\ send_file_to_client(w)
    \/ send_file_crashes(w)
    \/ worker_exit(w)

\* What a client does to its worker.  send blocks as long as the client does
\* not read, and no signal interrupts it.
ClientStep(w) ==
    \/ recv_line(w)
    \/ recv_part(w)
    \/ recv_eof(w)
    \/ conn[w] = "open" /\ recv_error(w)
    \/ conn[w] # "bad" /\ send_file_to_client(w)
    \/ send_sigpipe(w)

TimerStep(x) ==
    \/ timer_lock(x)
    \/ timer_write(x)
    \/ timer_write_closed(x)

Next ==
    \/ MainStep
    \/ \E fd \in {"open", "bad"} : accept_returns(fd)
    \/ spawn_fails
    \/ node_malloc_fails
    \/ \E s \in Signals : sigint_handler(s) \/ signal_default_action(s)
    \/ \E w \in Workers : WorkerStep(w) \/ ClientStep(w)
    \/ \E x \in Expiries : timer_expires(x) \/ TimerStep(x)

Spec == Init /\ [][Next]_vars

\* The threads of the process are scheduled; clients, signals and the clock
\* owe nothing.
Fairness ==
    /\ WF_vars(MainStep)
    /\ \A w \in Workers : WF_vars(WorkerStep(w))
    /\ \A x \in Expiries : WF_vars(TimerStep(x))

FairSpec == Spec /\ Fairness
-----------------------------------------------------------------------------
TypeOK ==
    /\ mpc \in {"check", "accept", "accepting", "spawn", "insert", "reap",
                "release", "destroy", "remove", "exited", "failed", "killed"}
    /\ fd_accept \in {"open", "bad"}
    /\ accepted \in 0..(MaxAccepts + 1)
    /\ head \in Seq(Tids)
    /\ cursor \in Nat \ {0}
    /\ EXIT_SIGNAL \in BOOLEAN
    /\ handlers \subseteq Signals
    /\ wpc \in [Workers -> {"none", "start", "loop", "recv", "send", "leave",
                            "exited"}]
    /\ tid \in [Workers -> Tids \cup {Nobody}]
    /\ joined \subseteq Workers
    /\ conn \in [Workers -> {"open", "eof", "reset", "closed", "bad"}]
    /\ reply \in [Workers -> Nat \cup {NoReply}]
    /\ tpc \in [Expiries -> {"none", "lock", "write", "done"}]
    /\ mutex \in Workers \cup Expiries \cup {Nobody}
    /\ destroyed \in BOOLEAN
    /\ fp_open \in BOOLEAN
    /\ written \in Seq(Record)
    /\ flushed \in 0..Len(written)
    /\ removed \in BOOLEAN

Alive(w) == wpc[w] \notin {"none", "exited"}

(***************************************************************************)
(* What one client sends stays together in the stream: no timestamp and no *)
(* other client's data gets between its chunks, however long it takes to   *)
(* send them ("get a lock to prevent interleaving output from timer        *)
(* thread", aesdsocket_thread.c:71).                                       *)
(***************************************************************************)
PacketsContiguous ==
    \A i, j, k \in DOMAIN written :
        i < j /\ j < k /\ written[i].by = written[k].by =>
            written[j].by = written[i].by

(***************************************************************************)
(* A client that sent a line and was answered was sent the whole stream up *)
(* to its own line, timestamps included, and nothing behind it.            *)
(***************************************************************************)
ReplyEndsWithOwnLine ==
    \A w \in Workers, i \in DOMAIN written :
        written[i] = [by |-> w, kind |-> "line"] /\ reply[w] # NoReply =>
            reply[w] = i

(***************************************************************************)
(* The workers are gone before main closes the stream and destroys the     *)
(* mutex they use, also when a pthread_t was reused and the node of the    *)
(* running thread was joined under the name of an older one.               *)
(***************************************************************************)
WorkersGoneBeforeCleanup ==
    mpc \in {"release", "destroy", "remove"} => \A w \in Workers : ~Alive(w)

(***************************************************************************)
(* Whoever holds the mutex is between lock and unlock: no path of a worker *)
(* or of the timer leaves with it.                                         *)
(***************************************************************************)
MutexHolderInside ==
    /\ \A w \in Workers :
          mutex = w <=> wpc[w] \in {"loop", "recv", "send"}
    /\ \A x \in Expiries : mutex = x => tpc[x] = "write"

(***************************************************************************)
(* Descriptors do not pile up: whenever main is back in accept or past its *)
(* loop, the only connections still open are those their clients reset,    *)
(* which the error path of thread_socket_receive leaves behind.            *)
(***************************************************************************)
OnlyResetsLeaveDescriptors ==
    mpc \in {"check", "accept", "accepting", "spawn", "release", "destroy",
             "remove"} =>
        \A w \in Descriptors : conn[w] = "reset"

\* The packets that were served, as long as the process lives: the stream
\* without what the holder of the mutex is still writing.  When the process was
\* killed, what is in the file.
Committed ==
    IF mpc = "killed"
    THEN SubSeq(written, 1, flushed)
    ELSE [i \in {j \in DOMAIN written : written[j].by # mutex} |-> written[i]]

Log == INSTANCE PacketLog
         WITH Clients <- Workers, log <- Committed, crashed <- mpc = "killed"

(***************************************************************************)
(* The server implements the packet log: whatever the order of receiving,  *)
(* flushing, signals, resets and expiries, a connection's packet enters    *)
(* the log in one step, with the answer, when its worker gives the mutex   *)
(* back.  A death of the process, at any place, takes no record that a     *)
(* client was sent, and adds at most the beginning of one packet.          *)
(***************************************************************************)
ServesAtomically == Log!Spec

\* The server as one instance of AesdSocketInstances: it listens until the
\* socket is closed, together with the mutex.
Me(v) == [i \in {"me"} |-> v]

Listening == Running /\ mpc # "remove"

\* What the starter learns.
ExitStatus ==
    IF Running THEN -1
    ELSE IF mpc = "exited" THEN 0
    ELSE IF mpc = "failed" THEN 1
    ELSE 256

Life == INSTANCE AesdSocketInstances
          WITH Instances    <- {"me"},
               Nobody       <- "nobody",
               NSEC_PER_SEC <- 1,
               Seconds      <- {0},
               Numbers      <- Nat,
               EaiErrors    <- {},
               pc           <- Me(IF Listening THEN "serving"
                                  ELSE IF Running THEN "closing" ELSE "exited"),
               daemon       <- Me(FALSE),
               status       <- Me(ExitStatus),
               start_time   <- Me([tv_sec |-> 0, tv_nsec |-> 0]),
               it_value     <- Me([tv_sec |-> 10, tv_nsec |-> 0]),
               fp           <- Me("me"),
               path         <- IF removed THEN "nobody" ELSE "me",
               content      <- Me({"me"} \X (1..flushed)),
               writes       <- Me(Len(written)),
               flushed      <- Me(flushed),
               listener     <- IF Listening THEN "me" ELSE "nobody",
               overlapped   <- {}

(***************************************************************************)
(* Seen from outside, the threads of the server are one serving instance   *)
(* of AesdSocketInstances: they add records one at a time and only as long *)
(* as the port is theirs, whatever the timer does during the cleanup; when *)
(* the port is given up, all of them are in the file; only then may the    *)
(* file go, and only who came this far reports success, whether or not the *)
(* file could be removed.                                                  *)
(***************************************************************************)
RunsAsInstance == [][Life!Serve("me")]_(Life!vars)

Ended == ~Running

(***************************************************************************)
(* Once main has left the accept loop the program ends: no join of         *)
(* release_all_thread waits for a client.                                  *)
(***************************************************************************)
ReleaseCompletes == mpc = "release" ~> Ended

(***************************************************************************)
(* A signal that interrupts accept ends the program, although main treats  *)
(* the -1 it returns as a connection and starts a thread on it.            *)
(***************************************************************************)
InterruptedAcceptEnds ==
    (mpc = "spawn" /\ fd_accept = "bad" /\ EXIT_SIGNAL) ~> Ended

(***************************************************************************)
(* A failed accept does not stop the server: it is back in accept, or it   *)
(* ends.                                                                   *)
(***************************************************************************)
FailedAcceptRecovers ==
    (mpc = "spawn" /\ fd_accept = "bad") ~> (mpc = "accepting" \/ Ended)

(***************************************************************************)
(* A worker whose client closed the connection before sending a newline    *)
(* reads the end of the stream over and over, holding the mutex while main *)
(* waits for it; a signal still ends the program, if the client takes what *)
(* it is then sent: it does not leave the worker in send for ever.         *)
(***************************************************************************)
SignalEndsSpinning ==
    \A w \in Workers :
        []<>(wpc[w] # "send") =>
            ((EXIT_SIGNAL /\ Alive(w) /\ conn[w] = "eof") ~> Ended)

(***************************************************************************)
(* "enable EXIT_SIGNAL to true to gracefully terminate the program"        *)
(* (aesdsocket.c:16): the program ends once EXIT_SIGNAL is set.            *)
(***************************************************************************)
GracefulExit == EXIT_SIGNAL ~> Ended

\* A worker that holds the mutex waits for its client, to send or to read.
WaitsForClient ==
    \E w \in Workers :
        \/ wpc[w] \in {"loop", "recv"} /\ conn[w] = "open"
        \/ wpc[w] = "send"

(***************************************************************************)
(* "this file will write timestamp in every 10 seconds" (timer_thread.c:1):*)
(* every expiry of the timer leads to its timestamp, or to a client that   *)
(* keeps the server waiting.                                               *)
(***************************************************************************)
TimestampsWritten ==
    \A x \in Expiries :
        tpc[x] = "lock" ~> (tpc[x] = "done" \/ Ended \/ WaitsForClient)
=============================================================================
