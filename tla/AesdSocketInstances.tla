------------------------ MODULE AesdSocketInstances ------------------------
(***************************************************************************)
(* Starting and stopping aesdsocket: several runs of the program on one    *)
(* machine, sharing port 9000 and the file TEMP_PATH.  An instance goes    *)
(* through main from its options to listen (aesdsocket.c:24-194), serves   *)
(* (the accept loop that AesdSocket models), and cleans up (250-269).      *)
(*                                                                         *)
(* A file is named after the instance that created it.  An instance keeps  *)
(* the file it opened; TEMP_PATH may name another one, or none, later.     *)
(* Records are what an instance wrote to its stream, numbered; they reach  *)
(* the file when the stream is flushed, and some of them before.  The      *)
(* stream is not opened for appending: two instances with the same file    *)
(* write at offsets of their own, and over each other's records.           *)
(***************************************************************************)
EXTENDS Integers

CONSTANTS
    Instances,      \* runs of the program, each started at most once
    Nobody,         \* no listener, no file
    NSEC_PER_SEC,   \* 1000000000 in the code
    Seconds,        \* tv_sec of the monotonic clock
    Numbers,        \* the numbers of the records an instance may write
    EaiErrors       \* what getaddrinfo returns when it fails (EAI_*)

ASSUME InstancesAssumption ==
    /\ Nobody \notin Instances
    /\ NSEC_PER_SEC \in Nat \ {0}
    /\ Seconds \subseteq Nat
    /\ Numbers \subseteq Nat
    /\ EaiErrors \subseteq (-255)..(-1)

VARIABLES
    pc,           \* per instance: where it is
    daemon,       \* per instance: started with -d
    status,       \* per instance: what its starter was told, see Statuses
    start_time,   \* per instance: the clock when the timer was set
    it_value,     \* per instance: when the timer expires first
    fp,           \* per instance: the file it opened
    path,         \* the file TEMP_PATH names
    content,      \* per file: the records in it
    writes,       \* per instance: how many records it wrote
    flushed,      \* per instance: how many of them have left its buffer
    listener,     \* who listens on port 9000
    overlapped    \* instances that had the file open together with another

timer == <<start_time, it_value>>
buffer == <<writes, flushed>>
disk  == <<fp, path, content, buffer, overlapped>>
vars  == <<pc, daemon, status, timer, disk, listener>>

Clock == [tv_sec : Seconds, tv_nsec : 0..(NSEC_PER_SEC - 1)]
Zero  == [tv_sec |-> 0, tv_nsec |-> 0]

Starting == {"file", "addr", "fork", "timer", "socket", "bind", "listen"}

\* i is between fopen and its exit.
Active(i) == pc[i] \in (Starting \cup {"serving", "closing"}) \ {"file"}

Goto(i, l) == pc' = [pc EXCEPT ![i] = l]

RETCODE_SUCCESS == 0
RETCODE_FAILURE == 1

\* The statuses of a process: an exit code, or that a signal killed it.
KilledStatus == 256
NoStatus == -1
Statuses == 0..KilledStatus

\* The starter learns the status s unless a parent process has told it already.
Report(i, s) ==
    status' = [status EXCEPT ![i] = IF @ = NoStatus THEN s ELSE @]

\* The process ends with the value ret; the kernel keeps its low byte.
Exit(i, ret) == Goto(i, "exited") /\ Report(i, ret % 256)

\* The first n records of i have reached its file.
FlushTo(i, n) ==
    LET mine == {r \in content[fp[i]] : r[1] = i}
        rest == content[fp[i]] \ mine
    IN  /\ flushed' = [flushed EXCEPT ![i] = n]
        /\ \E left \in IF n = flushed[i] THEN {rest} ELSE SUBSET rest :
              content' = [content EXCEPT ![fp[i]] =
                             mine \cup left \cup {i} \X ((flushed[i] + 1)..n)]

Init ==
    /\ pc = [i \in Instances |-> "none"]
    /\ daemon = [i \in Instances |-> FALSE]
    /\ status = [i \in Instances |-> NoStatus]
    /\ start_time = [i \in Instances |-> Zero]
    /\ it_value = [i \in Instances |-> Zero]
    /\ fp = [i \in Instances |-> Nobody]
    /\ path = Nobody
    /\ content = [i \in Instances |-> {}]
    /\ writes = [i \in Instances |-> 0]
    /\ flushed = [i \in Instances |-> 0]
    /\ listener = Nobody
    /\ overlapped = {}
-----------------------------------------------------------------------------
(***************************************************************************)
(* The steps of main up to the accept loop.                                *)
(***************************************************************************)
get_options(i) ==
    /\ pc[i] = "none"
    /\ daemon' \in {daemon, [daemon EXCEPT ![i] = TRUE]}
    /\ Goto(i, "file")
    /\ UNCHANGED <<status, timer, disk, listener>>

\* Mode "w": the file TEMP_PATH names is emptied, or a new one is created.
open_file(i) ==
    LET f == IF path = Nobody THEN i ELSE path
    IN  /\ pc[i] = "file"
        /\ fp' = [fp EXCEPT ![i] = f]
        /\ path' = f
        /\ content' = [content EXCEPT ![f] = {}]
        /\ overlapped' = LET others == {j \in Instances : Active(j)}
                         IN  IF others = {} THEN overlapped
                             ELSE overlapped \cup others \cup {i}
        /\ Goto(i, "addr")
        /\ UNCHANGED <<daemon, status, timer, buffer, listener>>

\* getaddrinfo for the port; it says nothing about who uses the port.
get_address(i) ==
    /\ pc[i] = "addr"
    /\ Goto(i, "fork")
    /\ UNCHANGED <<daemon, status, timer, disk, listener>>

fork_daemon_mutant(i) ==
    /\ pc[i] = "fork"
    /\ IF daemon[i] THEN Report(i, RETCODE_SUCCESS) /\ path' = Nobody
                    ELSE UNCHANGED <<status, path>>
    /\ Goto(i, "timer")
    /\ UNCHANGED <<daemon, timer, fp, content, buffer, overlapped, listener>>

\* With -d the parent exits with success at once and the child goes on.
fork_daemon(i) ==
    /\ pc[i] = "fork"
    /\ IF daemon[i] THEN Report(i, RETCODE_SUCCESS) ELSE UNCHANGED status
    /\ Goto(i, "timer")
    /\ UNCHANGED <<daemon, timer, disk, listener>>

timespec_add_mutant(ts_1, ts_2) ==
    LET sec  == ts_1.tv_sec + ts_2.tv_sec
        nsec == ts_1.tv_nsec + ts_2.tv_nsec
    IN  IF nsec < NSEC_PER_SEC
        THEN [tv_sec |-> sec + 1, tv_nsec |-> nsec - NSEC_PER_SEC]
        ELSE [tv_sec |-> sec, tv_nsec |-> nsec]

timespec_add(ts_1, ts_2) ==
    LET sec  == ts_1.tv_sec + ts_2.tv_sec
        nsec == ts_1.tv_nsec + ts_2.tv_nsec
    IN  IF nsec > NSEC_PER_SEC
        THEN [tv_sec |-> sec + 1, tv_nsec |-> nsec - NSEC_PER_SEC]
        ELSE [tv_sec |-> sec, tv_nsec |-> nsec]

it_interval == [tv_sec |-> 10, tv_nsec |-> 0]

\* timer_create, clock_gettime and timer_settime.
set_timer(i, now) ==
    /\ pc[i] = "timer"
    /\ start_time' = [start_time EXCEPT ![i] = now]
    /\ it_value' = [it_value EXCEPT ![i] = timespec_add(now, it_interval)]
    /\ Goto(i, "socket")
    /\ UNCHANGED <<daemon, status, disk, listener>>

\* socket, and setsockopt with SO_REUSEADDR.
open_socket(i) ==
    /\ pc[i] = "socket"
    /\ Goto(i, "bind")
    /\ UNCHANGED <<daemon, status, timer, disk, listener>>

\* SO_REUSEADDR: several sockets may be bound as long as nobody listens.
bind_port(i) ==
    /\ pc[i] = "bind"
    /\ listener = Nobody
    /\ Goto(i, "listen")
    /\ UNCHANGED <<daemon, status, timer, disk, listener>>

listen_port_mutant(i) ==
    /\ pc[i] = "listen"
    /\ listener' = i
    /\ Goto(i, "serving")
    /\ UNCHANGED <<daemon, status, timer, disk>>

\* listen fails with EADDRINUSE when another socket listens on the port.
listen_port(i) ==
    /\ pc[i] = "listen"
    /\ listener = Nobody
    /\ listener' = i
    /\ Goto(i, "serving")
    /\ UNCHANGED <<daemon, status, timer, disk>>

ErrorReturns_mutant ==
    [none   |-> {1},
     file   |-> {1},
     addr   |-> EaiErrors,
     fork   |-> {RETCODE_FAILURE},
     timer  |-> {RETCODE_FAILURE},
     socket |-> {0, 1},
     bind   |-> {-1},
     listen |-> {-1}]

\* What main returns or exits with when a call fails at each place: `exit' of
\* the options, `return(1)' for the file, `return(ret)' of getaddrinfo, exit
\* for fork and for the timer, `return(socket_fd)' for socket and exit(1) for
\* setsockopt, `return(ret)' of bind and of listen.
ErrorReturns ==
    [none   |-> {1},
     file   |-> {1},
     addr   |-> EaiErrors,
     fork   |-> {RETCODE_FAILURE},
     timer  |-> {RETCODE_FAILURE},
     socket |-> {-1, 1},
     bind   |-> {-1},
     listen |-> {-1}]

\* An unknown option, or a call that failed.  Whatever its reason, the end of
\* the process flushes the stream; the file stays.
start_fails(i) ==
    /\ pc[i] \in Starting \cup {"none"}
    /\ pc[i] = "fork" => daemon[i]
    /\ \E ret \in ErrorReturns[pc[i]] : Exit(i, ret)
    /\ IF fp[i] = Nobody THEN UNCHANGED <<content, flushed>>
                         ELSE FlushTo(i, writes[i])
    /\ UNCHANGED <<daemon, timer, fp, path, writes, overlapped, listener>>
-----------------------------------------------------------------------------
(***************************************************************************)
(* Serving and the end.                                                    *)
(***************************************************************************)

\* A worker or a timer thread writes to the stream, which may write out any
\* part of its buffer; the timer is set before the instance knows that it
\* will serve.
write_record(i) ==
    /\ pc[i] \in {"socket", "bind", "listen", "serving"}
    /\ writes[i] + 1 \in Numbers
    /\ writes' = [writes EXCEPT ![i] = @ + 1]
    /\ \E n \in flushed[i]..(writes[i] + 1) : FlushTo(i, n)
    /\ UNCHANGED <<pc, daemon, status, timer, fp, path, overlapped, listener>>

\* A worker that has received a newline flushes the stream, timestamps of the
\* timer threads included.
flush_stream(i) ==
    /\ pc[i] = "serving"
    /\ FlushTo(i, writes[i])
    /\ UNCHANGED <<pc, daemon, status, timer, fp, path, writes, overlapped,
                   listener>>

\* The accept loop ends, the stream and the socket are closed.
close_socket(i) ==
    /\ pc[i] = "serving"
    /\ FlushTo(i, writes[i])
    /\ listener' = Nobody
    /\ Goto(i, "closing")
    /\ UNCHANGED <<daemon, status, timer, fp, path, writes, overlapped>>

\* What TEMP_PATH names now is removed, if that is possible; main returns 0
\* in either case.
remove_file(i) ==
    /\ pc[i] = "closing"
    /\ path' \in {Nobody, path}
    /\ Exit(i, RETCODE_SUCCESS)
    /\ UNCHANGED <<daemon, timer, fp, content, buffer, overlapped, listener>>

\* A return from inside the accept loop: no cleanup but the flush.
loop_fails(i) ==
    /\ pc[i] = "serving"
    /\ listener' = Nobody
    /\ FlushTo(i, writes[i])
    /\ Exit(i, RETCODE_FAILURE)
    /\ UNCHANGED <<daemon, timer, fp, path, writes, overlapped>>

\* A signal without a handler, or the second of a kind, ends the process: what
\* is in its buffer is lost.
killed(i) ==
    /\ pc[i] \in Starting \cup {"serving", "closing"}
    /\ listener' = IF listener = i THEN Nobody ELSE listener
    /\ Report(i, KilledStatus)
    /\ Goto(i, "exited")
    /\ UNCHANGED <<daemon, timer, disk>>
-----------------------------------------------------------------------------
Start(i) ==
    \/ get_options(i)
    \/ open_file(i)
    \/ get_address(i)
    \/ fork_daemon(i)
    \/ \E now \in Clock : set_timer(i, now)
    \/ open_socket(i)
    \/ bind_port(i)
    \/ listen_port(i)
    \/ start_fails(i)

Serve(i) ==
    \/ write_record(i)
    \/ flush_stream(i)
    \/ close_socket(i)
    \/ remove_file(i)
    \/ loop_fails(i)
    \/ killed(i)

Next == \E i \in Instances : Start(i) \/ Serve(i)

Spec == Init /\ [][Next]_vars
-----------------------------------------------------------------------------
Timespec == [tv_sec : Nat, tv_nsec : Nat]

TypeOK ==
    /\ pc \in [Instances -> Starting \cup {"none", "serving", "closing",
                                           "exited"}]
    /\ daemon \in [Instances -> BOOLEAN]
    /\ status \in [Instances -> Statuses \cup {NoStatus}]
    /\ start_time \in [Instances -> Clock \cup {Zero}]
    /\ it_value \in [Instances -> Timespec]
    /\ fp \in [Instances -> Instances \cup {Nobody}]
    /\ path \in Instances \cup {Nobody}
    /\ content \in [Instances -> SUBSET (Instances \X Nat)]
    /\ writes \in [Instances -> Nat]
    /\ flushed \in [Instances -> Nat]
    /\ listener \in Instances \cup {Nobody}
    /\ overlapped \subseteq Instances

(***************************************************************************)
(* Two instances never serve at once.  bind does not see to that, since    *)
(* SO_REUSEADDR lets both of them bind before either listens: it rests on  *)
(* main checking what listen returns (aesdsocket.c:187-193).               *)
(***************************************************************************)
OneServer ==
    \A i, j \in Instances : pc[i] = "serving" /\ pc[j] = "serving" => i = j

(***************************************************************************)
(* Without -d, status 0 means that the instance did serve and went through *)
(* its cleanup: none of the error returns of main, each with a value of    *)
(* its own (aesdsocket.c:38-194), comes out as 0 in the byte that the      *)
(* starter sees.  (With -d the parent has said 0 before anything else.)    *)
(***************************************************************************)
ForegroundSuccessServed ==
    [][\A i \in Instances :
          ~daemon[i] /\ status[i] = NoStatus /\ status'[i] = 0 =>
              pc[i] = "closing"]_vars

(***************************************************************************)
(* timer_settime is given a legal time, ten seconds after the clock,       *)
(* although timespec_add does not carry when the nanoseconds add up to     *)
(* exactly one second (aesdsocket.h:36).                                   *)
(***************************************************************************)
TimerTenSecondsLater ==
    \A i \in Instances :
        pc[i] \in {"socket", "bind", "listen", "serving", "closing"} =>
            /\ it_value[i].tv_nsec \in 0..(NSEC_PER_SEC - 1)
            /\ it_value[i] = [start_time[i] EXCEPT !.tv_sec = @ + 10]

(***************************************************************************)
(* A server that never had the file open together with another instance    *)
(* finds under TEMP_PATH the file it writes to, with all that has left its *)
(* buffer, and with all it has written once its stream is closed: what     *)
(* earlier instances left behind, also killed or failed ones, does no harm.*)
(***************************************************************************)
LoneServerKeepsFile ==
    \A i \in Instances :
        pc[i] \in {"serving", "closing"} /\ i \notin overlapped =>
            /\ path = fp[i]
            /\ {i} \X (1..flushed[i]) \subseteq content[path]
            /\ pc[i] = "closing" => flushed[i] = writes[i]
=============================================================================
