----------------------------- MODULE SystemCalls -----------------------------
(***************************************************************************)
(* examples/systemcalls/systemcalls.c: do_system, do_exec and              *)
(* do_exec_redirect, called by the threads of one process.                 *)
(*                                                                         *)
(* The children, standard output and the table of descriptors belong to    *)
(* the process, errno to each thread.  Of a command only its outcome and   *)
(* the file behind its standard output are kept.                           *)
(***************************************************************************)
EXTENDS Integers, FiniteSets

CONSTANTS
    Callers,     \* threads that call the three functions
    Files,       \* output files
    Terminal,    \* standard output of the process when it starts
    NoFile,      \* the descriptor -1
    ExitCodes,   \* what a command exits with
    Signals,     \* what a command is killed by
    Pids,        \* the children the process may have at a time
    NoChild,
    MaxFds       \* the process's limit of descriptors

ASSUME SystemAssumption ==
    /\ IsFiniteSet(Callers) /\ IsFiniteSet(Pids)
    /\ Terminal \notin Files /\ NoFile \notin Files \cup {Terminal}
    /\ ExitCodes \subseteq 0..255
    /\ Signals \subseteq 1..126
    /\ NoChild \notin Pids
    /\ MaxFds \in Nat

VARIABLES
    pc,       \* per thread: the library call it is about to make
    call,     \* per thread: the function it is in
    fd,       \* per thread: outputfile, then what open returned
    own,      \* per thread: the child this call forked, or NoChild
    result,   \* per thread: what the last call returned
    errno,    \* per thread: 0, or 1 for any error; no call resets it
    child,    \* per pid: the child
    stdout,   \* standard output of the process
    fds,      \* descriptors that were opened and never closed
    alone,    \* history: threads whose call has the process for itself
    stolen    \* history: children of system() that another thread reaped

thread == <<pc, call, fd, own, result, errno>>
files == <<stdout, fds>>
history == <<alone, stolen>>
vars == <<thread, child, files, history>>

Functions == {"none", "system", "exec", "redirect"}

\* A child: the function that forked it, its standard output, and how it
\* ended: with an exit code, or with a signal and code 0.
Children ==
    [state : {"none", "running", "zombie"}, via : Functions,
     out : Files \cup {Terminal},
     code : ExitCodes \cup {0, 1}, sig : Signals \cup {0}]

NoProcess ==
    [state |-> "none", via |-> "none", out |-> Terminal, code |-> 0, sig |-> 0]

Init ==
    /\ pc = [c \in Callers |-> "idle"]
    /\ call = [c \in Callers |-> "none"]
    /\ fd = [c \in Callers |-> NoFile]
    /\ own = [c \in Callers |-> NoChild]
    /\ result = [c \in Callers |-> FALSE]
    /\ errno = [c \in Callers |-> 0]
    /\ child = [p \in Pids |-> NoProcess]
    /\ stdout = Terminal /\ fds = 0
    /\ alone = {} /\ stolen = 0

Running == {p \in Pids : child[p].state = "running"}
Zombies == {p \in Pids : child[p].state = "zombie"}
Unreaped == {p \in Pids : child[p].state # "none"}

Waiting == {c \in Callers : pc[c] \in {"wait", "waitpid"}}
-----------------------------------------------------------------------------
(* What the functions are made of. *)

\* Thread c enters function f and will make call l first.  It has the process
\* for itself if nobody is in a call and no child was left over, until
\* somebody else enters one.
Enter(c, f, l, o) ==
    /\ pc[c] = "idle"
    /\ pc' = [pc EXCEPT ![c] = l]
    /\ call' = [call EXCEPT ![c] = f]
    /\ fd' = [fd EXCEPT ![c] = o]
    /\ result' = [result EXCEPT ![c] = FALSE]
    /\ alone' = IF Unreaped = {} /\ \A d \in Callers : pc[d] = "idle"
                  THEN {c} ELSE {}
    /\ UNCHANGED <<own, errno, child, files, stolen>>

\* The locals of the function are gone.
Return(c, r, e) ==
    /\ pc' = [pc EXCEPT ![c] = "idle"]
    /\ result' = [result EXCEPT ![c] = r]
    /\ errno' = [errno EXCEPT ![c] = e]
    /\ call' = [call EXCEPT ![c] = "none"]
    /\ fd' = [fd EXCEPT ![c] = NoFile]
    /\ own' = [own EXCEPT ![c] = NoChild]
    /\ alone' = alone \ {c}

\* fork: a child with the standard output of the process.  The kernel gives
\* it any pid that no child has, also one that was another thread's child and
\* that this thread still waits for.
FreePids == Pids \ Unreaped

Fork(c, l) ==
    /\ \E p \in FreePids :
          /\ child' = [child EXCEPT ![p] =
                          [NoProcess EXCEPT !.state = "running",
                                            !.via = call[c], !.out = stdout]]
          /\ own' = [own EXCEPT ![c] = p]
    /\ pc' = [pc EXCEPT ![c] = l]
    /\ UNCHANGED <<call, fd, result, errno, files, history>>

ForkFails(c) ==
    /\ Return(c, FALSE, 1)
    /\ UNCHANGED <<child, files, stolen>>

\* <sys/wait.h>: the status that wait stores, and its exit code.
Status(p) == child[p].code * 256 + child[p].sig

WEXITSTATUS_mutant(status) == status % 128

WEXITSTATUS(status) == (status \div 256) % 256

\* Child p, if it still is one, is gone.
Reap(p) == child' = [q \in Pids |-> IF q = p THEN NoProcess ELSE child[q]]

\* wait(&status), which takes any child that has ended, and the test of the
\* status.  Without children wait fails and status is uninitialised.
Wait(c) ==
    /\ pc[c] = "wait"
    /\ \E p \in IF Unreaped = {} THEN {NoChild} ELSE Zombies :
          /\ Reap(p)
          /\ \E r \in IF p = NoChild THEN BOOLEAN
                      ELSE {WEXITSTATUS(Status(p)) = 0} :
                Return(c, r, IF p = NoChild THEN 1 ELSE errno[c])
    /\ UNCHANGED <<files, stolen>>

Ends(p, code, sig) ==
    /\ child' = [child EXCEPT ![p] = [@ EXCEPT !.state = "zombie",
                                               !.code = code, !.sig = sig]]
    /\ UNCHANGED <<thread, files, history>>

\* execv returned in a child of function f, which it does only to report an
\* error: the child exits with 1.
ExecvFails(p, f) ==
    /\ p \in Running /\ child[p].via = f
    /\ Ends(p, 1, 0)

\* The command of child p exits or is killed.
CommandEnds(p) ==
    /\ p \in Running
    /\ \/ \E code \in ExitCodes : Ends(p, code, 0)
       \/ \E sig \in Signals : Ends(p, 0, sig)
-----------------------------------------------------------------------------
(* do_system *)

do_system_null(c) ==
    /\ pc[c] = "idle"
    /\ result' = [result EXCEPT ![c] = FALSE]
    /\ UNCHANGED <<pc, call, fd, own, errno, child, files, history>>

do_system(c) == Enter(c, "system", "system", NoFile)

system_forks(c) ==
    /\ pc[c] = "system"
    /\ Fork(c, "waitpid") \/ ForkFails(c)

\* The test of what system() returned; ret is -1 or a status.
Succeeded(ret, e) == ~(ret = -1 \/ ret = 127 \/ e # 0)

\* system() waits for its own child.  If another thread's wait took it,
\* waitpid fails with ECHILD, or takes the child that has the pid by then.
system_returns(c) ==
    /\ pc[c] = "waitpid"
    /\ own[c] \notin Running
    /\ LET lost == own[c] \notin Zombies
           ret == IF lost THEN -1 ELSE Status(own[c])
           e == IF lost THEN 1 ELSE errno[c]
       IN  /\ Return(c, Succeeded(ret, e), e)
           /\ stolen' = IF lost THEN stolen + 1 ELSE stolen
    /\ Reap(own[c])
    /\ UNCHANGED files
-----------------------------------------------------------------------------
(* do_exec *)

do_exec(c) == Enter(c, "exec", "fork", NoFile)

do_exec_fork_mutant(c) ==
    /\ pc[c] = "fork" /\ call[c] = "exec"
    /\ \/ Fork(c, "wait")
       \/ /\ pc' = [pc EXCEPT ![c] = "wait"]
          /\ UNCHANGED <<call, fd, own, result, errno, child, files, history>>

do_exec_fork(c) ==
    /\ pc[c] = "fork" /\ call[c] = "exec"
    /\ Fork(c, "wait") \/ ForkFails(c)

do_exec_child(p) == ExecvFails(p, "exec")

do_exec_wait_mutant(c) ==
    /\ pc[c] = "wait" /\ call[c] = "exec"
    /\ own[c] \in Zombies
    /\ Reap(own[c])
    /\ Return(c, WEXITSTATUS(Status(own[c])) = 0, errno[c])
    /\ UNCHANGED <<files, stolen>>

do_exec_wait(c) == call[c] = "exec" /\ Wait(c)
-----------------------------------------------------------------------------
(* do_exec_redirect *)

do_exec_redirect(c, f) == Enter(c, "redirect", "open", f)

redirect_open(c) ==
    /\ pc[c] = "open"
    /\ pc' = [pc EXCEPT ![c] = "dup2"]
    /\ \/ /\ fds < MaxFds
          /\ fds' = fds + 1
          /\ UNCHANGED <<fd, errno>>
       \/ /\ fd' = [fd EXCEPT ![c] = NoFile]
          /\ errno' = [errno EXCEPT ![c] = 1]
          /\ UNCHANGED fds
    /\ UNCHANGED <<call, own, result, child, stdout, history>>

redirect_dup2_mutant(c) ==
    /\ pc[c] = "dup2"
    /\ pc' = [pc EXCEPT ![c] = "fork"]
    /\ stdout' = fd[c]
    /\ UNCHANGED <<call, fd, own, result, errno, child, fds, history>>

\* dup2 of -1 fails and leaves standard output alone; the descriptor fd stays
\* open in either case.
redirect_dup2(c) ==
    /\ pc[c] = "dup2"
    /\ pc' = [pc EXCEPT ![c] = "fork"]
    /\ IF fd[c] = NoFile
         THEN errno' = [errno EXCEPT ![c] = 1] /\ UNCHANGED stdout
         ELSE stdout' = fd[c] /\ UNCHANGED errno
    /\ UNCHANGED <<call, fd, own, result, child, fds, history>>

redirect_fork(c) ==
    /\ pc[c] = "fork" /\ call[c] = "redirect"
    /\ Fork(c, "wait") \/ ForkFails(c)

redirect_child(p) == ExecvFails(p, "redirect")

redirect_wait(c) == call[c] = "redirect" /\ Wait(c)
-----------------------------------------------------------------------------
Inside(c) ==
    \/ system_forks(c) \/ system_returns(c)
    \/ do_exec_fork(c) \/ do_exec_wait(c)
    \/ redirect_open(c) \/ redirect_dup2(c) \/ redirect_fork(c)
    \/ redirect_wait(c)

Next ==
    \/ \E c \in Callers :
          \/ do_system_null(c) \/ do_system(c) \/ do_exec(c)
          \/ \E f \in Files : do_exec_redirect(c, f)
          \/ Inside(c)
    \/ \E p \in Pids : CommandEnds(p) \/ do_exec_child(p) \/ redirect_child(p)

Spec == Init /\ [][Next]_vars

\* The kernel schedules the threads, a thread that waits again and again
\* while there is an ended child gets one, and every command ends at last.
FairSpec ==
    /\ Spec
    /\ \A c \in Callers : SF_vars(Inside(c))
    /\ \A p \in Pids : WF_vars(CommandEnds(p))
-----------------------------------------------------------------------------
(* Properties *)

TypeOK ==
    /\ pc \in [Callers -> {"idle", "system", "waitpid", "open", "dup2", "fork",
                           "wait"}]
    /\ call \in [Callers -> Functions]
    /\ fd \in [Callers -> Files \cup {NoFile}]
    /\ own \in [Callers -> Pids \cup {NoChild}]
    /\ result \in [Callers -> BOOLEAN]
    /\ errno \in [Callers -> {0, 1}]
    /\ child \in [Pids -> Children]
    /\ stdout \in Files \cup {Terminal}
    /\ fds \in 0..MaxFds
    /\ alone \subseteq Callers
    /\ stolen \in Nat

\* wait takes any child, so a thread may find its own one gone; yet there is
\* a child for every thread that waits, since whoever takes a child has one
\* of its own to leave.  What is left over at rest is one zombie for every
\* system() that was robbed.
ChildrenAccounted ==
    Cardinality(Unreaped) = Cardinality(Waiting) + stolen

\* What is sure of a call that shares the process with no other call and no
\* left over child.  It leaves no child behind.  It returns true only if its
\* command was started.  do_exec and do_exec_redirect, of a command that was not
\* killed, return true if and only if it exited with 0.  The command of
\* do_exec_redirect writes to the file, if that could be opened.  What the
\* comments of the three functions say beyond this is not claimed, as the code
\* does not do it: false for a killed command (systemcalls.c:50-53), and false
\* for any command of do_system that exits with an error (12-15).
LoneCallsAreExact ==
    [][\A c \in alone :
          pc[c] # "idle" /\ pc'[c] = "idle" =>
              LET forked == own[c] # NoChild
                  command == child[own[c]]
              IN  /\ Unreaped' = {}
                  /\ result'[c] => forked
                  /\ forked /\ call[c] \in {"exec", "redirect"}
                           /\ command.sig = 0 =>
                        (result'[c] <=> command.code = 0)
                  /\ forked /\ fd[c] # NoFile => command.out = fd[c]
      ]_vars

\* Every call returns if commands end, also when another thread has taken the
\* child it waits for.
CallsReturn == \A c \in Callers : pc[c] # "idle" ~> pc[c] = "idle"
=============================================================================
