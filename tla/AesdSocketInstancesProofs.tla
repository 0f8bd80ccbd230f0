--------------------- MODULE AesdSocketInstancesProofs ---------------------
(***************************************************************************)
(* What holds of any number of instances of the server on one machine.     *)
(***************************************************************************)
EXTENDS AesdSocketInstances, TLAPS

\* The listener is the instance that serves.
ListenerAgrees == \A i \in Instances : pc[i] = "serving" <=> listener = i

\* An active instance has a file, and cannot have flushed more than it wrote.
\* One that never shared its file is alone, and its file is the one TEMP_PATH
\* names, with all that was flushed.
FileAgrees ==
    /\ \A i \in Instances : pc[i] \in {"none", "file"} =>
          writes[i] = 0 /\ flushed[i] = 0 /\ fp[i] = Nobody
    /\ \A i \in Instances : flushed[i] <= writes[i]
    /\ \A i \in Instances : pc[i] = "closing" => flushed[i] = writes[i]
    /\ \A i \in Instances : Active(i) => fp[i] \in Instances
    /\ \A i \in Instances : Active(i) /\ i \notin overlapped =>
          /\ path = fp[i]
          /\ \A n \in 1..flushed[i] : <<i, n>> \in content[fp[i]]
          /\ \A j \in Instances : Active(j) => j = i

IInv ==
    /\ TypeOK
    /\ ListenerAgrees
    /\ TimerTenSecondsLater
    /\ FileAgrees

\* A sum with a whole number of seconds needs no carry.
LEMMA TenSeconds ==
    ASSUME NEW now \in Clock
    PROVE  timespec_add(now, it_interval) = [now EXCEPT !.tv_sec = @ + 10]
  BY InstancesAssumption DEF timespec_add, it_interval, Clock

\* What a flush of the first n records of i leaves in the files.
LEMMA FlushFacts ==
    ASSUME TypeOK, NEW i \in Instances, NEW n \in Nat, fp[i] \in Instances,
           FlushTo(i, n)
    PROVE  /\ flushed' = [flushed EXCEPT ![i] = n]
           /\ flushed' \in [Instances -> Nat]
           /\ content' \in [Instances -> SUBSET (Instances \X Nat)]
           /\ \A m \in 1..flushed[i] :
                 <<i, m>> \in content[fp[i]] => <<i, m>> \in content'[fp[i]]
           /\ \A m \in (flushed[i] + 1)..n : <<i, m>> \in content'[fp[i]]
<1> DEFINE mine == {r \in content[fp[i]] : r[1] = i}
           rest == content[fp[i]] \ mine
           new  == {i} \X ((flushed[i] + 1)..n)
<1>1. PICK left \in SUBSET rest :
          content' = [content EXCEPT ![fp[i]] = mine \cup left \cup new]
  BY DEF FlushTo
<1>2. flushed' = [flushed EXCEPT ![i] = n]
  BY DEF FlushTo
<1>3. new \subseteq Instances \X Nat
  BY DEF TypeOK
<1>4. content[fp[i]] \subseteq Instances \X Nat
  BY DEF TypeOK
<1>5. mine \cup left \cup new \in SUBSET (Instances \X Nat)
  BY <1>1, <1>3, <1>4
<1>6. content'[fp[i]] = mine \cup left \cup new
  BY <1>1 DEF TypeOK
<1>7. content' \in [Instances -> SUBSET (Instances \X Nat)]
  BY <1>1, <1>5 DEF TypeOK
<1>8. \A m \in (flushed[i] + 1)..n : <<i, m>> \in new
  OBVIOUS
<1>9. QED
  BY <1>2, <1>6, <1>7, <1>8 DEF TypeOK

\* The first expiry is a time.
LEMMA FirstExpiryIsTime ==
    ASSUME NEW now \in Clock
    PROVE  timespec_add(now, it_interval) \in Timespec
  BY TenSeconds, InstancesAssumption DEF Clock, Timespec

\* An error return is not a multiple of 256.
LEMMA ErrorsReported ==
    ASSUME NEW l \in Starting \cup {"none"}, NEW ret \in ErrorReturns[l]
    PROVE  ret % 256 \in Statuses \ {0}
<1>1. ret \in (-255)..1 /\ ret # 0
  <2>1. \A e \in EaiErrors : e \in (-255)..(-1)
    BY InstancesAssumption
  <2>2. QED
    BY <2>1 DEF Starting, ErrorReturns, RETCODE_FAILURE
<1>2. QED
  BY <1>1 DEF Statuses, KilledStatus

LEMMA Initially == Init => IInv
  BY InstancesAssumption
     DEF Init, IInv, TypeOK, ListenerAgrees, TimerTenSecondsLater, FileAgrees,
         Active, Starting, Clock, Zero, Timespec, NoStatus

LEMMA TypeStep == IInv /\ [Next]_vars => TypeOK'
<1> SUFFICES ASSUME IInv, [Next]_vars PROVE TypeOK'
  OBVIOUS
<1> USE InstancesAssumption
    DEF IInv, TypeOK, Goto, Report, Exit, Starting, disk, buffer, timer,
        Statuses, KilledStatus, NoStatus, RETCODE_SUCCESS, RETCODE_FAILURE
<1>1. CASE UNCHANGED vars
  BY <1>1 DEF vars
<1>2. ASSUME NEW i \in Instances, Start(i) PROVE TypeOK'
  <2>1. CASE get_options(i)
    <3>1. daemon' \in [Instances -> BOOLEAN]
      BY <2>1 DEF get_options
    <3>2. pc' \in [Instances -> Starting \cup {"none", "serving", "closing",
                                              "exited"}]
      BY <2>1 DEF get_options
    <3>3. QED
      BY <2>1, <3>1, <3>2 DEF get_options
  <2>2. CASE open_file(i)
    <3> DEFINE f == IF path = Nobody THEN i ELSE path
    <3>1. f \in Instances
      OBVIOUS
    <3>2. /\ fp' \in [Instances -> Instances \cup {Nobody}]
          /\ path' \in Instances \cup {Nobody}
          /\ content' \in [Instances -> SUBSET (Instances \X Nat)]
      BY <2>2, <3>1 DEF open_file
    <3>3. overlapped' \subseteq Instances
      BY <2>2 DEF open_file
    <3>4. QED
      BY <2>2, <3>2, <3>3 DEF open_file
  <2>3. CASE get_address(i)
    BY <2>3 DEF get_address
  <2>4. CASE fork_daemon(i)
    BY <2>4 DEF fork_daemon
  <2>5. ASSUME NEW now \in Clock, set_timer(i, now) PROVE TypeOK'
    <3>1. timespec_add(now, it_interval) \in Timespec
      BY FirstExpiryIsTime
    <3>2. QED BY <2>5, <3>1 DEF set_timer
  <2>6. CASE open_socket(i)
    BY <2>6 DEF open_socket
  <2>7. CASE bind_port(i)
    BY <2>7 DEF bind_port
  <2>8. CASE listen_port(i)
    BY <2>8 DEF listen_port
  <2>9. CASE start_fails(i)
    <3>1. PICK ret \in ErrorReturns[pc[i]] : Exit(i, ret)
      BY <2>9 DEF start_fails
    <3>2. ret % 256 \in Statuses
      BY <2>9, ErrorsReported DEF start_fails
    <3>3. /\ content' \in [Instances -> SUBSET (Instances \X Nat)]
          /\ flushed' \in [Instances -> Nat]
      BY <2>9, FlushFacts DEF start_fails
    <3>4. QED
      BY <2>9, <3>1, <3>2, <3>3 DEF start_fails
  <2>10. QED
    BY <1>2, <2>1, <2>2, <2>3, <2>4, <2>5, <2>6, <2>7, <2>8, <2>9 DEF Start
<1>3. ASSUME NEW i \in Instances, Serve(i) PROVE TypeOK'
  <2>1. ASSUME NEW n \in Nat, fp[i] \in Instances, FlushTo(i, n)
        PROVE  /\ content' \in [Instances -> SUBSET (Instances \X Nat)]
               /\ flushed' \in [Instances -> Nat]
    BY <2>1, FlushFacts
  <2>2. pc[i] \in {"socket", "bind", "listen", "serving"} =>
            fp[i] \in Instances
    BY DEF FileAgrees, Active
  <2>3. CASE write_record(i)
    <3>1. PICK n \in flushed[i]..(writes[i] + 1) : FlushTo(i, n)
      BY <2>3 DEF write_record
    <3>2. n \in Nat
      OBVIOUS
    <3>3. QED
      BY <2>1, <2>2, <2>3, <3>1, <3>2 DEF write_record
  <2>4. CASE flush_stream(i)
    BY <2>1, <2>2, <2>4 DEF flush_stream
  <2>5. CASE close_socket(i)
    BY <2>1, <2>2, <2>5 DEF close_socket
  <2>6. CASE remove_file(i)
    BY <2>6 DEF remove_file
  <2>7. CASE loop_fails(i)
    BY <2>1, <2>2, <2>7 DEF loop_fails
  <2>8. CASE killed(i)
    BY <2>8 DEF killed
  <2>9. QED
    BY <1>3, <2>3, <2>4, <2>5, <2>6, <2>7, <2>8 DEF Serve
<1>4. QED
  BY <1>1, <1>2, <1>3 DEF Next

LEMMA ListenerStep == IInv /\ [Next]_vars => ListenerAgrees'
<1> SUFFICES ASSUME IInv, [Next]_vars PROVE ListenerAgrees'
  OBVIOUS
<1> USE InstancesAssumption
    DEF IInv, TypeOK, ListenerAgrees, Goto, Exit, Starting
<1>1. CASE UNCHANGED vars
  BY <1>1 DEF vars
<1>2. ASSUME NEW i \in Instances, Start(i) PROVE ListenerAgrees'
  BY <1>2 DEF Start, get_options, open_file, get_address, fork_daemon,
              set_timer, open_socket, bind_port, listen_port, start_fails
<1>3. ASSUME NEW i \in Instances, Serve(i) PROVE ListenerAgrees'
  BY <1>3 DEF Serve, write_record, flush_stream, close_socket, remove_file,
              loop_fails, killed
<1>4. QED
  BY <1>1, <1>2, <1>3 DEF Next

LEMMA TimerStep == IInv /\ [Next]_vars => TimerTenSecondsLater'
<1> SUFFICES ASSUME IInv, [Next]_vars PROVE TimerTenSecondsLater'
  OBVIOUS
<1> USE InstancesAssumption
    DEF IInv, TypeOK, TimerTenSecondsLater, Goto, Exit, timer
<1>1. CASE UNCHANGED vars
  BY <1>1 DEF vars
<1>2. ASSUME NEW i \in Instances, Start(i) PROVE TimerTenSecondsLater'
  <2>1. ASSUME NEW now \in Clock, set_timer(i, now) PROVE TimerTenSecondsLater'
    BY <2>1, TenSeconds DEF set_timer, Clock
  <2>2. CASE ~(\E now \in Clock : set_timer(i, now))
    BY <1>2, <2>2 DEF Start, get_options, open_file, get_address, fork_daemon,
              open_socket, bind_port, listen_port, start_fails
  <2>3. QED BY <2>1, <2>2
<1>3. ASSUME NEW i \in Instances, Serve(i) PROVE TimerTenSecondsLater'
  BY <1>3 DEF Serve, write_record, flush_stream, close_socket, remove_file,
              loop_fails, killed
<1>4. QED
  BY <1>1, <1>2, <1>3 DEF Next

LEMMA FileStep == IInv /\ [Next]_vars => FileAgrees'
<1> SUFFICES ASSUME IInv, [Next]_vars PROVE FileAgrees'
  OBVIOUS
<1> USE InstancesAssumption
    DEF IInv, TypeOK, FileAgrees, Active, Goto, Exit, Starting, disk, buffer
<1>1. CASE UNCHANGED vars
  BY <1>1 DEF vars
<1>2. ASSUME NEW i \in Instances, Start(i) PROVE FileAgrees'
  <2>1. CASE open_file(i)
    <3> DEFINE f      == IF path = Nobody THEN i ELSE path
               others == {j \in Instances : Active(j)}
    <3>1. /\ f \in Instances
          /\ pc' = [pc EXCEPT ![i] = "addr"]
          /\ fp' = [fp EXCEPT ![i] = f]
          /\ path' = f
          /\ UNCHANGED <<writes, flushed>>
          /\ writes[i] = 0 /\ flushed[i] = 0
      BY <2>1 DEF open_file
    <3>2. CASE others = {}
      \* i is alone, and has written nothing yet.
      BY <3>1, <3>2
    <3>3. CASE others # {}
      \* Whoever is active shares the file now.
      <4>1. overlapped' = overlapped \cup others \cup {i}
        BY <2>1, <3>3 DEF open_file
      <4>2. QED BY <3>1, <4>1
    <3>4. QED BY <3>2, <3>3
  <2>2. CASE start_fails(i)
    <3>1. /\ pc' = [pc EXCEPT ![i] = "exited"]
          /\ UNCHANGED <<fp, path, writes, overlapped>>
      BY <2>2 DEF start_fails
    <3>2. CASE fp[i] = Nobody
      BY <2>2, <3>1, <3>2 DEF start_fails
    <3>3. CASE fp[i] # Nobody
      \* i is active, so that nobody else is alone.
      <4>1. Active(i) /\ flushed' = [flushed EXCEPT ![i] = writes[i]]
        BY <2>2, <3>3, FlushFacts DEF start_fails
      <4>2. QED BY <3>1, <4>1
    <3>4. QED BY <3>2, <3>3
  <2>3. CASE ~open_file(i) /\ ~start_fails(i)
    BY <1>2, <2>3 DEF Start, get_options, get_address, fork_daemon, set_timer,
              open_socket, bind_port, listen_port
  <2>4. QED BY <2>1, <2>2, <2>3
<1>3. ASSUME NEW i \in Instances, Serve(i) PROVE FileAgrees'
  <2>1. ASSUME pc[i] \in {"socket", "bind", "listen", "serving"},
               NEW n \in Nat, flushed[i] <= n, FlushTo(i, n)
        PROVE  /\ Active(i) /\ flushed' = [flushed EXCEPT ![i] = n]
               /\ i \notin overlapped =>
                     \A m \in 1..n : <<i, m>> \in content'[fp[i]]
    <3>1. fp[i] \in Instances /\ Active(i)
      BY <2>1
    <3>2. \A m \in 1..n : m \in 1..flushed[i] \/ m \in (flushed[i] + 1)..n
      BY <2>1
    <3>3. QED
      BY <2>1, <3>1, <3>2, FlushFacts
  <2>2. CASE write_record(i)
    <3>1. /\ UNCHANGED <<pc, fp, path, overlapped>>
          /\ writes' = [writes EXCEPT ![i] = @ + 1]
          /\ pc[i] \in {"socket", "bind", "listen", "serving"}
      BY <2>2 DEF write_record
    <3>2. PICK n \in flushed[i]..(writes[i] + 1) : FlushTo(i, n)
      BY <2>2 DEF write_record
    <3>3. n \in Nat /\ flushed[i] <= n /\ n <= writes[i] + 1
      OBVIOUS
    <3>4. QED
      BY <2>1, <3>1, <3>2, <3>3
  <2>3. CASE flush_stream(i) \/ close_socket(i)
    <3>1. /\ pc[i] = "serving" /\ FlushTo(i, writes[i])
          /\ UNCHANGED <<fp, path, writes, overlapped>>
          /\ pc' \in {pc, [pc EXCEPT ![i] = "closing"]}
      BY <2>3 DEF flush_stream, close_socket
    <3>2. /\ flushed' = [flushed EXCEPT ![i] = writes[i]]
          /\ i \notin overlapped =>
                \A m \in 1..writes[i] : <<i, m>> \in content'[fp[i]]
      BY <2>1, <3>1
    <3>3. \A j \in Instances : Active(j)' <=> Active(j)
      BY <3>1
    <3>4. QED
      BY <3>1, <3>2, <3>3
  <2>4. CASE remove_file(i)
    BY <2>4 DEF remove_file
  <2>5. CASE loop_fails(i)
    <3>1. /\ pc[i] = "serving" /\ FlushTo(i, writes[i])
          /\ UNCHANGED <<fp, path, writes, overlapped>>
          /\ pc' = [pc EXCEPT ![i] = "exited"]
      BY <2>5 DEF loop_fails
    <3>2. QED
      BY <2>1, <3>1
  <2>6. CASE killed(i)
    BY <2>6 DEF killed
  <2>7. QED
    BY <1>3, <2>2, <2>3, <2>4, <2>5, <2>6 DEF Serve
<1>4. QED
  BY <1>1, <1>2, <1>3 DEF Next

\* The inductive invariant holds of every run of the program.
THEOREM Invariance == Spec => []IInv
<1>1. IInv /\ [Next]_vars => IInv'
  BY TypeStep, ListenerStep, TimerStep, FileStep DEF IInv
<1>2. QED
  BY Initially, <1>1, PTL DEF Spec

\* The variables of any number of instances keep their types.
THEOREM TypeCorrect == Spec => []TypeOK
<1>1. IInv => TypeOK
  BY DEF IInv
<1>2. QED
  BY Invariance, <1>1, PTL

\* At most one instance serves, since main checks what listen returned.
THEOREM AlwaysOneServer == Spec => []OneServer
<1>1. IInv => OneServer
  BY DEF IInv, ListenerAgrees, OneServer
<1>2. QED
  BY Invariance, <1>1, PTL

\* The timer is set to a legal time ten seconds after the clock.
THEOREM TimerAlwaysTenSecondsLater == Spec => []TimerTenSecondsLater
<1>1. IInv => TimerTenSecondsLater
  BY DEF IInv
<1>2. QED
  BY Invariance, <1>1, PTL

\* A server whose file was never shared finds it under TEMP_PATH, with all that
\* it has flushed, and with all it has written once the stream is closed.
THEOREM LoneServerAlwaysKeepsFile == Spec => []LoneServerKeepsFile
<1>1. IInv => LoneServerKeepsFile
  BY DEF IInv, FileAgrees, LoneServerKeepsFile, Active, Starting
<1>2. QED
  BY Invariance, <1>1, PTL

\* A foreground instance that reports success has served and gone through its
\* cleanup: the value of every error return of main has a low byte that is not
\* 0 (ForegroundSuccessServed).
THEOREM SuccessMeansServed == Spec => ForegroundSuccessServed
<1>1. IInv /\ [Next]_vars =>
        [\A i \in Instances :
            ~daemon[i] /\ status[i] = NoStatus /\ status'[i] = 0 =>
                pc[i] = "closing"]_vars
  <2> SUFFICES ASSUME IInv, Next, NEW i \in Instances, ~daemon[i],
                      status[i] = NoStatus, status'[i] = 0
               PROVE  pc[i] = "closing"
    OBVIOUS
  <2> USE DEF IInv, TypeOK, Report, Exit, NoStatus
  <2>1. PICK j \in Instances : Start(j) \/ Serve(j)
    BY DEF Next
  <2>2. ~start_fails(j)
    <3> SUFFICES ASSUME start_fails(j) PROVE FALSE
      OBVIOUS
    <3>1. PICK ret \in ErrorReturns[pc[j]] :
              status' = [status EXCEPT ![j] = IF @ = NoStatus THEN ret % 256
                                              ELSE @]
      BY DEF start_fails
    <3>2. ret % 256 # 0
      BY ErrorsReported DEF start_fails
    <3>3. QED
      BY <3>1, <3>2
  <2>3. ~loop_fails(j) /\ ~killed(j)
    BY DEF loop_fails, killed, RETCODE_FAILURE, KilledStatus
  <2>4. QED
    BY <2>1, <2>2, <2>3
    DEF Start, Serve, get_options, open_file, get_address, fork_daemon,
        set_timer, open_socket, bind_port, listen_port, write_record,
        flush_stream, close_socket, remove_file
<1>2. QED
  BY Invariance, <1>1, PTL DEF Spec, ForegroundSuccessServed
=============================================================================
