-------------------------- MODULE SystemCallsProofs --------------------------
(* Theorems about SystemCalls, for any number of threads and children. *)
EXTENDS SystemCalls, FiniteSetTheorems, TLAPS

\* The place of a thread tells the function it is in, whether it has a child
\* and whether it can have a file.
PlaceAgrees ==
    \A c \in Callers :
        /\ pc[c] = "idle" <=> call[c] = "none"
        /\ pc[c] \in {"system", "waitpid"} <=> call[c] = "system"
        /\ pc[c] \in {"open", "dup2"} => call[c] = "redirect"
        /\ own[c] # NoChild <=> pc[c] \in {"wait", "waitpid"}
        /\ fd[c] # NoFile => call[c] = "redirect"

\* A lone call: the other threads are idle, its child is the only one and
\* writes to the file, or will inherit it.
LoneAgrees ==
    \A c \in alone :
        /\ pc[c] # "idle"
        /\ \A d \in Callers \ {c} : pc[d] = "idle"
        /\ \A p \in Unreaped : p = own[c]
        /\ own[c] # NoChild => own[c] \in Unreaped
        /\ pc[c] = "fork" /\ fd[c] # NoFile => stdout = fd[c]
        /\ own[c] # NoChild /\ fd[c] # NoFile => child[own[c]].out = fd[c]

IInv == TypeOK /\ ChildrenAccounted /\ PlaceAgrees /\ LoneAgrees

(***************************************************************************)
(* Counting: both sets are finite.                                         *)
(***************************************************************************)
LEMMA CountedSetsFinite ==
    /\ IsFiniteSet(Unreaped) /\ IsFiniteSet(Waiting)
    /\ IsFiniteSet(Unreaped') /\ IsFiniteSet(Waiting')
  BY SystemAssumption, FS_Subset DEF Unreaped, Waiting

(***************************************************************************)
(* Where a thread waits there is a child.                                  *)
(***************************************************************************)
LEMMA WaiterHasChild ==
    ASSUME TypeOK, ChildrenAccounted, NEW c \in Waiting
    PROVE  Unreaped # {}
<1>1. Cardinality(Waiting) \in Nat /\ Cardinality(Waiting) # 0
  BY CountedSetsFinite, FS_CardinalityType, FS_EmptySet
<1>2. Cardinality(Unreaped) # 0
  BY <1>1 DEF TypeOK, ChildrenAccounted
<1> QED
  BY <1>2, FS_EmptySet

(***************************************************************************)
(* A step that changes neither set, nor what was stolen.                   *)
(***************************************************************************)
LEMMA CountUnchanged ==
    ASSUME ChildrenAccounted, Unreaped' = Unreaped, Waiting' = Waiting,
           stolen' = stolen
    PROVE  ChildrenAccounted'
  BY DEF ChildrenAccounted

(***************************************************************************)
(* A thread begins to wait for a child that it just got.                   *)
(***************************************************************************)
LEMMA CountFork ==
    ASSUME TypeOK, ChildrenAccounted,
           NEW p, p \notin Unreaped, Unreaped' = Unreaped \cup {p},
           NEW c, c \notin Waiting, Waiting' = Waiting \cup {c},
           stolen' = stolen
    PROVE  ChildrenAccounted'
<1>1. /\ Cardinality(Unreaped') = Cardinality(Unreaped) + 1
      /\ Cardinality(Waiting') = Cardinality(Waiting) + 1
  BY CountedSetsFinite, FS_AddElement
<1>2. Cardinality(Waiting) \in Nat /\ stolen \in Nat
  BY CountedSetsFinite, FS_CardinalityType DEF TypeOK
<1> QED
  BY <1>1, <1>2 DEF ChildrenAccounted

(***************************************************************************)
(* A thread takes any child and waits no longer.                           *)
(***************************************************************************)
LEMMA CountReap ==
    ASSUME TypeOK, ChildrenAccounted,
           NEW p, p \in Unreaped, Unreaped' = Unreaped \ {p},
           NEW c, c \in Waiting, Waiting' = Waiting \ {c},
           stolen' = stolen
    PROVE  ChildrenAccounted'
<1>1. /\ Cardinality(Unreaped') = Cardinality(Unreaped) - 1
      /\ Cardinality(Waiting') = Cardinality(Waiting) - 1
  BY CountedSetsFinite, FS_RemoveElement
<1>2. Cardinality(Waiting) \in Nat /\ stolen \in Nat
  BY CountedSetsFinite, FS_CardinalityType DEF TypeOK
<1> QED
  BY <1>1, <1>2 DEF ChildrenAccounted

(***************************************************************************)
(* system() finds its child gone.                                          *)
(***************************************************************************)
LEMMA CountStolen ==
    ASSUME TypeOK, ChildrenAccounted, Unreaped' = Unreaped,
           NEW c, c \in Waiting, Waiting' = Waiting \ {c},
           stolen' = stolen + 1
    PROVE  ChildrenAccounted'
<1>1. Cardinality(Waiting') = Cardinality(Waiting) - 1
  BY CountedSetsFinite, FS_RemoveElement
<1>2. Cardinality(Waiting) \in Nat /\ stolen \in Nat
  BY CountedSetsFinite, FS_CardinalityType DEF TypeOK
<1> QED
  BY <1>1, <1>2 DEF ChildrenAccounted

(***************************************************************************)
(* What wait stores, read back: a code of one byte and a signal below 127. *)
(***************************************************************************)
LEMMA StatusValue ==
    ASSUME TypeOK, NEW p \in Pids
    PROVE  /\ Status(p) # -1 /\ Status(p) # 127
           /\ WEXITSTATUS(Status(p)) = child[p].code
<1>1. child[p].code \in 0..255 /\ child[p].sig \in 0..126
  <2>1. child[p] \in Children
    BY DEF TypeOK
  <2>2. /\ child[p].code \in ExitCodes \cup {0, 1}
        /\ child[p].sig \in Signals \cup {0}
    BY <2>1 DEF Children
  <2>3. /\ \A x \in ExitCodes : x \in 0..255
        /\ \A x \in Signals : x \in 1..126
    BY SystemAssumption, Zenon
  <2> QED
    BY <2>2, <2>3
<1>2. ASSUME NEW x \in 0..255, NEW s \in 0..126
      PROVE  /\ x * 256 + s # -1 /\ x * 256 + s # 127
             /\ ((x * 256 + s) \div 256) % 256 = x
  <2>1. x * 256 + s # -1 /\ x * 256 + s # 127
    OBVIOUS
  <2>2. (x * 256 + s) \div 256 = x
    OBVIOUS
  <2>3. x % 256 = x
    OBVIOUS
  <2> QED
    BY <2>1, <2>2, <2>3
<1> DEFINE x == child[p].code
           s == child[p].sig
<1>3. Status(p) = x * 256 + s
  BY Zenon DEF Status
<1>4. x \in 0..255 /\ s \in 0..126
  BY <1>1
<1> HIDE DEF x, s
<1>5. /\ x * 256 + s # -1 /\ x * 256 + s # 127
      /\ ((x * 256 + s) \div 256) % 256 = x
  BY <1>2, <1>4
<1> QED
  BY <1>3, <1>5, Zenon DEF WEXITSTATUS, x

(***************************************************************************)
(* Entering a function.                                                    *)
(***************************************************************************)
LEMMA EnterStep ==
    ASSUME IInv, NEW c \in Callers,
           \/ do_system(c) \/ do_exec(c)
           \/ \E f \in Files : do_exec_redirect(c, f)
    PROVE  IInv'
<1>1. PICK f, l, o :
          /\ Enter(c, f, l, o)
          /\ \/ f = "system" /\ l = "system" /\ o = NoFile
             \/ f = "exec" /\ l = "fork" /\ o = NoFile
             \/ f = "redirect" /\ l = "open" /\ o \in Files
  BY DEF do_system, do_exec, do_exec_redirect
<1>2. TypeOK'
  BY <1>1 DEF IInv, TypeOK, Enter, Functions, files
<1>3. Unreaped' = Unreaped /\ Waiting' = Waiting
  BY <1>1 DEF IInv, TypeOK, Enter, Unreaped, Waiting
<1>4. ChildrenAccounted'
  BY <1>1, <1>3, CountUnchanged DEF IInv, Enter
<1>5. PlaceAgrees'
  BY <1>1, SystemAssumption DEF IInv, TypeOK, PlaceAgrees, Enter
<1>6. LoneAgrees'
  <2> SUFFICES ASSUME c \in alone'
               PROVE  LoneAgrees'
    BY <1>1 DEF LoneAgrees, Enter
  <2>1. /\ alone' = {c} /\ Unreaped = {}
        /\ \A d \in Callers : pc[d] = "idle"
    BY <1>1 DEF Enter
  <2>2. /\ own'[c] = NoChild /\ pc'[c] = l /\ fd'[c] = o
        /\ \A d \in Callers \ {c} : pc'[d] = "idle"
    BY <1>1, <2>1 DEF Enter, IInv, TypeOK, PlaceAgrees
  <2> QED
    BY <1>1, <1>3, <2>1, <2>2 DEF LoneAgrees, Enter
<1> QED
  BY <1>2, <1>4, <1>5, <1>6 DEF IInv

(***************************************************************************)
(* Returning, with no child reaped (r, e) or with one: what Return does to *)
(* the places and to the lone call, if the children are those of its own.  *)
(***************************************************************************)
LEMMA ReturnStep ==
    ASSUME IInv, NEW c \in Callers, NEW r \in BOOLEAN, NEW e \in {0, 1},
           Return(c, r, e), UNCHANGED files, Unreaped' \subseteq Unreaped,
           \A p \in Unreaped' : child'[p] = child[p],
           child' \in [Pids -> Children], stolen' \in Nat,
           pc[c] # "idle"
    PROVE  TypeOK' /\ PlaceAgrees' /\ LoneAgrees' /\ Waiting' = Waiting \ {c}
<1>1. TypeOK'
  BY DEF IInv, TypeOK, Return, Functions, files
<1>2. PlaceAgrees'
  BY DEF IInv, TypeOK, PlaceAgrees, Return
<1>3. LoneAgrees'
  <2>1. ASSUME NEW d \in alone' PROVE FALSE
    <3>1. d \in alone /\ d # c /\ d \in Callers
      BY DEF Return, IInv, TypeOK
    <3>2. pc[c] = "idle"
      BY <3>1 DEF IInv, LoneAgrees
    <3> QED
      BY <3>2
  <2> QED
    BY <2>1 DEF LoneAgrees
<1>4. Waiting' = Waiting \ {c}
  BY DEF Waiting, Return, IInv, TypeOK
<1> QED
  BY <1>1, <1>2, <1>3, <1>4

(***************************************************************************)
(* fork, in any of the three functions.                                    *)
(***************************************************************************)
LEMMA ForkStep ==
    ASSUME IInv, NEW c \in Callers, NEW l,
           \/ pc[c] = "system" /\ l = "waitpid"
           \/ pc[c] = "fork" /\ l = "wait",
           Fork(c, l)
    PROVE  IInv'
<1> DEFINE new == [NoProcess EXCEPT !.state = "running", !.via = call[c],
                                    !.out = stdout]
<1>0. PICK p \in FreePids :
          child' = [child EXCEPT ![p] = new] /\ own' = [own EXCEPT ![c] = p]
  BY DEF Fork
<1>1. p \in Pids /\ p \notin Unreaped /\ p # NoChild
  BY SystemAssumption DEF FreePids
<1>2. /\ child' = [child EXCEPT ![p] = new]
      /\ own' = [own EXCEPT ![c] = p]
      /\ pc' = [pc EXCEPT ![c] = l]
      /\ UNCHANGED <<call, fd, result, errno, files, history>>
  BY <1>0 DEF Fork
<1>3. new \in Children /\ new.state = "running" /\ new.out = stdout
  BY DEF IInv, TypeOK, Children, NoProcess
<1> HIDE DEF new
<1>4. TypeOK'
  <2>1. child' \in [Pids -> Children]
    BY <1>1, <1>2, <1>3 DEF IInv, TypeOK
  <2>2. own' \in [Callers -> Pids \cup {NoChild}]
    BY <1>1, <1>2 DEF IInv, TypeOK
  <2> QED
    BY <1>2, <2>1, <2>2 DEF IInv, TypeOK, files, history
<1>5. Unreaped' = Unreaped \cup {p}
  BY <1>1, <1>2, <1>3 DEF IInv, TypeOK, Unreaped
<1>6. c \notin Waiting /\ Waiting' = Waiting \cup {c}
  BY <1>2 DEF IInv, TypeOK, Waiting
<1>7. ChildrenAccounted'
  BY <1>1, <1>2, <1>5, <1>6, CountFork DEF IInv, history
<1>8. PlaceAgrees'
  BY <1>1, <1>2 DEF IInv, TypeOK, PlaceAgrees
<1>9. LoneAgrees'
  <2> SUFFICES ASSUME NEW d \in alone'
               PROVE  /\ pc'[d] # "idle"
                      /\ \A x \in Callers \ {d} : pc'[x] = "idle"
                      /\ \A q \in Unreaped' : q = own'[d]
                      /\ own'[d] # NoChild => own'[d] \in Unreaped'
                      /\ pc'[d] = "fork" /\ fd'[d] # NoFile => stdout' = fd'[d]
                      /\ own'[d] # NoChild /\ fd'[d] # NoFile =>
                            child'[own'[d]].out = fd'[d]
    BY DEF LoneAgrees
  <2>1. d \in alone /\ d \in Callers
    BY <1>2 DEF history, IInv, TypeOK
  <2>2. d = c
    BY <2>1 DEF IInv, LoneAgrees
  <2>3. own[c] = NoChild /\ Unreaped = {}
    BY <2>1, <2>2, SystemAssumption DEF IInv, PlaceAgrees, LoneAgrees, Unreaped
  <2>4. own'[c] = p /\ pc'[c] = l /\ \A x \in Callers \ {c} : pc'[x] = "idle"
    BY <1>2, <2>1, <2>2 DEF IInv, TypeOK, LoneAgrees
  <2>5. fd'[c] # NoFile => stdout = fd'[c]
    BY <1>2, <2>1, <2>2 DEF IInv, LoneAgrees, PlaceAgrees
  <2>6. child'[p].out = stdout
    BY <1>1, <1>2, <1>3 DEF IInv, TypeOK
  <2> QED
    BY <1>5, <2>2, <2>3, <2>4, <2>5, <2>6
<1> QED
  BY <1>4, <1>7, <1>8, <1>9 DEF IInv

LEMMA ForkFailsStep ==
    ASSUME IInv, NEW c \in Callers, pc[c] \in {"system", "fork"}, ForkFails(c)
    PROVE  IInv'
<1>1. Return(c, FALSE, 1) /\ UNCHANGED <<child, files, stolen>>
  BY DEF ForkFails
<1>2. Unreaped' = Unreaped
  BY <1>1 DEF Unreaped
<1>3. TypeOK' /\ PlaceAgrees' /\ LoneAgrees' /\ Waiting' = Waiting \ {c}
  BY <1>1, <1>2, ReturnStep DEF IInv, TypeOK
<1>4. Waiting' = Waiting
  BY <1>3 DEF Waiting
<1>5. ChildrenAccounted'
  BY <1>1, <1>2, <1>4, CountUnchanged DEF IInv
<1> QED
  BY <1>3, <1>5 DEF IInv

(***************************************************************************)
(* What Reap does to the set of children.                                  *)
(***************************************************************************)
LEMMA ReapStep ==
    ASSUME TypeOK, NEW p, Reap(p)
    PROVE  /\ child' \in [Pids -> Children]
           /\ Unreaped' = Unreaped \ {p}
           /\ \A q \in Unreaped' : child'[q] = child[q]
<1>1. NoProcess \in Children /\ NoProcess.state = "none"
  BY DEF NoProcess, Children, Functions
<1>2. child' = [q \in Pids |-> IF q = p THEN NoProcess ELSE child[q]]
  BY DEF Reap
<1>3. child' \in [Pids -> Children]
  BY <1>1, <1>2 DEF TypeOK
<1>4. Unreaped' = Unreaped \ {p}
  BY <1>1, <1>2 DEF Unreaped
<1> QED
  BY <1>2, <1>3, <1>4 DEF Unreaped

(***************************************************************************)
(* wait always has a child to take.                                        *)
(***************************************************************************)
LEMMA WaitTakesAChild ==
    ASSUME IInv, NEW c \in Callers, Wait(c)
    PROVE  \E p \in Zombies :
              /\ p \in Unreaped /\ p \in Pids /\ Reap(p)
              /\ Return(c, child[p].code = 0, errno[c])
<1>1. c \in Waiting
  BY DEF Wait, Waiting
<1>2. Unreaped # {}
  BY <1>1, WaiterHasChild DEF IInv
<1>3. PICK p \in Zombies :
          /\ Reap(p)
          /\ \E r \in IF p = NoChild THEN BOOLEAN
                      ELSE {WEXITSTATUS(Status(p)) = 0} :
                Return(c, r, IF p = NoChild THEN 1 ELSE errno[c])
  BY <1>2 DEF Wait
<1>4. p \in Pids /\ p \in Unreaped /\ p # NoChild
  BY <1>3, SystemAssumption DEF Zombies, Unreaped
<1>5. WEXITSTATUS(Status(p)) = child[p].code
  BY <1>4, StatusValue DEF IInv
<1> QED
  BY <1>3, <1>4, <1>5

LEMMA WaitStep ==
    ASSUME IInv, NEW c \in Callers, Wait(c)
    PROVE  IInv'
<1>1. PICK p \in Zombies :
          /\ p \in Unreaped /\ p \in Pids /\ Reap(p)
          /\ Return(c, child[p].code = 0, errno[c])
  BY WaitTakesAChild
<1>2. /\ child' \in [Pids -> Children] /\ Unreaped' = Unreaped \ {p}
      /\ \A q \in Unreaped' : child'[q] = child[q]
  BY <1>1, ReapStep DEF IInv
<1>3. pc[c] = "wait" /\ UNCHANGED <<files, stolen>>
  BY DEF Wait
<1>4. /\ (child[p].code = 0) \in BOOLEAN /\ errno[c] \in {0, 1}
      /\ stolen' \in Nat
  BY <1>3 DEF IInv, TypeOK
<1>5. TypeOK' /\ PlaceAgrees' /\ LoneAgrees' /\ Waiting' = Waiting \ {c}
  BY <1>1, <1>2, <1>3, <1>4, ReturnStep
<1>6. ChildrenAccounted'
  BY <1>1, <1>2, <1>3, <1>5, CountReap DEF IInv, Waiting
<1> QED
  BY <1>5, <1>6 DEF IInv

(***************************************************************************)
(* system() returns, with its child's status or robbed of it.              *)
(***************************************************************************)
LEMMA SystemReturnsStep ==
    ASSUME IInv, NEW c \in Callers, system_returns(c)
    PROVE  IInv'
<1> DEFINE lost == own[c] \notin Zombies
           e == IF lost THEN 1 ELSE errno[c]
           r == Succeeded(IF lost THEN -1 ELSE Status(own[c]), e)
<1>1. /\ pc[c] = "waitpid" /\ own[c] \notin Running
      /\ Return(c, r, e) /\ Reap(own[c]) /\ UNCHANGED files
      /\ stolen' = IF lost THEN stolen + 1 ELSE stolen
  BY DEF system_returns
<1>2. e \in {0, 1} /\ r \in BOOLEAN /\ stolen' \in Nat
  BY <1>1 DEF IInv, TypeOK, Succeeded
<1> HIDE DEF e, r
<1>3. /\ child' \in [Pids -> Children] /\ Unreaped' = Unreaped \ {own[c]}
      /\ \A q \in Unreaped' : child'[q] = child[q]
  BY <1>1, ReapStep DEF IInv
<1>4. TypeOK' /\ PlaceAgrees' /\ LoneAgrees' /\ Waiting' = Waiting \ {c}
  BY <1>1, <1>2, <1>3, ReturnStep
<1>5. c \in Waiting
  BY <1>1 DEF Waiting
<1>6. CASE lost
  <2>1. own[c] \notin Unreaped
    BY <1>1, <1>6 DEF Unreaped, Running, Zombies, IInv, TypeOK, Children
  <2>2. Unreaped' = Unreaped
    BY <1>3, <2>1
  <2>3. ChildrenAccounted'
    BY <1>1, <1>4, <1>5, <1>6, <2>2, CountStolen DEF IInv
  <2> QED
    BY <1>4, <2>3 DEF IInv
<1>7. CASE ~lost
  <2>1. own[c] \in Unreaped
    BY <1>7 DEF Unreaped, Zombies
  <2>2. ChildrenAccounted'
    BY <1>1, <1>3, <1>4, <1>5, <1>7, <2>1, CountReap DEF IInv
  <2> QED
    BY <1>4, <2>2 DEF IInv
<1> QED
  BY <1>6, <1>7

(***************************************************************************)
(* A command ends, or cannot be executed.                                  *)
(***************************************************************************)
LEMMA EndsStep ==
    ASSUME IInv, NEW p \in Pids,
           CommandEnds(p) \/ do_exec_child(p) \/ redirect_child(p)
    PROVE  IInv'
<1>1. PICK code \in ExitCodes \cup {0, 1}, sig \in Signals \cup {0} :
          p \in Running /\ Ends(p, code, sig)
  BY DEF CommandEnds, do_exec_child, redirect_child, ExecvFails
<1> DEFINE z == [child[p] EXCEPT !.state = "zombie", !.code = code, !.sig = sig]
<1>2. /\ child' = [child EXCEPT ![p] = z]
      /\ UNCHANGED <<thread, files, history>>
  BY <1>1 DEF Ends, IInv, TypeOK
<1>3. child[p] \in Children /\ child[p].state = "running"
  BY <1>1 DEF IInv, TypeOK, Running
<1>4. z \in Children /\ z.state = "zombie" /\ z.out = child[p].out
  BY <1>1, <1>3 DEF Children
<1> HIDE DEF z
<1>5. child' \in [Pids -> Children]
  BY <1>2, <1>4 DEF IInv, TypeOK
<1>6. TypeOK'
  BY <1>2, <1>5 DEF IInv, TypeOK, thread, files, history
<1>7. Unreaped' = Unreaped
  BY <1>2, <1>3, <1>4 DEF Unreaped, IInv, TypeOK
<1>8. Waiting' = Waiting
  BY <1>2 DEF Waiting, thread
<1>9. \A q \in Pids : child'[q].out = child[q].out
  BY <1>2, <1>4 DEF IInv, TypeOK
<1>10. ChildrenAccounted'
  BY <1>2, <1>7, <1>8, CountUnchanged DEF IInv, history
<1>11. PlaceAgrees'
  BY <1>2 DEF IInv, PlaceAgrees, thread
<1>12. LoneAgrees'
  <2>1. \A c \in alone : own[c] # NoChild => own[c] \in Pids
    BY DEF IInv, TypeOK
  <2> QED
    BY <1>2, <1>7, <1>9, <2>1 DEF IInv, LoneAgrees, thread, files, history
<1> QED
  BY <1>6, <1>10, <1>11, <1>12 DEF IInv

(***************************************************************************)
(* The two calls that redirect standard output.                            *)
(***************************************************************************)
LEMMA RedirectStep ==
    ASSUME IInv, NEW c \in Callers, redirect_open(c) \/ redirect_dup2(c)
    PROVE  IInv'
<1>1. TypeOK'
  BY SystemAssumption
  DEF IInv, TypeOK, redirect_open, redirect_dup2, files, history
<1>2. /\ Unreaped' = Unreaped /\ Waiting' = Waiting
      /\ UNCHANGED <<own, child, call, history>>
  BY DEF IInv, TypeOK, Unreaped, Waiting, redirect_open, redirect_dup2
<1>3. ChildrenAccounted'
  BY <1>2, CountUnchanged DEF IInv, history
<1>4. PlaceAgrees'
  BY <1>2 DEF IInv, TypeOK, PlaceAgrees, redirect_open, redirect_dup2
<1>5. LoneAgrees'
  <2> SUFFICES ASSUME NEW d \in alone'
               PROVE  /\ pc'[d] # "idle"
                      /\ \A x \in Callers \ {d} : pc'[x] = "idle"
                      /\ \A q \in Unreaped' : q = own'[d]
                      /\ own'[d] # NoChild => own'[d] \in Unreaped'
                      /\ pc'[d] = "fork" /\ fd'[d] # NoFile => stdout' = fd'[d]
                      /\ own'[d] # NoChild /\ fd'[d] # NoFile =>
                            child'[own'[d]].out = fd'[d]
    BY DEF LoneAgrees
  <2>1. d \in alone /\ d \in Callers
    BY <1>2 DEF history, IInv, TypeOK
  <2>2. d = c
    BY <2>1 DEF IInv, LoneAgrees, redirect_open, redirect_dup2
  <2>3. own[c] = NoChild
    BY DEF IInv, PlaceAgrees, redirect_open, redirect_dup2
  <2>4. /\ pc'[c] \in {"dup2", "fork"}
        /\ \A x \in Callers \ {c} : pc'[x] = "idle"
        /\ pc'[c] = "fork" /\ fd'[c] # NoFile => stdout' = fd'[c]
    BY <2>1, <2>2 DEF IInv, TypeOK, LoneAgrees, redirect_open, redirect_dup2
  <2> QED
    BY <1>2, <2>1, <2>2, <2>3, <2>4 DEF IInv, LoneAgrees
<1> QED
  BY <1>1, <1>3, <1>4, <1>5 DEF IInv

(***************************************************************************)
(* Every step keeps the invariant.                                         *)
(***************************************************************************)
LEMMA IInvStep ==
    ASSUME IInv, [Next]_vars
    PROVE  IInv'
<1>1. CASE UNCHANGED vars
  <2>1. UNCHANGED <<thread, child, files, history>>
    BY <1>1 DEF vars
  <2>2. Unreaped' = Unreaped /\ Waiting' = Waiting
    BY <2>1 DEF Unreaped, Waiting, thread
  <2> QED
    BY <2>1, <2>2 DEF IInv, TypeOK, ChildrenAccounted, PlaceAgrees, LoneAgrees,
                      thread, files, history
<1>2. ASSUME NEW c \in Callers, do_system_null(c)
      PROVE  IInv'
  <2>1. /\ result' = [result EXCEPT ![c] = FALSE]
        /\ UNCHANGED <<pc, call, fd, own, errno, child, files, history>>
    BY <1>2 DEF do_system_null
  <2>2. Unreaped' = Unreaped /\ Waiting' = Waiting
    BY <2>1 DEF Unreaped, Waiting
  <2>3. TypeOK'
    BY <2>1 DEF IInv, TypeOK, files, history
  <2> QED
    BY <2>1, <2>2, <2>3
    DEF IInv, ChildrenAccounted, PlaceAgrees, LoneAgrees, files, history
<1>3. ASSUME NEW c \in Callers, Inside(c)
      PROVE  IInv'
  <2>1. CASE system_forks(c)
    BY <2>1, ForkStep, ForkFailsStep DEF system_forks
  <2>2. CASE system_returns(c)
    BY <2>2, SystemReturnsStep
  <2>3. CASE do_exec_fork(c) \/ redirect_fork(c)
    BY <2>3, ForkStep, ForkFailsStep DEF do_exec_fork, redirect_fork
  <2>4. CASE do_exec_wait(c) \/ redirect_wait(c)
    BY <2>4, WaitStep DEF do_exec_wait, redirect_wait
  <2>5. CASE redirect_open(c) \/ redirect_dup2(c)
    BY <2>5, RedirectStep
  <2> QED
    BY <1>3, <2>1, <2>2, <2>3, <2>4, <2>5 DEF Inside
<1> QED
  BY <1>1, <1>2, <1>3, EnterStep, EndsStep DEF Next

(***************************************************************************)
(* The invariant of the three functions, for any number of threads,        *)
(* children and descriptors.                                               *)
(***************************************************************************)
THEOREM CallsInvariant == Spec => []IInv
<1>1. ASSUME Init PROVE IInv
  <2>1. NoProcess \in Children /\ NoProcess.state = "none"
    BY DEF NoProcess, Children, Functions
  <2>2. TypeOK
    BY <1>1, <2>1, SystemAssumption DEF Init, TypeOK, Functions
  <2>3. Unreaped = {} /\ Waiting = {}
    BY <1>1, <2>1 DEF Init, Unreaped, Waiting
  <2>4. ChildrenAccounted
    BY <1>1, <2>3, FS_EmptySet DEF Init, ChildrenAccounted
  <2> QED
    BY <1>1, <2>2, <2>4 DEF Init, IInv, PlaceAgrees, LoneAgrees
<1> QED
  BY <1>1, IInvStep, PTL DEF Spec

(***************************************************************************)
(* The variables keep their types (TypeOK): standard output is always a    *)
(* file or the terminal, also after a failed open.                         *)
(***************************************************************************)
THEOREM CallsTypes == Spec => []TypeOK
<1>1. IInv => TypeOK
  BY DEF IInv
<1> QED
  BY <1>1, CallsInvariant, PTL

(***************************************************************************)
(* There is a child for every thread that waits, and one zombie for every  *)
(* system() whose child another thread's wait took (ChildrenAccounted).    *)
(***************************************************************************)
THEOREM CallsAccountForChildren == Spec => []ChildrenAccounted
<1>1. IInv => ChildrenAccounted
  BY DEF IInv
<1> QED
  BY <1>1, CallsInvariant, PTL

(***************************************************************************)
(* wait in do_exec and do_exec_redirect cannot fail for want of a child,   *)
(* so that neither tests an uninitialised status.                          *)
(***************************************************************************)
THEOREM StatusAlwaysStored ==
    Spec => [](\A c \in Callers : pc[c] = "wait" => Unreaped # {})
<1>1. IInv => \A c \in Callers : pc[c] = "wait" => Unreaped # {}
  BY WaiterHasChild DEF IInv, Waiting
<1> QED
  BY <1>1, CallsInvariant, PTL

(***************************************************************************)
(* A call that shares the process with no other call leaves no child, is   *)
(* true only of a command that was started and, for do_exec and            *)
(* do_exec_redirect of a command that was not killed, if and only if it    *)
(* exited with 0; the file gets the output (LoneCallsAreExact).  For a     *)
(* command of do_system that exits with an error nothing is claimed.       *)
(***************************************************************************)
THEOREM LoneCallsAlwaysExact == Spec => LoneCallsAreExact
<1> DEFINE Exact(c) ==
             LET forked == own[c] # NoChild
                 command == child[own[c]]
             IN  /\ Unreaped' = {}
                 /\ result'[c] => forked
                 /\ forked /\ call[c] \in {"exec", "redirect"}
                          /\ command.sig = 0 =>
                       (result'[c] <=> command.code = 0)
                 /\ forked /\ fd[c] # NoFile => command.out = fd[c]
<1>1. ASSUME IInv, Next, NEW c \in alone, pc[c] # "idle", pc'[c] = "idle"
      PROVE  Exact(c)
  <2>1. /\ c \in Callers /\ c \in DOMAIN pc /\ c \in DOMAIN result
        /\ \A d \in Callers \ {c} : pc[d] = "idle"
        /\ \A p \in Unreaped : p = own[c]
        /\ own[c] # NoChild => own[c] \in Unreaped
        /\ own[c] # NoChild /\ fd[c] # NoFile => child[own[c]].out = fd[c]
    BY <1>1 DEF IInv, TypeOK, LoneAgrees
  <2>2. /\ pc[c] \in {"system", "waitpid"} <=> call[c] = "system"
        /\ own[c] # NoChild <=> pc[c] \in {"wait", "waitpid"}
    BY <1>1, <2>1 DEF IInv, PlaceAgrees
  <2>3. Inside(c)
    <3>1. ASSUME NEW d \in Callers,
                 \/ do_system_null(d) \/ do_system(d) \/ do_exec(d)
                 \/ \E f \in Files : do_exec_redirect(d, f)
          PROVE  FALSE
      <4>1. pc[d] = "idle"
        BY <3>1 DEF do_system_null, do_system, do_exec, do_exec_redirect, Enter
      <4>2. d # c
        BY <1>1, <4>1
      <4>3. pc'[c] = pc[c]
        BY <3>1, <2>1, <4>2
        DEF do_system_null, do_system, do_exec, do_exec_redirect, Enter
      <4> QED
        BY <1>1, <4>3
    <3>2. ASSUME NEW p \in Pids,
                 CommandEnds(p) \/ do_exec_child(p) \/ redirect_child(p)
          PROVE  FALSE
      BY <1>1, <3>2 DEF CommandEnds, do_exec_child, redirect_child, ExecvFails,
                        Ends, thread
    <3>3. PICK d \in Callers : Inside(d)
      BY <1>1, <3>1, <3>2 DEF Next
    <3>4. pc[d] # "idle"
      BY <3>3 DEF Inside, system_forks, system_returns, do_exec_fork,
                  do_exec_wait, redirect_open, redirect_dup2, redirect_fork,
                  redirect_wait, Wait
    <3> QED
      BY <2>1, <3>3, <3>4
  <2>4. CASE pc[c] \in {"system", "fork"} /\ ForkFails(c)
    <3>1. own[c] = NoChild
      BY <2>2, <2>4
    <3>2. Unreaped' = Unreaped /\ result'[c] = FALSE
      BY <2>1, <2>4 DEF ForkFails, Return, Unreaped
    <3>3. Unreaped = {}
      BY <2>1, <3>1, SystemAssumption DEF Unreaped
    <3> QED
      BY <3>1, <3>2, <3>3
  <2>5. CASE call[c] \in {"exec", "redirect"} /\ Wait(c)
    <3>1. PICK p \in Zombies :
              /\ p \in Unreaped /\ p \in Pids /\ Reap(p)
              /\ Return(c, child[p].code = 0, errno[c])
      BY <1>1, <2>1, <2>5, WaitTakesAChild
    <3>2. p = own[c] /\ own[c] # NoChild
      BY <2>1, <3>1, SystemAssumption
    <3>3. Unreaped' = Unreaped \ {p}
      BY <1>1, <3>1, ReapStep DEF IInv
    <3>4. result'[c] = (child[p].code = 0)
      BY <2>1, <3>1 DEF Return
    <3> QED
      BY <2>1, <2>5, <3>2, <3>3, <3>4
  <2>6. CASE system_returns(c)
    <3>1. pc[c] = "waitpid" /\ own[c] \notin Running /\ Reap(own[c])
      BY <2>6 DEF system_returns
    <3>2. own[c] # NoChild /\ own[c] \in Unreaped /\ own[c] \in Pids
      BY <2>1, <2>2, <3>1 DEF Unreaped
    <3>3. Unreaped' = Unreaped \ {own[c]}
      BY <1>1, <3>1, ReapStep DEF IInv
    <3> QED
      BY <2>1, <2>2, <3>1, <3>2, <3>3
  <2>7. ASSUME NEW l \in {"waitpid", "wait", "dup2", "fork"},
               pc' = [pc EXCEPT ![c] = l]
        PROVE  FALSE
    BY <1>1, <2>1, <2>7
  <2> QED
    <3>1. ~Fork(c, "waitpid") /\ ~Fork(c, "wait")
      BY <2>7 DEF Fork
    <3>2. ~redirect_open(c) /\ ~redirect_dup2(c)
      BY <2>7 DEF redirect_open, redirect_dup2
    <3> HIDE DEF Exact
    <3> QED
      BY <2>3, <2>4, <2>5, <2>6, <3>1, <3>2
      DEF Inside, system_forks, do_exec_fork, do_exec_wait, redirect_fork,
          redirect_wait
<1>2. IInv /\ [Next]_vars =>
          [\A c \in alone : pc[c] # "idle" /\ pc'[c] = "idle" => Exact(c)]_vars
  BY <1>1
<1> QED
  BY <1>2, CallsInvariant, PTL DEF Spec, LoneCallsAreExact
=============================================================================
