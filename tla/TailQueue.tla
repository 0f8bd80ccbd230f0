------------------------------ MODULE TailQueue ------------------------------
(***************************************************************************)
(* The tail queue of server/src/queue.h, link by link: the list in which   *)
(* the server keeps the nodes of its threads.                              *)
(*                                                                         *)
(* A head {tqh_first, tqh_last} and an entry {tqe_next, tqe_prev} have the *)
(* same layout, and TAILQ_LAST and TAILQ_PREV rely on it when they cast    *)
(* the address of one into a pointer to the other.  Both are a cell here:  *)
(* next is its first field (tqh_first, tqe_next), prev its second one      *)
(* (tqh_last, tqe_prev).  The address of a cell's first field is the cell. *)
(***************************************************************************)
EXTENDS Integers, Sequences

CONSTANTS
    Heads,   \* the queues
    Nodes,   \* the elements
    NULL

ASSUME QueueAssumption ==
    /\ Heads \cap Nodes = {}
    /\ NULL \notin Heads \cup Nodes

Cells == Heads \cup Nodes

VARIABLES
    next,    \* per cell: the element it leads to, or NULL
    prev,    \* per cell: the address of the link that leads to it; of a head:
             \* the address of the last link
    list     \* history: the elements the user put on each queue, in order

vars == <<next, prev, list>>

OnList(h) == {list[h][i] : i \in DOMAIN list[h]}

OffList == Nodes \ UNION {OnList(h) : h \in Heads}

\* TAILQ_INIT of every head.  The links of an element that was just allocated
\* hold anything.
Init ==
    /\ next \in [Cells -> Nodes \cup {NULL}]
    /\ prev \in [Cells -> Cells]
    /\ \A h \in Heads : next[h] = NULL /\ prev[h] = h
    /\ list = [h \in Heads |-> <<>>]
-----------------------------------------------------------------------------
InsertAt(s, i, e) ==
    [j \in 1..(Len(s) + 1) |->
        IF j < i THEN s[j] ELSE IF j = i THEN e ELSE s[j - 1]]

RemoveAt(s, i) ==
    [j \in 1..(Len(s) - 1) |-> IF j < i THEN s[j] ELSE s[j + 1]]

Put(h, i, e) == list' = [list EXCEPT ![h] = InsertAt(@, i, e)]

\* Whose prev field names the link next[c]: the element behind it, or the
\* head when there is none.
Behind(h, c) == IF next[c] # NULL THEN next[c] ELSE h

TAILQ_INSERT_TAIL_mutant(h, e) ==
    /\ next' = [next EXCEPT ![e] = NULL, ![prev[h]] = e]
    /\ prev' = [prev EXCEPT ![e] = prev[h]]
    /\ Put(h, Len(list[h]) + 1, e)

TAILQ_INSERT_TAIL(h, e) ==
    /\ next' = [next EXCEPT ![e] = NULL, ![prev[h]] = e]
    /\ prev' = [prev EXCEPT ![e] = prev[h], ![h] = e]
    /\ Put(h, Len(list[h]) + 1, e)

TAILQ_INSERT_HEAD_mutant(h, e) ==
    /\ next' = [next EXCEPT ![e] = next[h], ![h] = e]
    /\ prev' = [prev EXCEPT ![h] = e, ![e] = h]
    /\ Put(h, 1, e)

TAILQ_INSERT_HEAD(h, e) ==
    /\ next' = [next EXCEPT ![e] = next[h], ![h] = e]
    /\ prev' = [prev EXCEPT ![Behind(h, h)] = e, ![e] = h]
    /\ Put(h, 1, e)

\* Behind the i-th element.
TAILQ_INSERT_AFTER(h, i, e) ==
    LET l == list[h][i]
    IN  /\ next' = [next EXCEPT ![e] = next[l], ![l] = e]
        /\ prev' = [prev EXCEPT ![Behind(h, l)] = e, ![e] = l]
        /\ Put(h, i + 1, e)

\* Before the i-th element.
TAILQ_INSERT_BEFORE(h, i, e) ==
    LET l == list[h][i]
    IN  /\ next' = [next EXCEPT ![e] = l, ![prev[l]] = e]
        /\ prev' = [prev EXCEPT ![e] = prev[l], ![l] = e]
        /\ Put(h, i, e)

TAILQ_REMOVE_mutant(h, i) ==
    LET e == list[h][i]
    IN  /\ next' = [next EXCEPT ![prev[e]] = next[e]]
        /\ prev' = IF next[e] # NULL THEN [prev EXCEPT ![next[e]] = prev[e]]
                                     ELSE prev
        /\ list' = [list EXCEPT ![h] = RemoveAt(@, i)]

TAILQ_REMOVE_type_mutant(h, i) ==
    LET e == list[h][i]
    IN  /\ next' = [next EXCEPT ![prev[e]] = next[e]]
        /\ prev' = [prev EXCEPT ![Behind(h, e)] = next[e]]
        /\ list' = [list EXCEPT ![h] = RemoveAt(@, i)]

\* The element keeps its links: TRASHIT is empty without QUEUE_MACRO_DEBUG.
TAILQ_REMOVE(h, i) ==
    LET e == list[h][i]
    IN  /\ next' = [next EXCEPT ![prev[e]] = next[e]]
        /\ prev' = [prev EXCEPT ![Behind(h, e)] = prev[e]]
        /\ list' = [list EXCEPT ![h] = RemoveAt(@, i)]

\* Moves the elements of h behind those of g.
TAILQ_CONCAT(g, h) ==
    /\ next[h] # NULL
    /\ next' = [next EXCEPT ![prev[g]] = next[h], ![h] = NULL]
    /\ prev' = [prev EXCEPT ![next[h]] = prev[g], ![g] = prev[h], ![h] = h]
    /\ list' = [list EXCEPT ![g] = list[g] \o list[h], ![h] = <<>>]

\* The first elements are told their new head; an empty queue's last link is
\* its own head.
TAILQ_SWAP(g, h) ==
    /\ next' = [next EXCEPT ![g] = next[h], ![h] = next[g]]
    /\ prev' = [prev EXCEPT ![g] = prev[h], ![h] = prev[g],
                            ![Behind(g, h)] = g, ![Behind(h, g)] = h]
    /\ list' = [list EXCEPT ![g] = list[h], ![h] = list[g]]

Next ==
    \/ \E h \in Heads, e \in OffList :
          \/ TAILQ_INSERT_TAIL(h, e)
          \/ TAILQ_INSERT_HEAD(h, e)
          \/ \E i \in DOMAIN list[h] :
                TAILQ_INSERT_AFTER(h, i, e) \/ TAILQ_INSERT_BEFORE(h, i, e)
    \/ \E h \in Heads : \E i \in DOMAIN list[h] : TAILQ_REMOVE(h, i)
    \/ \E g, h \in Heads : g # h /\ (TAILQ_CONCAT(g, h) \/ TAILQ_SWAP(g, h))

Spec == Init /\ [][Next]_vars
-----------------------------------------------------------------------------
TypeOK ==
    /\ next \in [Cells -> Nodes \cup {NULL}]
    /\ prev \in [Cells -> Cells]
    /\ list \in [Heads -> Seq(Nodes)]

\* The cells of a queue in their order: the head, then the elements.
Cell(h, i) == IF i = 0 THEN h ELSE list[h][i]

(***************************************************************************)
(* Whatever is inserted, removed, concatenated and swapped, the links of   *)
(* every queue are those of its elements in order: each leads to the next  *)
(* one and the last to NULL, and each prev field holds the address of the  *)
(* link before, that of the head closing the ring.  So no link leads to an *)
(* element that was removed (which the server frees).                      *)
(***************************************************************************)
Linked ==
    \A h \in Heads : \A i \in 0..Len(list[h]) :
        /\ next[Cell(h, i)] = IF i = Len(list[h]) THEN NULL ELSE Cell(h, i + 1)
        /\ prev[Cell(h, i)] = IF i = 0 THEN Cell(h, Len(list[h]))
                                       ELSE Cell(h, i - 1)

TAILQ_EMPTY(h) == next[h] = NULL
TAILQ_FIRST(h) == next[h]
TAILQ_NEXT(e) == next[e]
TAILQ_LAST(h) == next[prev[prev[h]]]
TAILQ_PREV(e) == next[prev[prev[e]]]

\* What var is in the k-th round of TAILQ_FOREACH and TAILQ_FOREACH_REVERSE.
TAILQ_FOREACH(h) ==
    LET var[k \in 1..(Len(list[h]) + 1)] ==
            IF k = 1 THEN TAILQ_FIRST(h) ELSE TAILQ_NEXT(var[k - 1])
    IN  var

TAILQ_FOREACH_REVERSE(h) ==
    LET var[k \in 1..(Len(list[h]) + 1)] ==
            IF k = 1 THEN TAILQ_LAST(h) ELSE TAILQ_PREV(var[k - 1])
    IN  var

(***************************************************************************)
(* A loop over a queue visits exactly its elements, in their order or in   *)
(* the reverse order, and then ends; check_thread_exit relies on it when   *)
(* it joins the threads.                                                   *)
(***************************************************************************)
LoopsVisitTheList ==
    \A h \in Heads :
        LET n == Len(list[h])
        IN  /\ TAILQ_EMPTY(h) <=> n = 0
            /\ TAILQ_FOREACH(h) = [k \in 1..(n + 1) |->
                   IF k <= n THEN list[h][k] ELSE NULL]
            /\ TAILQ_FOREACH_REVERSE(h) = [k \in 1..(n + 1) |->
                   IF k <= n THEN list[h][n + 1 - k] ELSE NULL]

QMD_TAILQ_CHECK_HEAD(h) == ~TAILQ_EMPTY(h) => prev[TAILQ_FIRST(h)] = h
QMD_TAILQ_CHECK_TAIL(h) == next[prev[h]] = NULL
QMD_TAILQ_CHECK_NEXT(e) == TAILQ_NEXT(e) # NULL => prev[TAILQ_NEXT(e)] = e
QMD_TAILQ_CHECK_PREV(e) == next[prev[e]] = e

(***************************************************************************)
(* The checks that the header makes before it changes a queue, and that    *)
(* are compiled only into a kernel (QMD_TAILQ_CHECK_HEAD, TAIL, NEXT and   *)
(* PREV), would never panic here either.                                   *)
(***************************************************************************)
ChecksNeverPanic ==
    \A h \in Heads :
        /\ QMD_TAILQ_CHECK_HEAD(h) /\ QMD_TAILQ_CHECK_TAIL(h)
        /\ \A e \in OnList(h) :
              QMD_TAILQ_CHECK_NEXT(e) /\ QMD_TAILQ_CHECK_PREV(e)
=============================================================================
