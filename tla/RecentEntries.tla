---------------------------- MODULE RecentEntries ----------------------------
(***************************************************************************)
(* What the circular buffer promises its caller, without indices: a window *)
(* of the last Capacity entries in arrival order.  `content' lists         *)
(* Capacity entries in reading order; the first `count' are the window and *)
(* the others are leftovers.  A lookup past the end forgets the window:    *)
(* everything becomes a leftover and reading may start anywhere.           *)
(***************************************************************************)
EXTENDS Integers

CONSTANTS Capacity, Entries, None

VARIABLES content, count, evicted

vars == <<content, count, evicted>>

Places == 0..(Capacity - 1)

Init ==
    /\ content = [i \in Places |-> None]
    /\ count = 0
    /\ evicted = None

\* There is room: the entry goes behind the window and nothing is evicted.
AddToRoom(e) ==
    /\ count < Capacity
    /\ content' = [content EXCEPT ![count] = e]
    /\ count' = count + 1
    /\ evicted' = None

\* The window is full: the oldest entry is evicted and handed back.
AddEvicting(e) ==
    /\ count = Capacity
    /\ content' = [i \in Places |->
                      IF i = Capacity - 1 THEN e ELSE content[i + 1]]
    /\ count' = count
    /\ evicted' = content[0]

\* A lookup past the end: the window is forgotten, the reading order rotated.
Forget ==
    /\ \E k \in Places :
          content' = [i \in Places |-> content[(k + i) % Capacity]]
    /\ count' = 0
    /\ UNCHANGED evicted

Next == (\E e \in Entries : AddToRoom(e) \/ AddEvicting(e)) \/ Forget

Spec == Init /\ [][Next]_vars
=============================================================================
