------------------------ MODULE CircularBufferProofs ------------------------
(***************************************************************************)
(* Theorems about CircularBufferSpec for every ENTRY_SIZE, every set of    *)
(* sizes and positions and every number of adds.                           *)
(***************************************************************************)
EXTENDS CircularBufferSpec, CircularBufferLemmas, SequenceTheorems

(***************************************************************************)
(* The inductive invariant.  ReturnedIsGone is not inductive alone: that a *)
(* freshly added block is in no slot yet needs the bound on the pointers   *)
(* in use, and that a returned block has left its slot needs in_offs =     *)
(* out_offs in a full buffer.                                              *)
(***************************************************************************)
PointersBounded ==
    /\ \A i \in Slots : buffer.entry[i].buffptr <= added
    /\ returned.buffptr <= added

IInv == TypeOK /\ IndicesConsistent /\ PointersBounded /\ ReturnedIsGone

LEMMA IInvInit == Init => IInv
<1> SUFFICES ASSUME Init PROVE IInv
  OBVIOUS
<1>1. TypeOK /\ IndicesConsistent
  BY InitBuffer DEF Init, TypeOK, IndicesConsistent, NullEntry, Entry, NULL
<1>2. PointersBounded /\ ReturnedIsGone
  BY DEF Init, PointersBounded, ReturnedIsGone, aesd_circular_buffer_init,
         NullEntry, NULL
<1> QED
  BY <1>1, <1>2 DEF IInv

LEMMA IInvAdd ==
    ASSUME IInv, NEW size \in Sizes, Add(size)
    PROVE  IInv'
<1> DEFINE e == [buffptr |-> added + 1, size |-> size]
<1>1. /\ buffer \in Buffer
      /\ IndicesAgree(buffer)
      /\ added \in Nat
      /\ e \in Entry
  BY CallerAssumption DEF IInv, TypeOK, IndicesConsistent, Entry
<1>2. /\ buffer.entry \in [Slots -> Entry]
      /\ buffer.in_offs \in Slots
      /\ buffer.out_offs \in Slots
      /\ buffer.full \in BOOLEAN
  BY <1>1 DEF Buffer
<1>3. /\ buffer' = aesd_circular_buffer_add_entry(buffer, e)
      /\ added' = added + 1
      /\ returned' = add_entry_returned(buffer)
  BY DEF Add
<1>4. /\ buffer' \in Buffer
      /\ IndicesAgree(buffer')
      /\ buffer'.entry = [buffer.entry EXCEPT ![buffer.in_offs] = e]
      /\ returned' \in Entry
  BY <1>1, <1>3, AddEntry
<1>5. TypeOK' /\ IndicesConsistent'
  BY <1>1, <1>3, <1>4 DEF TypeOK, IndicesConsistent
<1>6. returned' = IF buffer.full THEN buffer.entry[buffer.in_offs]
                  ELSE NullEntry
  BY <1>1, <1>3 DEF add_entry_returned, IndicesAgree
<1>7. \A i \in Slots : buffer.entry[i].buffptr \in Nat
  BY <1>2 DEF Entry
<1>8. PointersBounded'
  BY <1>1, <1>2, <1>3, <1>4, <1>6, <1>7
     DEF IInv, PointersBounded, NullEntry, NULL
<1>9. ReturnedIsGone'
  <2>1. \A i \in Slots : buffer'.entry[i].buffptr =
            IF i = buffer.in_offs THEN added + 1 ELSE buffer.entry[i].buffptr
    BY <1>2, <1>4
  <2>2. \A i, j \in Slots :
            buffer'.entry[i].buffptr = buffer'.entry[j].buffptr =>
                i = j \/ buffer'.entry[i].buffptr = NULL
    BY <1>1, <1>2, <1>7, <2>1 DEF IInv, PointersBounded, ReturnedIsGone
  <2>3. ASSUME returned'.buffptr # NULL, NEW i \in Slots
        PROVE  buffer'.entry[i].buffptr # returned'.buffptr
    <3>1. buffer.full /\ returned' = buffer.entry[buffer.in_offs]
      BY <1>6, <2>3 DEF NullEntry
    <3>2. CASE i = buffer.in_offs
      BY <1>1, <1>2, <1>7, <2>1, <3>1, <3>2 DEF IInv, PointersBounded
    <3>3. CASE i # buffer.in_offs
      BY <1>2, <2>1, <2>3, <3>1, <3>3 DEF IInv, ReturnedIsGone
    <3> QED
      BY <3>2, <3>3
  <2> QED
    BY <2>2, <2>3 DEF ReturnedIsGone
<1> QED
  BY <1>5, <1>8, <1>9 DEF IInv

LEMMA IInvFind ==
    ASSUME IInv, NEW char_offset \in Positions, Find(char_offset)
    PROVE  IInv'
<1>1. /\ buffer' = buffer \/ buffer' = find_miss_reset(buffer)
      /\ UNCHANGED <<added, returned>>
  BY DEF Find
<1>2. buffer \in Buffer /\ IndicesAgree(buffer)
  BY DEF IInv, TypeOK, IndicesConsistent
<1>3. /\ buffer' \in Buffer
      /\ IndicesAgree(buffer')
      /\ buffer'.entry = buffer.entry
  BY <1>1, <1>2, MissReset
<1> QED
  BY <1>1, <1>3
     DEF IInv, TypeOK, IndicesConsistent, PointersBounded, ReturnedIsGone

LEMMA IInvNext == IInv /\ [Next]_vars => IInv'
<1> SUFFICES ASSUME IInv, [Next]_vars PROVE IInv'
  OBVIOUS
<1>1. ASSUME NEW size \in Sizes, Add(size) PROVE IInv'
  BY <1>1, IInvAdd
<1>2. ASSUME NEW char_offset \in Positions, Find(char_offset) PROVE IInv'
  BY <1>2, IInvFind
<1>3. CASE UNCHANGED vars
  BY <1>3 DEF vars, IInv, TypeOK, IndicesConsistent, PointersBounded,
              ReturnedIsGone
<1> QED
  BY <1>1, <1>2, <1>3 DEF Next

LEMMA IInvAlways == Spec => []IInv
BY IInvInit, IInvNext, PTL DEF Spec

(***************************************************************************)
(* Type correctness of the buffer and of what add hands back.              *)
(***************************************************************************)
THEOREM TypeCorrect == Spec => []TypeOK
<1>1. IInv => TypeOK
  BY DEF IInv
<1> QED
  BY <1>1, IInvAlways, PTL

(***************************************************************************)
(* The flag and the indices of the buffer agree after any sequence of adds *)
(* and lookups, failed lookups included.                                   *)
(***************************************************************************)
THEOREM IndicesAlwaysConsistent == Spec => []IndicesConsistent
<1>1. IInv => IndicesConsistent
  BY DEF IInv
<1> QED
  BY <1>1, IInvAlways, PTL

(***************************************************************************)
(* What add hands back to be freed is in no slot, and no block is in two   *)
(* slots: freeing it cannot leave the buffer with a dangling pointer.      *)
(***************************************************************************)
THEOREM ReturnedAlwaysGone == Spec => []ReturnedIsGone
<1>1. IInv => ReturnedIsGone
  BY DEF IInv
<1> QED
  BY <1>1, IInvAlways, PTL
-----------------------------------------------------------------------------
(***************************************************************************)
(* The refinement.  Each kind of step, seen through the reading order.     *)
(***************************************************************************)
LEMMA AddToRoomStep ==
    ASSUME IInv, NEW size \in Sizes, Add(size), ~buffer.full
    PROVE  \E e \in [buffptr : 1..MaxAdds, size : Sizes] : Recent!AddToRoom(e)
<1> DEFINE e == [buffptr |-> added + 1, size |-> size]
<1>1. /\ buffer \in Buffer
      /\ IndicesAgree(buffer)
      /\ e \in Entry
      /\ e \in [buffptr : 1..MaxAdds, size : Sizes]
  BY CallerAssumption
     DEF IInv, TypeOK, IndicesConsistent, Entry, Add
<1>2. /\ buffer.entry \in [Slots -> Entry]
      /\ buffer.in_offs \in Slots
      /\ buffer.out_offs = 0
  BY <1>1 DEF Buffer, IndicesAgree
<1>3. /\ buffer'.entry = [buffer.entry EXCEPT ![buffer.in_offs] = e]
      /\ buffer'.out_offs = 0
      /\ buffer'.in_offs = Advance(buffer.in_offs)
      /\ buffer'.full = (Advance(buffer.in_offs) = 0)
  BY <1>1, <1>2, AddEntry DEF Add
<1>4. \A i \in Slots : Slot(0, i) = i
  BY SlotZero
<1>5. /\ EntryCount(buffer) = buffer.in_offs
      /\ EntryCount(buffer) < ENTRY_SIZE
      /\ EntryCount(buffer)' = EntryCount(buffer) + 1
  <2>1. /\ EntryCount(buffer) = buffer.in_offs
        /\ EntryCount(buffer) < ENTRY_SIZE
    BY <1>2, EntrySizeAssumption DEF EntryCount, Slots
  <2>2. EntryCount(buffer)' = IF Advance(buffer.in_offs) = 0 THEN ENTRY_SIZE
                              ELSE Advance(buffer.in_offs)
    BY <1>3 DEF EntryCount
  <2>3. /\ buffer.in_offs + 1 < ENTRY_SIZE =>
              Advance(buffer.in_offs) = buffer.in_offs + 1
        /\ buffer.in_offs + 1 >= ENTRY_SIZE => Advance(buffer.in_offs) = 0
    BY <1>2, AdvanceValue
  <2> QED
    BY <1>2, <2>1, <2>2, <2>3, EntrySizeAssumption DEF Slots
<1>6. ReadingOrder(buffer)' = [ReadingOrder(buffer) EXCEPT ![buffer.in_offs] = e]
  BY <1>2, <1>3, <1>4 DEF ReadingOrder
<1>7. returned' = NullEntry
  BY DEF Add, add_entry_returned
<1>8. Recent!AddToRoom(e)
  BY <1>5, <1>6, <1>7 DEF Recent!AddToRoom
<1> QED
  BY <1>1, <1>8

LEMMA AddEvictingStep ==
    ASSUME IInv, NEW size \in Sizes, Add(size), buffer.full
    PROVE  \E e \in [buffptr : 1..MaxAdds, size : Sizes] : Recent!AddEvicting(e)
<1> DEFINE e == [buffptr |-> added + 1, size |-> size]
           out == buffer.out_offs
<1>1. /\ buffer \in Buffer
      /\ IndicesAgree(buffer)
      /\ e \in Entry
      /\ e \in [buffptr : 1..MaxAdds, size : Sizes]
  BY CallerAssumption
     DEF IInv, TypeOK, IndicesConsistent, Entry, Add
<1>2. /\ buffer.entry \in [Slots -> Entry]
      /\ out \in Slots
      /\ buffer.in_offs = out
  BY <1>1 DEF Buffer, IndicesAgree
<1>3. /\ buffer'.entry = [buffer.entry EXCEPT ![out] = e]
      /\ buffer'.out_offs = Advance(out)
      /\ buffer'.full = TRUE
  <2>1. buffer' = aesd_circular_buffer_add_entry(buffer, e)
    BY DEF Add
  <2>2. /\ buffer'.entry = [buffer.entry EXCEPT ![buffer.in_offs] = e]
        /\ buffer'.out_offs = Advance(buffer.out_offs)
        /\ buffer'.full = (buffer.full \/ Advance(buffer.in_offs) = 0)
    BY <1>1, <2>1, AddEntry
  <2> QED
    BY <1>2, <2>2
<1>4. 0 \in Slots
  BY SlotZero, <1>2
<1>6. ASSUME NEW i \in Slots, i = ENTRY_SIZE - 1
      PROVE  Slot(Advance(out), i) = out
  BY <1>2, <1>6, SlotShift
<1>7. ASSUME NEW i \in Slots, i # ENTRY_SIZE - 1
      PROVE  /\ i + 1 \in Slots
             /\ Slot(Advance(out), i) = Slot(out, i + 1)
             /\ Slot(out, i + 1) \in Slots
             /\ Slot(out, i + 1) # out
  BY <1>2, <1>7, SlotShift
<1>8. Slot(out, 0) = out
  BY <1>2, SlotZero
<1>9. ReadingOrder(buffer)' =
        [i \in Slots |-> IF i = ENTRY_SIZE - 1 THEN e
                         ELSE ReadingOrder(buffer)[i + 1]]
  <2>1. ASSUME NEW i \in Slots
        PROVE  buffer'.entry[Slot(Advance(out), i)] =
                 IF i = ENTRY_SIZE - 1 THEN e ELSE ReadingOrder(buffer)[i + 1]
    BY <1>2, <1>3, <1>6, <1>7 DEF ReadingOrder
  <2> QED
    BY <1>3, <2>1 DEF ReadingOrder
<1>10. /\ EntryCount(buffer) = ENTRY_SIZE
       /\ EntryCount(buffer)' = EntryCount(buffer)
  BY <1>3 DEF EntryCount
<1>11. returned' = ReadingOrder(buffer)[0]
  BY <1>4, <1>8 DEF Add, add_entry_returned, ReadingOrder
<1>12. Recent!AddEvicting(e)
  BY <1>9, <1>10, <1>11 DEF Recent!AddEvicting, Recent!Places, Slots
<1> QED
  BY <1>1, <1>12

LEMMA ForgetStep ==
    ASSUME IInv, buffer' = find_miss_reset(buffer), UNCHANGED returned
    PROVE  Recent!Forget
<1>1. buffer \in Buffer
  BY DEF IInv, TypeOK
<1>2. /\ buffer.entry \in [Slots -> Entry]
      /\ buffer.out_offs \in Slots
  BY <1>1 DEF Buffer
<1>3. /\ buffer'.entry = buffer.entry
      /\ buffer'.in_offs = 0
      /\ buffer'.out_offs = 0
      /\ buffer'.full = FALSE
  BY <1>1, MissReset
<1>4. PICK k \in Slots : \A i \in Slots :
          Slot(k, i) \in Slots /\ Slot(buffer.out_offs, Slot(k, i)) = i
  BY <1>2, SlotUnrotate
<1>5. ReadingOrder(buffer)' = [i \in Slots |-> ReadingOrder(buffer)[Slot(k, i)]]
  BY <1>3, <1>4, SlotZero DEF ReadingOrder
<1>6. EntryCount(buffer)' = 0
  BY <1>3 DEF EntryCount
<1> QED
  BY <1>5, <1>6 DEF Recent!Forget, Recent!Places, Slots, Slot

(***************************************************************************)
(* The circular buffer implements the window of recent entries: every add  *)
(* appends to it or evicts its oldest entry, every successful lookup       *)
(* leaves it alone, and every failed lookup forgets it.                    *)
(***************************************************************************)
THEOREM Refinement == Spec => RefinesRecentEntries
<1>1. Init => Recent!Init
  <2> SUFFICES ASSUME Init PROVE Recent!Init
    OBVIOUS
  <2>1. \A i \in Slots : Slot(0, i) = i
    BY SlotZero
  <2> QED
    BY <2>1 DEF Init, Recent!Init, Recent!Places, Slots, ReadingOrder,
                EntryCount, aesd_circular_buffer_init
<1>2. IInv /\ [Next]_vars => [Recent!Next]_(Recent!vars)
  <2> SUFFICES ASSUME IInv, [Next]_vars
               PROVE  Recent!Next \/ UNCHANGED Recent!vars
    OBVIOUS
  <2>1. ASSUME NEW size \in Sizes, Add(size) PROVE Recent!Next
    BY <2>1, AddToRoomStep, AddEvictingStep DEF Recent!Next
  <2>2. ASSUME NEW char_offset \in Positions, Find(char_offset)
        PROVE  Recent!Next \/ UNCHANGED Recent!vars
    <3>1. CASE buffer' = buffer
      BY <2>2, <3>1 DEF Find, Recent!vars, ReadingOrder, EntryCount
    <3>2. CASE buffer' = find_miss_reset(buffer)
      BY <2>2, <3>2, ForgetStep DEF Find, Recent!Next
    <3> QED
      BY <2>2, <3>1, <3>2 DEF Find
  <2>3. CASE UNCHANGED vars
    BY <2>3 DEF vars, Recent!vars, ReadingOrder, EntryCount
  <2> QED
    BY <2>1, <2>2, <2>3 DEF Next
<1> QED
  BY <1>1, <1>2, IInvAlways, PTL DEF Spec, RefinesRecentEntries, Recent!Spec
-----------------------------------------------------------------------------
(***************************************************************************)
(* The lookup against its reference.  The strings laid end to end have the *)
(* offsets of CircularBufferLemmas, and the pair at each place is the slot *)
(* whose string holds it and the byte there.                               *)
(***************************************************************************)
LEMMA ConcatenationValue ==
    ASSUME NEW b \in Buffer, NEW off, Offsets(b, b.out_offs, off)
    PROVE  /\ Len(Concatenation(b)) = off[ENTRY_SIZE]
           /\ \A i \in Slots : \A c \in Nat :
                 off[i] <= c /\ c < off[i + 1] =>
                    Concatenation(b)[c + 1] =
                        <<Slot(b.out_offs, i), c - off[i]>>
<1> DEFINE N == ENTRY_SIZE
           from == b.out_offs
           S == Slots \X Nat
           piece == [i \in 1..N |->
                        LET slot == Slot(from, i - 1)
                        IN  [k \in 1..b.entry[slot].size |-> <<slot, k - 1>>]]
           Holds(q) == CHOOSE i \in Slots : off[i] <= q - 1 /\ q - 1 < off[i + 1]
           pair(q) == <<Slot(from, Holds(q)), q - 1 - off[Holds(q)]>>
           r == [i \in 1..N |-> [q \in 1..off[i] |-> pair(q)]]
           Loop(v) == v = [i \in 1..Len(piece) |->
                              IF i = 1 THEN piece[i] ELSE v[i-1] \o piece[i]]
           flatten == CHOOSE v : Loop(v)
<1>1. N \in Nat /\ N >= 1 /\ from \in Slots
  BY EntrySizeAssumption DEF Buffer
<1>2. /\ off \in [0..N -> Nat]
      /\ off[0] = 0
      /\ \A i \in Slots : off[i + 1] = off[i] + b.entry[Slot(from, i)].size
  BY DEF Offsets
<1>3. ASSUME NEW i \in Slots, NEW q \in Nat, q >= 1,
             off[i] <= q - 1, q - 1 < off[i + 1]
      PROVE  pair(q) = <<Slot(from, i), q - 1 - off[i]>>
  <2>1. q - 1 \in Nat
    BY <1>3
  <2>2. Holds(q) \in Slots /\ off[Holds(q)] <= q - 1 /\ q - 1 < off[Holds(q) + 1]
    BY <1>3
  <2>3. Holds(q) = i
    <3> HIDE DEF Holds
    <3> QED
      BY <1>1, <1>3, <2>1, <2>2, OneStringHolds
  <2> HIDE DEF Holds
  <2> QED
    BY <2>3
<1>4. ASSUME NEW i \in 1..N
      PROVE  /\ i - 1 \in Slots /\ i - 1 \in 0..N /\ i - 1 + 1 = i
             /\ off[i - 1] \in Nat /\ off[i] \in Nat
             /\ Slot(from, i - 1) \in Slots
             /\ b.entry[Slot(from, i - 1)].size \in Nat
             /\ off[i] = off[i - 1] + b.entry[Slot(from, i - 1)].size
  <2>1. i - 1 \in Slots /\ i - 1 \in 0..N /\ i - 1 + 1 = i /\ i \in 0..N
    BY <1>1 DEF Slots
  <2>2. Slot(from, i - 1) \in Slots
    BY <1>1, <2>1, SlotValue
  <2>3. b.entry[Slot(from, i - 1)].size \in Nat
    BY <2>2 DEF Buffer, Entry
  <2>4. off[i - 1 + 1] = off[i - 1] + b.entry[Slot(from, i - 1)].size
    BY <1>2, <2>1
  <2> QED
    BY <1>2, <2>1, <2>2, <2>3, <2>4
<1> HIDE DEF pair
<1>5. ASSUME NEW i \in 1..N
      PROVE  /\ piece[i] \in Seq(S)
             /\ Len(piece[i]) = off[i] - off[i - 1]
             /\ \A k \in 1..(off[i] - off[i - 1]) :
                   piece[i][k] = <<Slot(from, i - 1), k - 1>>
  <2> DEFINE slot == Slot(from, i - 1)
             n == b.entry[slot].size
             t == [k \in 1..n |-> <<slot, k - 1>>]
  <2>1. piece[i] = t
    OBVIOUS
  <2>2. slot \in Slots /\ n \in Nat /\ n = off[i] - off[i - 1]
    BY <1>4
  <2> HIDE DEF piece, slot, n
  <2>3. \A k \in 1..n : <<slot, k - 1>> \in S
    BY <2>2
  <2>4. t \in [1..n -> S]
    BY <2>3
  <2>5. t \in Seq(S) /\ Len(t) = n
    BY <2>2, <2>4
  <2> QED
    BY <2>1, <2>2, <2>5 DEF slot
<1>6. piece \in Seq(Seq(S)) /\ Len(piece) = N
  <2>1. piece \in [1..N -> Seq(S)]
    BY <1>5
  <2> HIDE DEF piece
  <2> QED
    BY <1>1, <2>1
<1> HIDE DEF piece
<1>7. \A i, j \in 0..N : i <= j => off[i] <= off[j]
  BY <1>1, OffsetsMonotonic
<1>8. ASSUME NEW i \in 1..N
      PROVE  /\ r[i] \in Seq(S)
             /\ Len(r[i]) = off[i]
             /\ \A q \in 1..off[i] : r[i][q] = pair(q)
  <2>1. ASSUME NEW q \in 1..off[i] PROVE pair(q) \in S
    <3>1. off[i] <= off[N] /\ off[N] \in Nat /\ off[i] \in Nat
      BY <1>1, <1>2, <1>4, <1>7
    <3>2. q - 1 \in Nat /\ q \in Nat /\ q >= 1 /\ q - 1 < off[N]
      BY <3>1
    <3>3. PICK j \in Slots : off[j] <= q - 1 /\ q - 1 < off[j + 1]
      BY <1>1, <3>2, OneStringHolds
    <3>4. pair(q) = <<Slot(from, j), q - 1 - off[j]>>
      BY <1>3, <3>2, <3>3
    <3>5. Slot(from, j) \in Slots
      BY <1>1, SlotValue
    <3>6. off[j] \in Nat
      BY <1>1, <1>2 DEF Slots
    <3>7. q - 1 - off[j] \in Nat
      BY <3>2, <3>3, <3>6
    <3> QED
      BY <3>4, <3>5, <3>7
  <2>2. r[i] \in [1..off[i] -> S]
    BY <2>1
  <2>3. \A q \in 1..off[i] : r[i][q] = pair(q)
    OBVIOUS
  <2> HIDE DEF r, S
  <2>4. r[i] \in Seq(S) /\ Len(r[i]) = off[i]
    <3> DEFINE n == off[i]
               t == r[i]
    <3>1. n \in Nat /\ t \in [1..n -> S]
      BY <1>4, <2>2
    <3> HIDE DEF n, t
    <3>2. t \in Seq(S) /\ Len(t) = n
      BY <3>1
    <3> QED
      BY <3>2 DEF n, t
  <2> QED
    BY <2>3, <2>4
<1>9. ASSUME NEW i \in 1..N, NEW q \in Nat, off[i - 1] < q, q <= off[i]
      PROVE  pair(q) = piece[i][q - off[i - 1]]
  <2>1. /\ q >= 1 /\ off[i - 1] <= q - 1 /\ q - 1 < off[i - 1 + 1]
        /\ q - off[i - 1] \in 1..(off[i] - off[i - 1])
        /\ q - 1 - off[i - 1] = q - off[i - 1] - 1
    BY <1>4, <1>9
  <2>2. pair(q) = <<Slot(from, i - 1), q - 1 - off[i - 1]>>
    BY <1>3, <1>4, <2>1
  <2>3. piece[i][q - off[i - 1]] = <<Slot(from, i - 1), q - off[i - 1] - 1>>
    BY <1>5, <2>1
  <2> QED
    BY <2>1, <2>2, <2>3
<1> HIDE DEF r, S
<1>10. 1 \in 1..N /\ r[1] = piece[1]
  <2>1. 1 \in 1..N /\ 1 - 1 = 0
    BY <1>1
  <2>2. Len(r[1]) = off[1] /\ Len(piece[1]) = off[1] /\ off[1] \in Nat
    BY <1>2, <1>4, <1>5, <1>8, <2>1
  <2>3. ASSUME NEW q \in 1..off[1] PROVE r[1][q] = piece[1][q]
    <3>1. q \in Nat /\ off[0] < q /\ q <= off[1] /\ q - off[0] = q
      BY <1>2, <2>2
    <3>2. pair(q) = piece[1][q]
      BY <1>9, <2>1, <3>1
    <3> QED
      BY <1>8, <2>1, <3>2
  <2>4. r[1] \in Seq(S) /\ piece[1] \in Seq(S)
    BY <1>5, <1>8, <2>1
  <2> QED
    BY <2>1, <2>2, <2>3, <2>4, SeqEqual
<1>11. ASSUME NEW i \in 1..N, i # 1
       PROVE  i - 1 \in 1..N /\ r[i] = r[i - 1] \o piece[i]
  <2>1. i - 1 \in 1..N
    BY <1>1, <1>11
  <2>2. /\ r[i] \in Seq(S) /\ r[i - 1] \in Seq(S) /\ piece[i] \in Seq(S)
        /\ Len(r[i]) = off[i] /\ Len(r[i - 1]) = off[i - 1]
        /\ Len(piece[i]) = off[i] - off[i - 1]
        /\ off[i] \in Nat /\ off[i - 1] \in Nat
    BY <1>4, <1>5, <1>8, <2>1
  <2>3. /\ r[i - 1] \o piece[i] \in Seq(S)
        /\ Len(r[i - 1] \o piece[i]) = off[i]
        /\ \A q \in 1..off[i] : (r[i - 1] \o piece[i])[q] =
              IF q <= off[i - 1] THEN r[i - 1][q] ELSE piece[i][q - off[i - 1]]
    <3>1. off[i - 1] + (off[i] - off[i - 1]) = off[i]
      BY <2>2
    <3>2. /\ r[i - 1] \o piece[i] \in Seq(S)
          /\ Len(r[i - 1] \o piece[i]) = Len(r[i - 1]) + Len(piece[i])
          /\ \A q \in 1..(Len(r[i - 1]) + Len(piece[i])) :
                (r[i - 1] \o piece[i])[q] =
                   IF q <= Len(r[i - 1]) THEN r[i - 1][q]
                   ELSE piece[i][q - Len(r[i - 1])]
      BY <2>2, ConcatProperties
    <3> QED
      BY <2>2, <3>1, <3>2
  <2>4. ASSUME NEW q \in 1..off[i]
        PROVE  r[i][q] = (r[i - 1] \o piece[i])[q]
    <3>1. r[i][q] = pair(q)
      BY <1>8
    <3>2. CASE q <= off[i - 1]
      <4>1. q \in 1..off[i - 1]
        BY <2>2, <3>2
      <4>2. r[i - 1][q] = pair(q)
        BY <1>8, <2>1, <4>1
      <4> QED
        BY <2>3, <3>1, <3>2, <4>2
    <3>3. CASE ~(q <= off[i - 1])
      <4>1. q \in Nat /\ off[i - 1] < q /\ q <= off[i]
        BY <2>2, <3>3
      <4>2. pair(q) = piece[i][q - off[i - 1]]
        BY <1>9, <4>1
      <4> QED
        BY <2>3, <3>1, <3>3, <4>2
    <3> QED
      BY <3>2, <3>3
  <2> QED
    BY <2>1, <2>2, <2>3, <2>4, SeqEqual
<1>12. Loop(r)
  <2>1. r = [i \in 1..N |-> r[i]]
    BY DEF r
  <2>2. \A i \in 1..N :
            r[i] = IF i = 1 THEN piece[i] ELSE r[i-1] \o piece[i]
    BY <1>10, <1>11
  <2> QED
    BY <1>6, <2>1, <2>2
<1>13. Loop(flatten)
  <2> HIDE DEF Loop
  <2> QED
    BY <1>12
<1> HIDE DEF flatten
<1> DEFINE T == {i \in 1..N : flatten[i] # r[i]}
<1>14. T = {}
  <2> SUFFICES ASSUME T # {} PROVE FALSE
    OBVIOUS
  <2>1. PICK m \in T : \A k \in T : m <= k
    <3>1. T \subseteq Nat
      BY <1>1
    <3> HIDE DEF T
    <3> QED
      BY <3>1, LeastNumber
  <2>2. m \in 1..N /\ flatten[m] # r[m]
    BY <2>1
  <2>3. m # 1
    BY <1>6, <1>10, <1>13, <2>2
  <2>4. m - 1 \in 1..N /\ ~(m <= m - 1)
    BY <1>1, <2>2, <2>3
  <2>5. flatten[m - 1] = r[m - 1]
    BY <2>1, <2>4
  <2>6. flatten[m] = flatten[m - 1] \o piece[m]
    BY <1>6, <1>13, <2>2, <2>3
  <2> QED
    BY <1>11, <2>2, <2>3, <2>5, <2>6
<1>15. Concatenation(b) = r[N]
  <2>1. Concatenation(b) = FlattenSeq(piece)
    BY DEF Concatenation, piece
  <2>2. FlattenSeq(piece) = flatten[N]
    BY <1>1, <1>6 DEF FlattenSeq, flatten
  <2>3. flatten[N] = r[N]
    BY <1>1, <1>14
  <2> QED
    BY <2>1, <2>2, <2>3
<1>16. N \in 1..N /\ Len(r[N]) = off[N]
  BY <1>1, <1>8
<1>17. ASSUME NEW i \in Slots, NEW c \in Nat, off[i] <= c, c < off[i + 1]
       PROVE  r[N][c + 1] = <<Slot(from, i), c - off[i]>>
  <2>1. /\ c + 1 \in Nat /\ c + 1 >= 1 /\ c + 1 - 1 = c
    OBVIOUS
  <2>2. c < off[N] /\ off[N] \in Nat
    BY <1>1, <1>2, <1>17, OneStringHolds
  <2>3. c + 1 \in 1..off[N]
    BY <2>2
  <2>4. pair(c + 1) = <<Slot(from, i), c - off[i]>>
    BY <1>3, <1>17, <2>1
  <2> QED
    BY <1>8, <1>16, <2>3, <2>4
<1> QED
  BY <1>15, <1>16, <1>17

(***************************************************************************)
(* For a ring of every size, entries of every length (empty ones included) *)
(* and every position, the loop with its running subtraction returns the   *)
(* character that the comment in the code promises, and NULL exactly past  *)
(* the end.                                                                *)
(***************************************************************************)
THEOREM LookupAlwaysExact == Spec => []FindMatchesConcatenation
<1>1. IInv => FindMatchesConcatenation
  <2> SUFFICES ASSUME IInv, NEW c \in Positions
               PROVE  LET rtn == find_entry_offset_for_fpos(
                                     buffer, buffer.out_offs, c)
                          all == Concatenation(buffer)
                      IN  /\ rtn.found <=> c < Len(all)
                          /\ rtn.found =>
                                <<rtn.slot, rtn.entry_offset_byte>> = all[c + 1]
    BY DEF FindMatchesConcatenation
  <2> DEFINE rtn == find_entry_offset_for_fpos(buffer, buffer.out_offs, c)
  <2>1. buffer \in Buffer /\ buffer.out_offs \in Slots /\ c \in Nat
    BY CallerAssumption DEF IInv, TypeOK, Buffer
  <2>2. PICK off : Offsets(buffer, buffer.out_offs, off)
    BY <2>1, OffsetsExist
  <2> HIDE DEF rtn
  <2>3. /\ rtn.found <=> c < off[ENTRY_SIZE]
        /\ rtn.found => \E i \in Slots :
              /\ off[i] <= c /\ c < off[i + 1]
              /\ rtn.slot = Slot(buffer.out_offs, i)
              /\ rtn.entry_offset_byte = c - off[i]
    BY <2>1, <2>2, FindResult DEF rtn
  <2>4. /\ Len(Concatenation(buffer)) = off[ENTRY_SIZE]
        /\ \A i \in Slots :
              off[i] <= c /\ c < off[i + 1] =>
                 Concatenation(buffer)[c + 1] =
                     <<Slot(buffer.out_offs, i), c - off[i]>>
    BY <2>1, <2>2, ConcatenationValue
  <2> QED
    BY <2>3, <2>4 DEF rtn
<1> QED
  BY <1>1, IInvAlways, PTL
=============================================================================
