------------------------ MODULE CircularBufferLemmas ------------------------
(***************************************************************************)
(* What the functions of the circular buffer preserve, for every buffer    *)
(* and every ENTRY_SIZE.  Both CircularBufferProofs and AesdCharProofs     *)
(* rest on these lemmas.                                                   *)
(***************************************************************************)
EXTENDS CircularBuffer, TLAPS, WellFoundedInduction

(***************************************************************************)
(* The `% ENTRY_SIZE' of the code, on the sums it is applied to: at most   *)
(* one turn of the ring is taken off.                                      *)
(***************************************************************************)
LEMMA SlotValue ==
    ASSUME NEW from \in Slots, NEW i \in Slots
    PROVE  /\ Slot(from, i) \in Slots
           /\ from + i < ENTRY_SIZE => Slot(from, i) = from + i
           /\ from + i >= ENTRY_SIZE => Slot(from, i) = from + i - ENTRY_SIZE
BY EntrySizeAssumption DEF Slot, Slots

(***************************************************************************)
(* Advancing an index by one, as add_entry does to in_offs and out_offs.   *)
(***************************************************************************)
LEMMA AdvanceValue ==
    ASSUME NEW offs \in Slots
    PROVE  /\ Advance(offs) \in Slots
           /\ offs + 1 < ENTRY_SIZE => Advance(offs) = offs + 1
           /\ offs + 1 >= ENTRY_SIZE => Advance(offs) = 0
BY EntrySizeAssumption DEF Advance, Slots

(***************************************************************************)
(* Neighbouring slots: reading from slot 0, reading from the next start,   *)
(* and undoing a rotation.                                                 *)
(***************************************************************************)
LEMMA SlotZero ==
    ASSUME NEW i \in Slots
    PROVE  /\ 0 \in Slots
           /\ Slot(0, i) = i
           /\ Slot(i, 0) = i
<1>1. 0 \in Slots
  BY EntrySizeAssumption DEF Slots
<1> 0 + i < ENTRY_SIZE /\ 0 + i = i /\ i + 0 < ENTRY_SIZE /\ i + 0 = i
  BY EntrySizeAssumption DEF Slots
<1>2. Slot(0, i) = i
  BY <1>1, SlotValue
<1>3. Slot(i, 0) = i
  BY <1>1, SlotValue
<1> QED
  BY <1>1, <1>2, <1>3

LEMMA SlotShift ==
    ASSUME NEW out \in Slots, NEW i \in Slots
    PROVE  /\ i = ENTRY_SIZE - 1 => Slot(Advance(out), i) = out
           /\ i # ENTRY_SIZE - 1 =>
                 /\ i + 1 \in Slots
                 /\ Slot(Advance(out), i) = Slot(out, i + 1)
                 /\ Slot(out, i + 1) \in Slots
                 /\ Slot(out, i + 1) # out
<1> DEFINE a == Advance(out)
<1>1. /\ ENTRY_SIZE \in Nat
      /\ out \in Nat /\ out < ENTRY_SIZE
      /\ i \in Nat /\ i < ENTRY_SIZE
  BY EntrySizeAssumption DEF Slots
<1>2. /\ a \in Slots
      /\ a \in Nat
      /\ out + 1 < ENTRY_SIZE => a = out + 1
      /\ out + 1 >= ENTRY_SIZE => a = 0
  BY AdvanceValue DEF Slots
<1> HIDE DEF a
<1>3. /\ a + i < ENTRY_SIZE => Slot(a, i) = a + i
      /\ a + i >= ENTRY_SIZE => Slot(a, i) = a + i - ENTRY_SIZE
  BY <1>2, SlotValue
<1>4. i = ENTRY_SIZE - 1 => Slot(a, i) = out
  BY <1>1, <1>2, <1>3
<1>5. ASSUME i # ENTRY_SIZE - 1
      PROVE  /\ i + 1 \in Slots
             /\ Slot(a, i) = Slot(out, i + 1)
             /\ Slot(out, i + 1) \in Slots
             /\ Slot(out, i + 1) # out
  <2>1. i + 1 \in Slots
    BY <1>1, <1>5 DEF Slots
  <2>2. /\ Slot(out, i + 1) \in Slots
        /\ out + (i + 1) < ENTRY_SIZE => Slot(out, i + 1) = out + (i + 1)
        /\ out + (i + 1) >= ENTRY_SIZE =>
              Slot(out, i + 1) = out + (i + 1) - ENTRY_SIZE
    BY <2>1, SlotValue
  <2> QED
    BY <1>1, <1>2, <1>3, <1>5, <2>1, <2>2
<1> QED
  BY <1>4, <1>5 DEF a

LEMMA SlotUnrotate ==
    ASSUME NEW out \in Slots
    PROVE  \E k \in Slots : \A i \in Slots :
               Slot(k, i) \in Slots /\ Slot(out, Slot(k, i)) = i
<1>1. /\ ENTRY_SIZE \in Nat
      /\ out \in Nat /\ out < ENTRY_SIZE
  BY EntrySizeAssumption DEF Slots
<1>2. PICK k \in Slots : /\ out = 0 => k = 0
                         /\ out # 0 => k = ENTRY_SIZE - out
  BY <1>1 DEF Slots
<1>3. ASSUME NEW i \in Slots
      PROVE  Slot(k, i) \in Slots /\ Slot(out, Slot(k, i)) = i
  <2>1. /\ k \in Nat /\ k < ENTRY_SIZE
        /\ i \in Nat /\ i < ENTRY_SIZE
    BY <1>1 DEF Slots
  <2>2. /\ Slot(k, i) \in Slots
        /\ k + i < ENTRY_SIZE => Slot(k, i) = k + i
        /\ k + i >= ENTRY_SIZE => Slot(k, i) = k + i - ENTRY_SIZE
    BY SlotValue
  <2>3. PICK s \in Slots : s = Slot(k, i)
    BY <2>2
  <2>4. s \in Nat /\ s < ENTRY_SIZE
    BY <1>1 DEF Slots
  <2>5. /\ out + s < ENTRY_SIZE => Slot(out, s) = out + s
        /\ out + s >= ENTRY_SIZE => Slot(out, s) = out + s - ENTRY_SIZE
    BY SlotValue
  <2>6. Slot(out, s) = i
    BY <1>1, <1>2, <2>1, <2>2, <2>3, <2>4, <2>5
  <2> QED
    BY <2>2, <2>3, <2>6
<1> QED
  BY <1>3

(***************************************************************************)
(* aesd_circular_buffer_init yields a well-formed, consistent buffer.      *)
(***************************************************************************)
LEMMA InitBuffer ==
    /\ aesd_circular_buffer_init \in Buffer
    /\ IndicesAgree(aesd_circular_buffer_init)
BY EntrySizeAssumption
   DEF aesd_circular_buffer_init, Buffer, IndicesAgree, Slots, Entry,
       NullEntry, NULL

(***************************************************************************)
(* add_entry, field by field, and what it preserves.                       *)
(***************************************************************************)
LEMMA AddEntry ==
    ASSUME NEW b \in Buffer, NEW e \in Entry, IndicesAgree(b)
    PROVE  LET b2 == aesd_circular_buffer_add_entry(b, e)
           IN  /\ b2 \in Buffer
               /\ IndicesAgree(b2)
               /\ b2.entry = [b.entry EXCEPT ![b.in_offs] = e]
               /\ b2.in_offs = Advance(b.in_offs)
               /\ b2.out_offs = IF b.full THEN Advance(b.out_offs)
                                ELSE b.out_offs
               /\ b2.full = (b.full \/ Advance(b.in_offs) = 0)
               /\ add_entry_returned(b) \in Entry
<1> DEFINE b2 == aesd_circular_buffer_add_entry(b, e)
<1>1. /\ b.entry \in [Slots -> Entry]
      /\ b.in_offs \in Slots
      /\ b.out_offs \in Slots
      /\ b.full \in BOOLEAN
  BY DEF Buffer
<1>2. /\ Advance(b.in_offs) \in Slots
      /\ Advance(b.out_offs) \in Slots
  BY <1>1, AdvanceValue
<1>3. /\ b2.entry = [b.entry EXCEPT ![b.in_offs] = e]
      /\ b2.in_offs = Advance(b.in_offs)
      /\ b2.out_offs = IF b.full THEN Advance(b.out_offs) ELSE b.out_offs
      /\ b2.full = (b.full \/ b2.in_offs = b2.out_offs)
  BY DEF aesd_circular_buffer_add_entry, Buffer
<1>4. b2 \in Buffer
  BY <1>1, <1>2 DEF aesd_circular_buffer_add_entry, Buffer
<1>5. IndicesAgree(b2)
  BY <1>1, <1>3 DEF IndicesAgree
<1>6. b2.full = (b.full \/ Advance(b.in_offs) = 0)
  BY <1>1, <1>3 DEF IndicesAgree
<1>7. add_entry_returned(b) \in Entry
  BY <1>1 DEF add_entry_returned, NullEntry, Entry, NULL
<1> QED
  BY <1>3, <1>4, <1>5, <1>6, <1>7

(***************************************************************************)
(* A failed lookup keeps the buffer well-formed and consistent, and leaves *)
(* every entry in its slot.                                                *)
(***************************************************************************)
LEMMA MissReset ==
    ASSUME NEW b \in Buffer
    PROVE  /\ find_miss_reset(b) \in Buffer
           /\ IndicesAgree(find_miss_reset(b))
           /\ find_miss_reset(b).entry = b.entry
           /\ find_miss_reset(b).in_offs = 0
           /\ find_miss_reset(b).out_offs = 0
           /\ find_miss_reset(b).full = FALSE
BY EntrySizeAssumption DEF find_miss_reset, Buffer, IndicesAgree, Slots
-----------------------------------------------------------------------------
(***************************************************************************)
(* The lookup loop.  Its proofs are by least counterexample: a set of      *)
(* numbers that is not empty has a least one.                              *)
(***************************************************************************)
LEMMA LeastNumber ==
    ASSUME NEW T, T \subseteq Nat, T # {}
    PROVE  \E m \in T : \A k \in T : m <= k
<1>1. PICK m \in T : \A k \in T : ~(<<k, m>> \in OpToRel(<, Nat))
  BY NatLessThanWellFounded, WFMin
<1>2. ASSUME NEW k \in T PROVE m <= k
  <2>1. ~(k < m)
    BY <1>1 DEF OpToRel
  <2> QED
    BY <2>1
<1> QED
  BY <1>2

\* off[i] is where the i-th entry of the search begins when all strings are
\* laid end to end, and off[ENTRY_SIZE] is where the last one ends.
Offsets(b, from, off) ==
    /\ off \in [0..ENTRY_SIZE -> Nat]
    /\ off[0] = 0
    /\ \A i \in Slots : off[i + 1] = off[i] + b.entry[Slot(from, i)].size

LEMMA OffsetsExist ==
    ASSUME NEW b \in Buffer, NEW from \in Slots
    PROVE  \E off : Offsets(b, from, off)
<1> DEFINE F == [0..ENTRY_SIZE -> Nat]
           Prefix(m, off) ==
               /\ off[0] = 0
               /\ \A i \in 0..(m - 1) :
                     off[i + 1] = off[i] + b.entry[Slot(from, i)].size
           T == {m \in 0..ENTRY_SIZE : ~\E off \in F : Prefix(m, off)}
<1>1. ENTRY_SIZE \in Nat
  BY EntrySizeAssumption
<1>2. \A i \in Slots : b.entry[Slot(from, i)].size \in Nat
  BY SlotValue DEF Buffer, Entry
<1>3. T = {}
  <2> SUFFICES ASSUME T # {} PROVE FALSE
    OBVIOUS
  <2>1. PICK m \in T : \A k \in T : m <= k
    <3>1. T \subseteq Nat
      BY <1>1
    <3> HIDE DEF T
    <3> QED
      BY <3>1, LeastNumber
  <2>2. m \in 0..ENTRY_SIZE /\ ~\E off \in F : Prefix(m, off)
    BY <2>1
  <2>3. CASE m = 0
    <3>1. [i \in 0..ENTRY_SIZE |-> 0] \in F /\ 0 \in 0..ENTRY_SIZE
      BY <1>1
    <3>2. Prefix(m, [i \in 0..ENTRY_SIZE |-> 0])
      BY <1>1, <2>3, <3>1
    <3> QED
      BY <2>2, <3>1, <3>2
  <2>4. CASE m # 0
    <3>1. m - 1 \in 0..ENTRY_SIZE /\ m - 1 \in Slots /\ ~(m <= m - 1)
      BY <1>1, <2>2, <2>4 DEF Slots
    <3>2. m - 1 \notin T
      BY <2>1, <3>1
    <3>3. PICK off \in F : Prefix(m - 1, off)
      BY <3>1, <3>2
    <3> DEFINE s == b.entry[Slot(from, m - 1)].size
               new == [off EXCEPT ![m] = off[m - 1] + s]
    <3>4. off[m - 1] \in Nat /\ s \in Nat
      BY <1>2, <3>1
    <3>5. new \in F
      BY <3>4
    <3>6. \A i \in 0..ENTRY_SIZE :
              new[i] = IF i = m THEN off[m - 1] + s ELSE off[i]
      BY <2>2
    <3> HIDE DEF new
    <3>7. new[0] = 0
      <4>1. 0 \in 0..ENTRY_SIZE /\ off[0] = 0
        BY <1>1, <3>3
      <4> QED
        BY <2>4, <3>6, <4>1
    <3>8. ASSUME NEW i \in 0..(m - 1)
          PROVE  new[i + 1] = new[i] + b.entry[Slot(from, i)].size
      <4>1. i \in 0..ENTRY_SIZE /\ i + 1 \in 0..ENTRY_SIZE /\ i # m
        BY <1>1, <2>2
      <4>2. CASE i = m - 1
        <5>1. i + 1 = m
          BY <2>2, <4>2
        <5> QED
          BY <3>6, <4>1, <4>2, <5>1
      <4>3. CASE i # m - 1
        <5>1. i \in 0..((m - 1) - 1) /\ i + 1 # m
          BY <2>2, <4>3
        <5> QED
          BY <3>3, <3>6, <4>1, <5>1
      <4> QED
        BY <4>2, <4>3
    <3>9. Prefix(m, new)
      BY <3>7, <3>8
    <3> QED
      BY <2>2, <3>5, <3>9
  <2> QED
    BY <2>3, <2>4
<1>4. PICK off \in F : Prefix(ENTRY_SIZE, off)
  BY <1>1, <1>3
<1>5. Offsets(b, from, off)
  BY <1>4 DEF Offsets, Slots
<1> QED
  BY <1>5

\* The offsets do not decrease.
LEMMA OffsetsMonotonic ==
    ASSUME NEW b \in Buffer, NEW from \in Slots, NEW off,
           Offsets(b, from, off)
    PROVE  \A i, j \in 0..ENTRY_SIZE : i <= j => off[i] <= off[j]
<1> SUFFICES ASSUME NEW i \in 0..ENTRY_SIZE
             PROVE  {j \in i..ENTRY_SIZE : ~(off[i] <= off[j])} = {}
  BY EntrySizeAssumption
<1> DEFINE T == {j \in i..ENTRY_SIZE : ~(off[i] <= off[j])}
<1>1. ENTRY_SIZE \in Nat
  BY EntrySizeAssumption
<1>2. off \in [0..ENTRY_SIZE -> Nat]
  BY DEF Offsets
<1> SUFFICES ASSUME T # {} PROVE FALSE
  OBVIOUS
<1>3. PICK m \in T : \A k \in T : m <= k
  <2>1. T \subseteq Nat
    BY <1>1
  <2> HIDE DEF T
  <2> QED
    BY <2>1, LeastNumber
<1>4. m \in i..ENTRY_SIZE /\ ~(off[i] <= off[m]) /\ m # i
  BY <1>1, <1>2, <1>3
<1>5. m - 1 \in i..ENTRY_SIZE /\ m - 1 \in Slots /\ ~(m <= m - 1)
  BY <1>1, <1>4 DEF Slots
<1>6. off[i] <= off[m - 1]
  BY <1>3, <1>5
<1>7. off[m] = off[m - 1] + b.entry[Slot(from, m - 1)].size
  <2>1. off[m - 1 + 1] = off[m - 1] + b.entry[Slot(from, m - 1)].size
    BY <1>5 DEF Offsets
  <2>2. m - 1 + 1 = m
    BY <1>1, <1>4
  <2> QED
    BY <2>1, <2>2
<1>8. b.entry[Slot(from, m - 1)].size \in Nat
  BY <1>5, SlotValue DEF Buffer, Entry
<1>9. off[i] \in Nat /\ off[m - 1] \in Nat
  BY <1>1, <1>2, <1>5
<1> QED
  BY <1>4, <1>6, <1>7, <1>8, <1>9

(***************************************************************************)
(* What the loop's subtractions compute: the distance from the start of    *)
(* the entry to char_offset.                                               *)
(***************************************************************************)
LEMMA CharOffsetLeft ==
    ASSUME NEW b \in Buffer, NEW from \in Slots, NEW off,
           Offsets(b, from, off), NEW c \in Int
    PROVE  \A i \in 0..ENTRY_SIZE :
               char_offset_left(b, from, c)[i] = c - off[i]
<1> DEFINE Loop(v) == v = [i \in 0..ENTRY_SIZE |->
                              IF i = 0 THEN c
                              ELSE v[i-1] - b.entry[Slot(from, i-1)].size]
           r == [i \in 0..ENTRY_SIZE |-> c - off[i]]
           left == CHOOSE v : Loop(v)
           T == {i \in 0..ENTRY_SIZE : left[i] # r[i]}
<1>1. ENTRY_SIZE \in Nat
  BY EntrySizeAssumption
<1>2. /\ off \in [0..ENTRY_SIZE -> Nat]
      /\ off[0] = 0
  BY DEF Offsets
<1>3. ASSUME NEW i \in 0..ENTRY_SIZE, i # 0
      PROVE  /\ i - 1 \in 0..ENTRY_SIZE
             /\ r[i] = r[i - 1] - b.entry[Slot(from, i - 1)].size
  <2>1. i - 1 \in Slots /\ i - 1 \in 0..ENTRY_SIZE /\ i - 1 + 1 = i
    BY <1>1, <1>3 DEF Slots
  <2>2. off[i] = off[i - 1] + b.entry[Slot(from, i - 1)].size
    <3>1. off[i - 1 + 1] = off[i - 1] + b.entry[Slot(from, i - 1)].size
      BY <2>1 DEF Offsets
    <3> QED
      BY <2>1, <3>1
  <2>3. b.entry[Slot(from, i - 1)].size \in Nat
    BY <2>1, SlotValue DEF Buffer, Entry
  <2>4. off[i - 1] \in Nat
    BY <1>2, <2>1
  <2>5. r[i] = c - off[i] /\ r[i - 1] = c - off[i - 1]
    BY <2>1
  <2> HIDE DEF r
  <2> QED
    BY <2>1, <2>2, <2>3, <2>4, <2>5
<1>4. r[0] = c
  BY <1>1, <1>2
<1>5. Loop(r)
  <2>1. \A i \in 0..ENTRY_SIZE :
            r[i] = IF i = 0 THEN c
                   ELSE r[i-1] - b.entry[Slot(from, i-1)].size
    <3> HIDE DEF r
    <3> QED
      BY <1>3, <1>4
  <2> QED
    BY <2>1
<1>6. Loop(left)
  <2> HIDE DEF r, Loop
  <2> QED
    BY <1>5
<1> HIDE DEF r, left
<1>7. T = {}
  <2> SUFFICES ASSUME T # {} PROVE FALSE
    OBVIOUS
  <2>1. PICK m \in T : \A k \in T : m <= k
    <3>1. T \subseteq Nat
      BY <1>1
    <3> HIDE DEF T
    <3> QED
      BY <3>1, LeastNumber
  <2>2. m \in 0..ENTRY_SIZE /\ left[m] # r[m]
    BY <2>1
  <2>3. m # 0
    BY <1>4, <1>6, <2>2
  <2>4. m - 1 \in 0..ENTRY_SIZE /\ ~(m <= m - 1)
    BY <1>1, <2>2, <2>3
  <2>5. left[m - 1] = r[m - 1]
    BY <2>1, <2>4
  <2>6. left[m] = left[m - 1] - b.entry[Slot(from, m - 1)].size
    BY <1>6, <2>2, <2>3
  <2> QED
    BY <1>3, <2>2, <2>3, <2>5, <2>6
<1>8. \A i \in 0..ENTRY_SIZE : left[i] = c - off[i]
  BY <1>7 DEF r
<1> QED
  BY <1>8 DEF char_offset_left, left

(***************************************************************************)
(* The loop returns in the iteration whose string holds char_offset.       *)
(***************************************************************************)
LEMMA FoundBetween ==
    ASSUME NEW b \in Buffer, NEW from \in Slots, NEW off,
           Offsets(b, from, off), NEW c \in Nat, NEW i \in Slots
    PROVE  FoundAt(b, from, c, i) <=> off[i] <= c /\ c < off[i + 1]
<1>1. ENTRY_SIZE \in Nat
  BY EntrySizeAssumption
<1>2. off \in [0..ENTRY_SIZE -> Nat] /\ off[0] = 0
  BY DEF Offsets
<1>3. ASSUME NEW j \in Slots
      PROVE  Covers(b, from, c, j) <=> c < off[j + 1]
  <2>1. j \in 0..ENTRY_SIZE
    BY <1>1 DEF Slots
  <2>2. char_offset_left(b, from, c)[j] = c - off[j]
    BY <2>1, CharOffsetLeft
  <2>3. off[j + 1] = off[j] + b.entry[Slot(from, j)].size
    BY DEF Offsets
  <2>4. b.entry[Slot(from, j)].size \in Nat /\ off[j] \in Nat
    BY <1>2, <2>1, SlotValue DEF Buffer, Entry
  <2> QED
    BY <2>2, <2>3, <2>4 DEF Covers
<1>4. i \in Nat /\ i < ENTRY_SIZE
  BY <1>1 DEF Slots
<1>5. (\A j \in 0..(i-1) : ~Covers(b, from, c, j)) <=> off[i] <= c
  <2>1. ASSUME off[i] <= c, NEW j \in 0..(i-1) PROVE ~Covers(b, from, c, j)
    <3>1. j \in Slots /\ j + 1 \in 0..ENTRY_SIZE /\ i \in 0..ENTRY_SIZE
          /\ j + 1 <= i
      BY <1>1, <1>4 DEF Slots
    <3>2. off[j + 1] <= off[i]
      BY <3>1, OffsetsMonotonic
    <3>3. off[j + 1] \in Nat /\ off[i] \in Nat
      BY <1>2, <3>1
    <3>4. ~(c < off[j + 1])
      BY <2>1, <3>2, <3>3
    <3> QED
      BY <1>3, <3>1, <3>4
  <2>2. ASSUME \A j \in 0..(i-1) : ~Covers(b, from, c, j)
        PROVE  off[i] <= c
    <3>1. CASE i = 0
      BY <1>2, <3>1
    <3>2. CASE i # 0
      <4>1. i - 1 \in 0..(i - 1) /\ i - 1 \in Slots /\ i - 1 + 1 = i
        BY <1>1, <1>4, <3>2 DEF Slots
      <4>2. ~(c < off[i - 1 + 1])
        BY <1>3, <2>2, <4>1
      <4>3. off[i] \in Nat
        BY <1>1, <1>2, <1>4
      <4> QED
        BY <4>1, <4>2, <4>3
    <3> QED
      BY <3>1, <3>2
  <2> QED
    BY <2>1, <2>2
<1> QED
  BY <1>3, <1>5 DEF FoundAt

\* Every position before the end lies in one string.
LEMMA OneStringHolds ==
    ASSUME NEW b \in Buffer, NEW from \in Slots, NEW off,
           Offsets(b, from, off), NEW c \in Nat
    PROVE  /\ c < off[ENTRY_SIZE] =>
                 \E i \in Slots : off[i] <= c /\ c < off[i + 1]
           /\ \A i, j \in Slots :
                 /\ off[i] <= c /\ c < off[i + 1]
                 /\ off[j] <= c /\ c < off[j + 1]
                 => i = j
           /\ \A i \in Slots : c < off[i + 1] => c < off[ENTRY_SIZE]
<1>1. ENTRY_SIZE \in Nat
  BY EntrySizeAssumption
<1>2. off \in [0..ENTRY_SIZE -> Nat] /\ off[0] = 0
  BY DEF Offsets
<1>3. \A i, j \in 0..ENTRY_SIZE : i <= j => off[i] <= off[j]
  BY OffsetsMonotonic
<1>4. ASSUME NEW i \in Slots, c < off[i + 1] PROVE c < off[ENTRY_SIZE]
  <2>1. /\ i + 1 \in 0..ENTRY_SIZE /\ ENTRY_SIZE \in 0..ENTRY_SIZE
        /\ i + 1 <= ENTRY_SIZE
    BY <1>1 DEF Slots
  <2>2. off[i + 1] \in Nat /\ off[ENTRY_SIZE] \in Nat
    BY <1>2, <2>1
  <2>3. off[i + 1] <= off[ENTRY_SIZE]
    BY <1>3, <2>1
  <2> QED
    BY <1>4, <2>2, <2>3
<1>5. ASSUME NEW i \in Slots, NEW j \in Slots, off[i] <= c, c < off[j + 1]
      PROVE  ~(j < i)
  <2> SUFFICES ASSUME j < i PROVE FALSE
    OBVIOUS
  <2>1. j + 1 \in 0..ENTRY_SIZE /\ i \in 0..ENTRY_SIZE /\ j + 1 <= i
    BY <1>1 DEF Slots
  <2>2. off[j + 1] <= off[i] /\ off[j + 1] \in Nat /\ off[i] \in Nat
    BY <1>2, <1>3, <2>1
  <2> QED
    BY <1>5, <2>2
<1>6. ASSUME NEW i \in Slots, NEW j \in Slots,
             off[i] <= c, c < off[i + 1], off[j] <= c, c < off[j + 1]
      PROVE  i = j
  <2>1. ~(j < i) /\ ~(i < j)
    BY <1>5, <1>6
  <2> QED
    BY <1>1, <2>1 DEF Slots
<1>7. ASSUME c < off[ENTRY_SIZE]
      PROVE  \E i \in Slots : off[i] <= c /\ c < off[i + 1]
  <2> DEFINE T == {i \in 0..ENTRY_SIZE : c < off[i]}
  <2>1. PICK m \in T : \A k \in T : m <= k
    <3>1. T \subseteq Nat /\ ENTRY_SIZE \in T
      BY <1>1, <1>7
    <3> HIDE DEF T
    <3> QED
      BY <3>1, LeastNumber
  <2>2. m \in 0..ENTRY_SIZE /\ c < off[m] /\ m # 0
    BY <1>2, <2>1
  <2>3. /\ m - 1 \in Slots /\ m - 1 \in 0..ENTRY_SIZE /\ m - 1 + 1 = m
        /\ ~(m <= m - 1)
    BY <1>1, <2>2 DEF Slots
  <2>4. ~(c < off[m - 1])
    BY <2>1, <2>3
  <2>5. off[m - 1] \in Nat
    BY <1>2, <2>3
  <2>6. off[m - 1] <= c
    BY <2>4, <2>5
  <2> QED
    BY <2>2, <2>3, <2>6
<1> QED
  BY <1>4, <1>6, <1>7

(***************************************************************************)
(* What the lookup returns: it finds the positions before the end of the   *)
(* last string, and for each the entry whose string holds it and the byte  *)
(* there; so what is left of char_offset never goes below zero, and the    *)
(* entry is not empty.                                                     *)
(***************************************************************************)
LEMMA FindResult ==
    ASSUME NEW b \in Buffer, NEW from \in Slots, NEW off,
           Offsets(b, from, off), NEW c \in Nat
    PROVE  LET rtn == find_entry_offset_for_fpos(b, from, c)
           IN  /\ rtn.found \in BOOLEAN
               /\ rtn.found <=> c < off[ENTRY_SIZE]
               /\ rtn.found =>
                     \E i \in Slots :
                        /\ off[i] <= c /\ c < off[i + 1]
                        /\ rtn.slot = Slot(from, i)
                        /\ rtn.entry_offset_byte = c - off[i]
                        /\ rtn.slot \in Slots
                        /\ rtn.entry_offset_byte \in Nat
                        /\ rtn.entry_offset_byte < b.entry[rtn.slot].size
<1> DEFINE rtn == find_entry_offset_for_fpos(b, from, c)
           Found(i) == FoundAt(b, from, c, i)
<1>1. ENTRY_SIZE \in Nat
  BY EntrySizeAssumption
<1>2. \A i \in Slots : Found(i) <=> off[i] <= c /\ c < off[i + 1]
  BY FoundBetween
<1>3. CASE \E i \in Slots : Found(i)
  <2> DEFINE i == CHOOSE i \in Slots : Found(i)
  <2>1. i \in Slots /\ Found(i)
    <3> HIDE DEF Found
    <3> QED
      BY <1>3
  <2>2. /\ rtn.found = TRUE
        /\ rtn.slot = Slot(from, i)
        /\ rtn.entry_offset_byte = char_offset_left(b, from, c)[i]
    BY <1>3 DEF find_entry_offset_for_fpos
  <2> HIDE DEF i, rtn, Found
  <2>3. off[i] <= c /\ c < off[i + 1] /\ c < off[ENTRY_SIZE]
    BY <1>2, <2>1, OneStringHolds
  <2>4. i \in 0..ENTRY_SIZE
    BY <1>1, <2>1 DEF Slots
  <2>5. rtn.entry_offset_byte = c - off[i]
    BY <2>2, <2>4, CharOffsetLeft
  <2>6. /\ off[i + 1] = off[i] + b.entry[Slot(from, i)].size
        /\ off[i] \in Nat
    BY <2>1, <2>4 DEF Offsets
  <2>7. Slot(from, i) \in Slots /\ b.entry[Slot(from, i)].size \in Nat
    BY <2>1, SlotValue DEF Buffer, Entry
  <2>8. c - off[i] \in Nat /\ c - off[i] < b.entry[Slot(from, i)].size
    BY <2>3, <2>6, <2>7
  <2> QED
    BY <2>1, <2>2, <2>3, <2>5, <2>7, <2>8 DEF rtn
<1>4. CASE ~\E i \in Slots : Found(i)
  <2>1. rtn.found = FALSE
    BY <1>4 DEF find_entry_offset_for_fpos
  <2>2. ~(c < off[ENTRY_SIZE])
    <3> HIDE DEF Found
    <3> QED
      BY <1>2, <1>4, OneStringHolds
  <2> QED
    BY <2>1, <2>2
<1> QED
  BY <1>3, <1>4
=============================================================================
