--------------------------- MODULE TailQueueProofs ---------------------------
(***************************************************************************)
(* The tail queue keeps its links in order, for every number of queues and *)
(* elements.  Linked is inductive together with the types and with         *)
(* OnOneList, which makes the cells of all queues pairwise distinct: an    *)
(* assignment to one cell then leaves the others alone.  All four          *)
(* insertions turn out to be the same change of links, LinkIn.             *)
(***************************************************************************)
EXTENDS TailQueue, TLAPS, WellFoundedInduction

USE QueueAssumption

\* No element is on two queues, or twice on one.
OnOneList ==
    \A g, h \in Heads : \A i \in DOMAIN list[g], j \in DOMAIN list[h] :
        list[g][i] = list[h][j] => g = h /\ i = j

\* The inductive invariant.
IInv == TypeOK /\ OnOneList /\ Linked

\* What the cells of a queue are.
LEMMA CellTypes ==
    ASSUME IInv, NEW h \in Heads
    PROVE  /\ list[h] \in Seq(Nodes)
           /\ Len(list[h]) \in Nat
           /\ DOMAIN list[h] = 1..Len(list[h])
           /\ \A i \in 0..Len(list[h]) : Cell(h, i) \in Cells
           /\ \A i \in 1..Len(list[h]) :
                 Cell(h, i) = list[h][i] /\ Cell(h, i) \in OnList(h)
           /\ \A i \in 1..Len(list[h]) : Cell(h, i) \in Nodes
           /\ Cell(h, 0) = h
  BY DEF IInv, TypeOK, Cell, Cells, OnList

\* The cells of all queues are distinct.
LEMMA CellsDistinct ==
    ASSUME IInv, NEW g \in Heads, NEW h \in Heads,
           NEW i \in 0..Len(list[g]), NEW j \in 0..Len(list[h]),
           Cell(g, i) = Cell(h, j)
    PROVE  g = h /\ i = j
<1> USE CellTypes
<1>1. CASE i = 0 /\ j = 0
  BY <1>1 DEF Cell
<1>2. CASE i = 0 /\ j # 0
  <2>1. Cell(g, i) \in Heads /\ Cell(h, j) \in Nodes
    BY <1>2 DEF Cell
  <2> QED
    BY <2>1
<1>3. CASE i # 0 /\ j = 0
  <2>1. Cell(g, i) \in Nodes /\ Cell(h, j) \in Heads
    BY <1>3 DEF Cell
  <2> QED
    BY <2>1
<1>4. CASE i # 0 /\ j # 0
  <2>1. i \in DOMAIN list[g] /\ j \in DOMAIN list[h]
    BY <1>4
  <2>2. list[g][i] = list[h][j]
    BY <1>4 DEF Cell
  <2> QED
    BY <2>1, <2>2 DEF IInv, OnOneList
<1> QED
  BY <1>1, <1>2, <1>3, <1>4

\* What Linked says of one cell.
LEMMA Links ==
    ASSUME IInv, NEW h \in Heads, NEW i \in 0..Len(list[h])
    PROVE  /\ next[Cell(h, i)] =
                  IF i = Len(list[h]) THEN NULL ELSE Cell(h, i + 1)
           /\ prev[Cell(h, i)] = IF i = 0 THEN Cell(h, Len(list[h])) ELSE Cell(h, i - 1)
           /\ Behind(h, Cell(h, i)) =
                  Cell(h, IF i = Len(list[h]) THEN 0 ELSE i + 1)
<1>1. /\ next[Cell(h, i)] =
             IF i = Len(list[h]) THEN NULL ELSE Cell(h, i + 1)
      /\ prev[Cell(h, i)] = IF i = 0 THEN Cell(h, Len(list[h])) ELSE Cell(h, i - 1)
  BY DEF IInv, Linked
<1>2. CASE i = Len(list[h])
  BY <1>1, <1>2, CellTypes DEF Behind
<1>3. CASE i # Len(list[h])
  <2>1. Cell(h, i + 1) \in Nodes
    BY <1>3, CellTypes
  <2> QED
    BY <1>1, <1>3, <2>1 DEF Behind
<1> QED
  BY <1>1, <1>2, <1>3

\* An element that is on no queue differs from every cell of a queue.
LEMMA OffListIsNew ==
    ASSUME IInv, NEW e \in OffList
    PROVE  /\ e \in Nodes
           /\ e \in Cells
           /\ \A h \in Heads : \A i \in 0..Len(list[h]) : Cell(h, i) # e
<1>1. e \in Nodes /\ \A h \in Heads : e \notin OnList(h)
  BY DEF OffList
<1>2. ASSUME NEW h \in Heads, NEW i \in 0..Len(list[h])
      PROVE  Cell(h, i) # e
  <2>1. CASE i = 0
    BY <1>1, <2>1 DEF Cell
  <2>2. CASE i # 0
    BY <1>1, <2>2, CellTypes
  <2> QED
    BY <2>1, <2>2
<1> QED
  BY <1>1, <1>2 DEF Cells

\* The new element e comes behind cell i of queue h, as its k-th element.
LinkIn(h, i, k, e) ==
    /\ next' = [next EXCEPT ![e] = next[Cell(h, i)], ![Cell(h, i)] = e]
    /\ prev' = [prev EXCEPT ![Behind(h, Cell(h, i))] = e, ![e] = Cell(h, i)]
    /\ Put(h, k, e)

\* The cells of every queue after LinkIn.
LEMMA LinkInCells ==
    ASSUME IInv, NEW h \in Heads, NEW i \in 0..Len(list[h]), NEW e \in Nodes,
           NEW m \in Int, m = i + 1, Put(h, m, e)
    PROVE  /\ list' \in [Heads -> Seq(Nodes)]
           /\ Len(list[h]') = Len(list[h]) + 1
           /\ \A j \in 0..Len(list[h]') : Cell(h, j)' =
                  IF j <= i THEN Cell(h, j)
                  ELSE IF j = i + 1 THEN e ELSE Cell(h, j - 1)
           /\ \A g \in Heads \ {h} : /\ Len(list[g]') = Len(list[g])
                                     /\ \A j \in Int : Cell(g, j)' = Cell(g, j)
<1> DEFINE s == list[h]
<1>1. s \in Seq(Nodes) /\ Len(s) \in Nat /\ i \in Nat
  BY CellTypes
<1>2. list[h]' = InsertAt(s, m, e)
  BY DEF Put, IInv, TypeOK
<1>3. /\ InsertAt(s, m, e) \in Seq(Nodes)
      /\ Len(InsertAt(s, m, e)) = Len(s) + 1
  <2>1. \A j \in 1..(Len(s) + 1) :
            (IF j < m THEN s[j] ELSE IF j = m THEN e ELSE s[j - 1])
                \in Nodes
    BY <1>1
  <2>2. InsertAt(s, m, e) \in [1..(Len(s) + 1) -> Nodes]
    BY <2>1 DEF InsertAt
  <2> QED
    BY <1>1, <2>2
<1>4. list' \in [Heads -> Seq(Nodes)]
  BY <1>3 DEF Put, IInv, TypeOK
<1>5. ASSUME NEW j \in 0..Len(list[h]')
      PROVE  Cell(h, j)' = IF j <= i THEN Cell(h, j)
                           ELSE IF j = i + 1 THEN e ELSE Cell(h, j - 1)
  <2>1. j \in 0..(Len(s) + 1)
    BY <1>2, <1>3
  <2>2. CASE j = 0
    BY <1>1, <2>2 DEF Cell
  <2>3. CASE j # 0
    <3>1. j \in 1..(Len(s) + 1)
      BY <2>1, <2>3
    <3>2. Cell(h, j)' = InsertAt(s, m, e)[j]
      BY <1>2, <2>3 DEF Cell
    <3>3. InsertAt(s, m, e)[j] =
            IF j < m THEN s[j] ELSE IF j = m THEN e ELSE s[j - 1]
      BY <3>1 DEF InsertAt
    <3>4. j > i + 1 => Cell(h, j - 1) = s[j - 1]
      BY <1>1 DEF Cell
    <3> QED
      BY <1>1, <3>1, <3>2, <3>3, <3>4 DEF Cell
  <2> QED
    BY <2>2, <2>3
<1>6. \A g \in Heads \ {h} : list[g]' = list[g]
  BY DEF Put, IInv, TypeOK
<1> QED
  BY <1>2, <1>3, <1>4, <1>5, <1>6 DEF Cell

\* LinkIn keeps the queues in order.
LEMMA LinkInStep ==
    ASSUME IInv, NEW h \in Heads, NEW i \in 0..Len(list[h]),
           NEW e \in OffList, NEW m \in Int, m = i + 1, LinkIn(h, i, m, e)
    PROVE  IInv'
<1> DEFINE c == Cell(h, i)
           b == Behind(h, c)
<1>0. PICK n \in Nat : n = Len(list[h])
  BY CellTypes
<1>1. /\ e \in Nodes /\ e \in Cells
      /\ \A g \in Heads : \A j \in 0..Len(list[g]) : Cell(g, j) # e
  BY OffListIsNew
<1>2. n \in Nat /\ i \in Nat /\ i <= n /\ n = Len(list[h])
  BY <1>0
<1>3. /\ c \in Cells
      /\ b = Cell(h, IF i = n THEN 0 ELSE i + 1) /\ b \in Cells
      /\ next[c] = IF i = n THEN NULL ELSE Cell(h, i + 1)
  BY <1>2, CellTypes, Links
<1>4. /\ next \in [Cells -> Nodes \cup {NULL}]
      /\ prev \in [Cells -> Cells]
  BY DEF IInv, TypeOK
<1>5. /\ next' = [next EXCEPT ![e] = next[c], ![c] = e]
      /\ prev' = [prev EXCEPT ![b] = e, ![e] = c]
      /\ Put(h, m, e)
  BY DEF LinkIn
<1>6. /\ next' \in [Cells -> Nodes \cup {NULL}]
      /\ prev' \in [Cells -> Cells]
      /\ next'[e] = next[c] /\ next'[c] = e
      /\ \A d \in Cells \ {e, c} : next'[d] = next[d]
      /\ prev'[b] = e /\ prev'[e] = c
      /\ \A d \in Cells \ {e, b} : prev'[d] = prev[d]
  BY <1>1, <1>2, <1>3, <1>4, <1>5
<1>7. /\ list' \in [Heads -> Seq(Nodes)]
      /\ Len(list[h]') = n + 1
      /\ \A j \in 0..(n + 1) : Cell(h, j)' =
             IF j <= i THEN Cell(h, j)
             ELSE IF j = i + 1 THEN e ELSE Cell(h, j - 1)
      /\ \A g \in Heads \ {h} : /\ Len(list[g]') = Len(list[g])
                                /\ \A j \in Int : Cell(g, j)' = Cell(g, j)
  BY <1>1, <1>2, <1>5, LinkInCells
<1>8. TypeOK'
  BY <1>6, <1>7 DEF TypeOK
<1>9. ASSUME NEW g \in Heads, NEW k \in Heads,
             NEW p \in 1..Len(list[g]'), NEW q \in 1..Len(list[k]'),
             Cell(g, p)' = Cell(k, q)'
      PROVE  g = k /\ p = q
  <2>1. CASE g = h /\ k = h
    <3>1. p \in 1..(n + 1) /\ q \in 1..(n + 1)
      BY <1>7, <2>1
    <3>2. ASSUME NEW r \in 1..(n + 1), r # i + 1
          PROVE  \E u \in 0..n : /\ Cell(h, r)' = Cell(h, u)
                                  /\ u = IF r <= i THEN r ELSE r - 1
      BY <1>2, <1>7, <3>2
    <3>3. CASE p = i + 1 \/ q = i + 1
      BY <1>1, <1>2, <1>7, <1>9, <2>1, <3>1, <3>2, <3>3
    <3>4. CASE p # i + 1 /\ q # i + 1
      BY <1>2, <1>9, <2>1, <3>1, <3>2, <3>4, CellsDistinct
    <3> QED
      BY <3>3, <3>4
  <2>2. CASE g = h /\ k # h
    <3>1. q \in 0..Len(list[k]) /\ Cell(k, q)' = Cell(k, q)
      BY <1>7, <1>9, <2>2
    <3>2. p \in 1..(n + 1)
      BY <1>7, <2>2
    <3>3. Cell(g, p)' = e \/ \E u \in 0..Len(list[h]) : Cell(g, p)' = Cell(h, u)
      BY <1>2, <1>7, <2>2, <3>2
    <3> QED
      BY <1>1, <1>9, <2>2, <3>1, <3>3, CellsDistinct
  <2>3. CASE g # h /\ k = h
    <3>1. p \in 0..Len(list[g]) /\ Cell(g, p)' = Cell(g, p)
      BY <1>7, <1>9, <2>3
    <3>2. q \in 1..(n + 1)
      BY <1>7, <2>3
    <3>3. Cell(k, q)' = e \/ \E u \in 0..Len(list[h]) : Cell(k, q)' = Cell(h, u)
      BY <1>2, <1>7, <2>3, <3>2
    <3> QED
      BY <1>1, <1>9, <2>3, <3>1, <3>3, CellsDistinct
  <2>4. CASE g # h /\ k # h
    <3>1. p \in 0..Len(list[g]) /\ Cell(g, p)' = Cell(g, p)
      BY <1>7, <1>9, <2>4
    <3>2. q \in 0..Len(list[k]) /\ Cell(k, q)' = Cell(k, q)
      BY <1>7, <1>9, <2>4
    <3>3. Cell(g, p) = Cell(k, q)
      BY <1>9, <3>1, <3>2
    <3> QED
      BY <3>1, <3>2, <3>3, CellsDistinct
  <2> QED
    BY <2>1, <2>2, <2>3, <2>4
<1>10. OnOneList'
  <2>1. \A g \in Heads : DOMAIN list'[g] = 1..Len(list[g]')
    BY <1>7
  <2>2. \A g \in Heads : \A p \in 1..Len(list[g]') : Cell(g, p)' = list'[g][p]
    BY <1>7 DEF Cell
  <2>3. ASSUME NEW g \in Heads, NEW k \in Heads,
               NEW p \in DOMAIN list'[g], NEW q \in DOMAIN list'[k],
               list'[g][p] = list'[k][q]
        PROVE  g = k /\ p = q
    <3>1. p \in 1..Len(list[g]') /\ q \in 1..Len(list[k]')
      BY <2>1
    <3>2. Cell(g, p)' = Cell(k, q)'
      BY <2>2, <2>3, <3>1
    <3> QED
      BY <1>9, <3>1, <3>2
  <2> QED
    BY <2>3 DEF OnOneList
<1>11. ASSUME NEW j \in 0..(n + 1)
       PROVE  /\ next'[Cell(h, j)'] =
                     IF j = n + 1 THEN NULL ELSE Cell(h, j + 1)'
              /\ prev'[Cell(h, j)'] =
                     IF j = 0 THEN Cell(h, n + 1)' ELSE Cell(h, j - 1)'
  <2>1. CASE j < i
    <3>1. Cell(h, j)' = Cell(h, j) /\ Cell(h, j + 1)' = Cell(h, j + 1)
      BY <1>2, <1>7, <2>1
    <3>2. Cell(h, j) \in Cells \ {e, c}
      BY <1>1, <1>2, <2>1, CellTypes, CellsDistinct
    <3>3. next'[Cell(h, j)'] = Cell(h, j + 1)'
      BY <1>2, <1>6, <2>1, <3>1, <3>2, Links
    <3>4. CASE j # 0
      <4>1. Cell(h, j) # b
        BY <1>2, <1>3, <2>1, <3>4, CellsDistinct
      <4> QED
        BY <1>2, <1>6, <1>7, <2>1, <3>1, <3>2, <3>3, <3>4, <4>1, Links
    <3>5. CASE j = 0 /\ i = n
      <4>1. Cell(h, j) = b
        BY <1>3, <3>5
      <4>2. Cell(h, n + 1)' = e
        BY <1>2, <1>7, <3>5
      <4> QED
        BY <1>2, <1>6, <2>1, <3>1, <3>3, <3>5, <4>1, <4>2
    <3>6. CASE j = 0 /\ i # n
      <4>1. Cell(h, j) # b
        BY <1>2, <1>3, <2>1, <3>6, CellsDistinct
      <4>2. Cell(h, n + 1)' = Cell(h, n)
        BY <1>2, <1>7, <3>6
      <4>3. prev[Cell(h, j)] = Cell(h, n)
        BY <1>2, <2>1, <3>6, Links
      <4> QED
        BY <1>2, <1>6, <2>1, <3>1, <3>2, <3>3, <3>6, <4>1, <4>2, <4>3
    <3> QED
      BY <3>4, <3>5, <3>6
  <2>2. CASE j = i
    <3>1. Cell(h, j)' = c /\ Cell(h, j + 1)' = e
      BY <1>2, <1>7, <2>2
    <3>2. next'[Cell(h, j)'] = Cell(h, j + 1)'
      BY <1>6, <3>1
    <3>3. c # e
      BY <1>1
    <3>4. CASE j # 0
      <4>1. c # b
        BY <1>2, <1>3, <2>2, <3>4, CellsDistinct
      <4>2. prev'[c] = prev[c]
        BY <1>3, <1>6, <3>3, <4>1
      <4>3. prev[c] = Cell(h, j - 1)
        BY <2>2, <3>4, Links
      <4>4. Cell(h, j - 1)' = Cell(h, j - 1)
        BY <1>2, <1>7, <2>2, <3>4
      <4> QED
        BY <1>2, <2>2, <3>1, <3>2, <3>4, <4>2, <4>3, <4>4
    <3>5. CASE j = 0 /\ i = n
      <4>1. b = c
        BY <1>3, <2>2, <3>5
      <4>2. Cell(h, n + 1)' = e
        BY <1>2, <1>7, <3>5
      <4> QED
        BY <1>2, <1>6, <2>2, <3>1, <3>2, <3>5, <4>1, <4>2
    <3>6. CASE j = 0 /\ i # n
      <4>1. c # b
        BY <1>2, <1>3, <2>2, <3>6, CellsDistinct
      <4>2. prev'[c] = prev[c]
        BY <1>3, <1>6, <3>3, <4>1
      <4>3. prev[c] = Cell(h, n)
        BY <1>2, <2>2, <3>6, Links
      <4>4. Cell(h, n + 1)' = Cell(h, n)
        BY <1>2, <1>7, <2>2, <3>6
      <4> QED
        BY <1>2, <2>2, <3>1, <3>2, <3>6, <4>2, <4>3, <4>4
    <3> QED
      BY <3>4, <3>5, <3>6
  <2>3. CASE j = i + 1
    <3>1. Cell(h, j)' = e /\ Cell(h, j - 1)' = c
      BY <1>2, <1>7, <2>3
    <3>2. i # n => Cell(h, j + 1)' = Cell(h, j)
      BY <1>2, <1>7, <2>3
    <3> QED
      BY <1>2, <1>3, <1>6, <2>3, <3>1, <3>2
  <2>4. CASE j > i + 1
    <3>1. Cell(h, j)' = Cell(h, j - 1) /\ j - 1 \in 0..n
      BY <1>2, <1>7, <2>4
    <3>2. Cell(h, j - 1) \in Cells \ {e, c}
      BY <1>1, <1>2, <2>4, <3>1, CellTypes, CellsDistinct
    <3>3. next'[Cell(h, j)'] = IF j = n + 1 THEN NULL ELSE Cell(h, j)
      <4>1. next[Cell(h, j - 1)] = IF j = n + 1 THEN NULL ELSE Cell(h, j)
        <5> DEFINE k == j - 1
        <5>1. k \in 0..Len(list[h]) /\ k + 1 = j /\ (k = n <=> j = n + 1)
          BY <1>2, <3>1
        <5> HIDE DEF k
        <5>2. next[Cell(h, k)] = IF k = n THEN NULL ELSE Cell(h, k + 1)
          BY <1>2, <5>1, Links
        <5> QED
          BY <5>1, <5>2 DEF k
      <4> QED
        BY <1>6, <3>1, <3>2, <4>1
    <3>4. j # n + 1 => Cell(h, j + 1)' = Cell(h, j)
      BY <1>2, <1>7, <2>4
    <3>5. CASE j = i + 2
      BY <1>2, <1>3, <1>6, <1>7, <2>4, <3>1, <3>3, <3>4, <3>5
    <3>6. CASE j # i + 2
      <4>1. Cell(h, j - 1) # b
        BY <1>2, <1>3, <2>4, <3>1, <3>6, CellsDistinct
      <4>2. prev[Cell(h, j - 1)] = Cell(h, j - 2)
        <5> DEFINE k == j - 1
        <5>1. k \in 0..Len(list[h]) /\ k # 0 /\ k - 1 = j - 2
          BY <1>2, <2>4, <3>1
        <5> HIDE DEF k
        <5>2. prev[Cell(h, k)] = Cell(h, k - 1)
          BY <5>1, Links
        <5> QED
          BY <5>1, <5>2 DEF k
      <4>3. Cell(h, j - 1)' = Cell(h, j - 2)
        BY <1>2, <1>7, <2>4, <3>6
      <4> QED
        BY <1>2, <1>6, <2>4, <3>1, <3>2, <3>3, <3>4, <4>1, <4>2, <4>3
    <3> QED
      BY <3>5, <3>6
  <2> QED
    BY <1>2, <2>1, <2>2, <2>3, <2>4
<1>12. ASSUME NEW g \in Heads \ {h}, NEW j \in 0..Len(list[g])
       PROVE  /\ next'[Cell(g, j)'] =
                     IF j = Len(list[g]') THEN NULL ELSE Cell(g, j + 1)'
              /\ prev'[Cell(g, j)'] =
                     IF j = 0 THEN Cell(g, Len(list[g]))' ELSE Cell(g, j - 1)'
  <2>1. Len(list[g]) \in Nat /\ Cell(g, j) \in Cells
    BY CellTypes
  <2>2. Cell(g, j) # c /\ Cell(g, j) # b /\ Cell(g, j) # e
    BY <1>1, <1>2, <1>3, CellsDistinct
  <2>3. next'[Cell(g, j)] = next[Cell(g, j)] /\ prev'[Cell(g, j)] = prev[Cell(g, j)]
    BY <1>6, <2>1, <2>2
  <2>4. /\ Len(list[g]') = Len(list[g])
        /\ Cell(g, j)' = Cell(g, j) /\ Cell(g, j + 1)' = Cell(g, j + 1)
        /\ Cell(g, j - 1)' = Cell(g, j - 1)
        /\ Cell(g, Len(list[g]))' = Cell(g, Len(list[g]))
    BY <1>7, <2>1
  <2> QED
    BY <2>1, <2>3, <2>4, Links
<1>13. ASSUME NEW g \in Heads, NEW j \in 0..Len(list[g]')
       PROVE  /\ next'[Cell(g, j)'] =
                     IF j = Len(list[g]') THEN NULL ELSE Cell(g, j + 1)'
              /\ prev'[Cell(g, j)'] =
                     IF j = 0 THEN Cell(g, Len(list[g]))' ELSE Cell(g, j - 1)'
  <2>1. CASE g = h
    <3>1. Len(list[h]') = n + 1 /\ j \in 0..(n + 1)
      BY <1>7, <1>13, <2>1
    <3>2. Cell(h, Len(list[h]))' = Cell(h, n + 1)'
      BY <3>1
    <3> QED
      BY <1>11, <2>1, <3>1, <3>2
  <2>2. CASE g # h
    <3>1. j \in 0..Len(list[g])
      BY <1>7, <1>13, <2>2
    <3> QED
      BY <1>12, <2>2, <3>1
  <2> QED
    BY <2>1, <2>2
<1>14. Linked'
  BY <1>13 DEF Linked
<1> QED
  BY <1>8, <1>10, <1>14 DEF IInv

\* Every insertion of the header is LinkIn behind some cell.
LEMMA InsertStep ==
    ASSUME IInv, NEW h \in Heads, NEW e \in OffList,
           \/ TAILQ_INSERT_TAIL(h, e)
           \/ TAILQ_INSERT_HEAD(h, e)
           \/ \E i \in DOMAIN list[h] :
                 TAILQ_INSERT_AFTER(h, i, e) \/ TAILQ_INSERT_BEFORE(h, i, e)
    PROVE  IInv'
<1>1. /\ e \in Nodes /\ e \in Cells
      /\ \A i \in 0..Len(list[h]) : Cell(h, i) # e
  BY OffListIsNew
<1>2. /\ next \in [Cells -> Nodes \cup {NULL}]
      /\ prev \in [Cells -> Cells]
  BY DEF IInv, TypeOK
<1>3. /\ Len(list[h]) \in Nat /\ Cell(h, 0) = h /\ DOMAIN list[h] = 1..Len(list[h])
      /\ \A i \in 0..Len(list[h]) : Cell(h, i) \in Cells
      /\ \A i \in 1..Len(list[h]) : Cell(h, i) = list[h][i]
  BY CellTypes
<1>4. CASE TAILQ_INSERT_TAIL(h, e)
  <2>1. /\ prev[h] = Cell(h, Len(list[h]))
        /\ next[prev[h]] = NULL /\ Behind(h, prev[h]) = h
    BY <1>3, Links
  <2>2. LinkIn(h, Len(list[h]), Len(list[h]) + 1, e)
    BY <1>1, <1>2, <1>3, <1>4, <2>1 DEF TAILQ_INSERT_TAIL, LinkIn
  <2> QED
    BY <1>3, <2>2, LinkInStep
<1>5. CASE TAILQ_INSERT_HEAD(h, e)
  <2>1. LinkIn(h, 0, 1, e)
    BY <1>3, <1>5 DEF TAILQ_INSERT_HEAD, LinkIn
  <2> QED
    BY <1>3, <2>1, LinkInStep
<1>6. ASSUME NEW i \in DOMAIN list[h], TAILQ_INSERT_AFTER(h, i, e)
      PROVE  IInv'
  <2>1. LinkIn(h, i, i + 1, e)
    BY <1>3, <1>6 DEF TAILQ_INSERT_AFTER, LinkIn
  <2> QED
    BY <1>3, <2>1, LinkInStep
<1>7. ASSUME NEW i \in DOMAIN list[h], TAILQ_INSERT_BEFORE(h, i, e)
      PROVE  IInv'
  <2> DEFINE k == i - 1
  <2>1. k \in 0..Len(list[h]) /\ k + 1 = i /\ k # Len(list[h]) /\ i \in 1..Len(list[h])
    BY <1>3
  <2>2. /\ prev[Cell(h, i)] = Cell(h, k)
        /\ next[Cell(h, k)] = Cell(h, i)
        /\ Behind(h, Cell(h, k)) = Cell(h, i)
    <3>1. prev[Cell(h, i)] = Cell(h, k)
      BY <2>1, Links
    <3> HIDE DEF k
    <3>2. next[Cell(h, k)] = Cell(h, k + 1) /\ Behind(h, Cell(h, k)) = Cell(h, k + 1)
      BY <2>1, Links
    <3> QED
      BY <2>1, <3>1, <3>2
  <2>3. LinkIn(h, k, i, e)
    <3> HIDE DEF k
    <3> DEFINE l == Cell(h, i)
    <3>1. l = list[h][i] /\ l # e /\ l \in Cells
      BY <1>1, <1>3, <2>1
    <3>2. /\ next' = [next EXCEPT ![e] = l, ![prev[l]] = e]
          /\ prev' = [prev EXCEPT ![e] = prev[l], ![l] = e]
          /\ Put(h, i, e)
      BY <1>7, <3>1 DEF TAILQ_INSERT_BEFORE
    <3>3. next' = [next EXCEPT ![e] = next[Cell(h, k)], ![Cell(h, k)] = e]
      BY <2>2, <3>2
    <3>4. prev' = [prev EXCEPT ![l] = e, ![e] = Cell(h, k)]
      BY <1>1, <1>2, <2>2, <3>1, <3>2
    <3> QED
      BY <2>2, <3>2, <3>3, <3>4 DEF LinkIn
  <2> QED
    BY <2>1, <2>3, LinkInStep
<1> QED
  BY <1>4, <1>5, <1>6, <1>7

\* TAILQ_REMOVE keeps the queues in order.
LEMMA RemoveStep ==
    ASSUME IInv, NEW h \in Heads, NEW i \in DOMAIN list[h], TAILQ_REMOVE(h, i)
    PROVE  IInv'
<1> DEFINE e == Cell(h, i)
           a == Cell(h, i - 1)
           b == Behind(h, e)
<1>0. PICK n \in Nat : n = Len(list[h])
  BY CellTypes
<1>1. /\ n \in Nat /\ n = Len(list[h]) /\ i \in 1..n
      /\ i \in 0..Len(list[h]) /\ i - 1 \in 0..Len(list[h])
      /\ list[h] \in Seq(Nodes)
  BY <1>0, CellTypes
<1>2. /\ a \in Cells /\ e \in Cells /\ e = list[h][i]
      /\ b = Cell(h, IF i = n THEN 0 ELSE i + 1) /\ b \in Cells
      /\ next[e] = IF i = n THEN NULL ELSE Cell(h, i + 1)
      /\ prev[e] = a
  BY <1>1, CellTypes, Links
<1>3. /\ next \in [Cells -> Nodes \cup {NULL}]
      /\ prev \in [Cells -> Cells]
      /\ list \in [Heads -> Seq(Nodes)]
  BY DEF IInv, TypeOK
<1>4. /\ next' = [next EXCEPT ![a] = next[e]]
      /\ prev' = [prev EXCEPT ![b] = a]
      /\ list' = [list EXCEPT ![h] = RemoveAt(@, i)]
  BY <1>2 DEF TAILQ_REMOVE
<1>5. /\ next' \in [Cells -> Nodes \cup {NULL}]
      /\ prev' \in [Cells -> Cells]
      /\ next'[a] = next[e] /\ prev'[b] = a
      /\ \A d \in Cells \ {a} : next'[d] = next[d]
      /\ \A d \in Cells \ {b} : prev'[d] = prev[d]
  BY <1>2, <1>3, <1>4
<1>6. RemoveAt(list[h], i) \in Seq(Nodes) /\ Len(RemoveAt(list[h], i)) = n - 1
  <2>1. \A j \in 1..(n - 1) :
            (IF j < i THEN list[h][j] ELSE list[h][j + 1]) \in Nodes
    BY <1>1
  <2>2. RemoveAt(list[h], i) \in [1..(n - 1) -> Nodes]
    BY <1>1, <2>1 DEF RemoveAt
  <2> QED
    BY <1>1, <2>2
<1>7. /\ list' \in [Heads -> Seq(Nodes)]
      /\ Len(list[h]') = n - 1
      /\ \A j \in 0..(n - 1) : Cell(h, j)' =
             IF j < i THEN Cell(h, j) ELSE Cell(h, j + 1)
      /\ \A g \in Heads \ {h} : /\ Len(list[g]') = Len(list[g])
                                /\ \A j \in Int : Cell(g, j)' = Cell(g, j)
  <2>1. list[h]' = RemoveAt(list[h], i) /\ \A g \in Heads \ {h} : list[g]' = list[g]
    BY <1>3, <1>4
  <2>2. list' \in [Heads -> Seq(Nodes)]
    BY <1>3, <1>4, <1>6
  <2>3. \A j \in 1..(n - 1) : RemoveAt(list[h], i)[j] =
             IF j < i THEN list[h][j] ELSE list[h][j + 1]
    BY <1>1 DEF RemoveAt
  <2>4. \A j \in 0..(n - 1) : Cell(h, j)' =
             IF j < i THEN Cell(h, j) ELSE Cell(h, j + 1)
    BY <1>1, <2>1, <2>3 DEF Cell
  <2> QED
    BY <1>6, <2>1, <2>2, <2>4 DEF Cell
<1>8. TypeOK'
  BY <1>5, <1>7 DEF TypeOK
<1>9. ASSUME NEW g \in Heads, NEW k \in Heads,
             NEW p \in 1..Len(list[g]'), NEW q \in 1..Len(list[k]'),
             Cell(g, p)' = Cell(k, q)'
      PROVE  g = k /\ p = q
  <2>1. ASSUME NEW f \in Heads, NEW r \in 1..Len(list[f]')
        PROVE  \E u \in 0..Len(list[f]) :
                   /\ Cell(f, r)' = Cell(f, u)
                   /\ u = IF f = h /\ r >= i THEN r + 1 ELSE r
    <3>1. CASE f = h
      <4>1. r \in 1..(n - 1)
        BY <1>7, <3>1
      <4>2. CASE r < i
        BY <1>1, <1>7, <3>1, <4>1, <4>2
      <4>3. CASE r >= i
        <5>1. r + 1 \in 0..Len(list[f])
          BY <1>1, <3>1, <4>1
        <5> QED
          BY <1>1, <1>7, <3>1, <4>1, <4>3, <5>1
      <4> QED
        BY <1>1, <4>1, <4>2, <4>3
    <3>2. CASE f # h
      BY <1>7, <3>2, CellTypes
    <3> QED
      BY <3>1, <3>2
  <2>2. PICK u \in 0..Len(list[g]) :
            /\ Cell(g, p)' = Cell(g, u)
            /\ u = IF g = h /\ p >= i THEN p + 1 ELSE p
    BY <2>1
  <2>3. PICK v \in 0..Len(list[k]) :
            /\ Cell(k, q)' = Cell(k, v)
            /\ v = IF k = h /\ q >= i THEN q + 1 ELSE q
    BY <2>1
  <2>4. g = k /\ u = v
    <3>1. Cell(g, u) = Cell(k, v)
      BY <1>9, <2>2, <2>3
    <3> QED
      BY <3>1, CellsDistinct
  <2>5. Len(list[g]') \in Nat /\ Len(list[k]') \in Nat
    BY <1>7
  <2> QED
    BY <1>1, <2>2, <2>3, <2>4, <2>5
<1>10. OnOneList'
  <2>1. \A g \in Heads : DOMAIN list'[g] = 1..Len(list[g]')
    BY <1>7
  <2>2. \A g \in Heads : \A p \in 1..Len(list[g]') : Cell(g, p)' = list'[g][p]
    BY <1>7 DEF Cell
  <2>3. ASSUME NEW g \in Heads, NEW k \in Heads,
               NEW p \in DOMAIN list'[g], NEW q \in DOMAIN list'[k],
               list'[g][p] = list'[k][q]
        PROVE  g = k /\ p = q
    <3>1. p \in 1..Len(list[g]') /\ q \in 1..Len(list[k]')
      BY <2>1
    <3>2. Cell(g, p)' = Cell(k, q)'
      BY <2>2, <2>3, <3>1
    <3> QED
      BY <1>9, <3>1, <3>2
  <2> QED
    BY <2>3 DEF OnOneList
<1>11. ASSUME NEW j \in 0..(n - 1)
       PROVE  /\ next'[Cell(h, j)'] =
                     IF j = n - 1 THEN NULL ELSE Cell(h, j + 1)'
              /\ prev'[Cell(h, j)'] =
                     IF j = 0 THEN Cell(h, n - 1)' ELSE Cell(h, j - 1)'
  <2>1. CASE j < i - 1
    <3>1. /\ Cell(h, j)' = Cell(h, j) /\ Cell(h, j + 1)' = Cell(h, j + 1)
          /\ j \in 0..Len(list[h]) /\ Cell(h, j) \in Cells
      BY <1>1, <1>7, <2>1, CellTypes
    <3>2. Cell(h, j) # a
      BY <1>1, <2>1, <3>1, CellsDistinct
    <3>3. next'[Cell(h, j)'] = Cell(h, j + 1)'
      BY <1>1, <1>5, <2>1, <3>1, <3>2, Links
    <3>4. CASE j # 0
      <4>1. Cell(h, j) # b
        BY <1>1, <1>2, <2>1, <3>1, <3>4, CellsDistinct
      <4>2. prev[Cell(h, j)] = Cell(h, j - 1)
        BY <3>1, <3>4, Links
      <4>3. Cell(h, j - 1)' = Cell(h, j - 1)
        BY <1>1, <1>7, <2>1, <3>4
      <4> QED
        BY <1>1, <1>5, <2>1, <3>1, <3>3, <3>4, <4>1, <4>2, <4>3
    <3>5. CASE j = 0 /\ i = n
      <4>1. Cell(h, j) = b
        BY <1>2, <3>5
      <4>2. Cell(h, n - 1)' = a
        BY <1>1, <1>7, <2>1, <3>5
      <4> QED
        BY <1>1, <1>5, <2>1, <3>1, <3>3, <3>5, <4>1, <4>2
    <3>6. CASE j = 0 /\ i # n
      <4>1. Cell(h, j) # b
        BY <1>1, <1>2, <2>1, <3>1, <3>6, CellsDistinct
      <4>2. prev[Cell(h, j)] = Cell(h, n)
        BY <1>1, <3>1, <3>6, Links
      <4>3. Cell(h, n - 1)' = Cell(h, n)
        BY <1>1, <1>7, <3>6
      <4> QED
        BY <1>1, <1>5, <2>1, <3>1, <3>3, <3>6, <4>1, <4>2, <4>3
    <3> QED
      BY <3>4, <3>5, <3>6
  <2>2. CASE j = i - 1
    <3>1. Cell(h, j)' = a /\ j \in 0..Len(list[h])
      BY <1>1, <1>7, <2>2
    <3>2. j # n - 1 => Cell(h, j + 1)' = Cell(h, i + 1)
      BY <1>1, <1>7, <2>2
    <3>3. next'[Cell(h, j)'] = IF j = n - 1 THEN NULL ELSE Cell(h, j + 1)'
      BY <1>1, <1>2, <1>5, <2>2, <3>1, <3>2
    <3>4. CASE j # 0
      <4>1. a # b
        BY <1>1, <1>2, <2>2, <3>4, CellsDistinct
      <4>2. prev[Cell(h, j)] = Cell(h, j - 1)
        BY <3>1, <3>4, Links
      <4>3. Cell(h, j - 1)' = Cell(h, j - 1)
        BY <1>1, <1>7, <2>2, <3>4
      <4> QED
        BY <1>1, <1>2, <1>5, <2>2, <3>1, <3>3, <3>4, <4>1, <4>2, <4>3
    <3>5. CASE j = 0 /\ i = n
      BY <1>1, <1>2, <1>5, <2>2, <3>1, <3>3, <3>5
    <3>6. CASE j = 0 /\ i # n
      <4>1. a # b
        BY <1>1, <1>2, <2>2, <3>6, CellsDistinct
      <4>2. prev[Cell(h, j)] = Cell(h, n)
        BY <1>1, <3>1, <3>6, Links
      <4>3. Cell(h, n - 1)' = Cell(h, n)
        BY <1>1, <1>7, <2>2, <3>6
      <4> QED
        BY <1>1, <1>2, <1>5, <2>2, <3>1, <3>3, <3>6, <4>1, <4>2, <4>3
    <3> QED
      BY <3>4, <3>5, <3>6
  <2>3. CASE j >= i
    <3> DEFINE k == j + 1
    <3>1. /\ k \in 0..Len(list[h]) /\ k - 1 = j /\ (k = n <=> j = n - 1) /\ k > i
          /\ Cell(h, j)' = Cell(h, k)
      BY <1>1, <1>7, <2>3
    <3> HIDE DEF k
    <3>2. Cell(h, k) \in Cells /\ Cell(h, k) # a
      BY <1>1, <3>1, CellTypes, CellsDistinct
    <3>3. next'[Cell(h, j)'] = IF k = n THEN NULL ELSE Cell(h, k + 1)
      BY <1>1, <1>5, <3>1, <3>2, Links
    <3>4. k # n => Cell(h, j + 1)' = Cell(h, k + 1)
      BY <1>1, <1>7, <2>3, <3>1
    <3>5. CASE k = i + 1
      <4>1. Cell(h, k) = b
        BY <1>1, <1>2, <3>1, <3>5
      <4>2. Cell(h, j - 1)' = a /\ j # 0
        BY <1>1, <1>7, <2>3, <3>1, <3>5
      <4> QED
        BY <1>1, <1>5, <2>3, <3>1, <3>3, <3>4, <4>1, <4>2
    <3>6. CASE k # i + 1
      <4>1. Cell(h, k) # b
        BY <1>1, <1>2, <3>1, <3>6, CellsDistinct
      <4>2. prev[Cell(h, k)] = Cell(h, k - 1)
        BY <1>1, <3>1, Links
      <4>3. Cell(h, j - 1)' = Cell(h, j) /\ j # 0
        BY <1>1, <1>7, <2>3, <3>1, <3>6
      <4> QED
        BY <1>1, <1>5, <2>3, <3>1, <3>2, <3>3, <3>4, <4>1, <4>2, <4>3
    <3> QED
      BY <3>5, <3>6
  <2> QED
    BY <1>1, <2>1, <2>2, <2>3
<1>12. ASSUME NEW g \in Heads \ {h}, NEW j \in 0..Len(list[g])
       PROVE  /\ next'[Cell(g, j)'] =
                     IF j = Len(list[g]') THEN NULL ELSE Cell(g, j + 1)'
              /\ prev'[Cell(g, j)'] =
                     IF j = 0 THEN Cell(g, Len(list[g]))' ELSE Cell(g, j - 1)'
  <2>1. Len(list[g]) \in Nat /\ Cell(g, j) \in Cells
    BY CellTypes
  <2>2. Cell(g, j) # a /\ Cell(g, j) # b
    BY <1>1, <1>2, CellsDistinct
  <2>3. next'[Cell(g, j)] = next[Cell(g, j)] /\ prev'[Cell(g, j)] = prev[Cell(g, j)]
    BY <1>5, <2>1, <2>2
  <2>4. /\ Len(list[g]') = Len(list[g])
        /\ Cell(g, j)' = Cell(g, j) /\ Cell(g, j + 1)' = Cell(g, j + 1)
        /\ Cell(g, j - 1)' = Cell(g, j - 1)
        /\ Cell(g, Len(list[g]))' = Cell(g, Len(list[g]))
    BY <1>7, <2>1
  <2> QED
    BY <2>1, <2>3, <2>4, Links
<1>13. ASSUME NEW g \in Heads, NEW j \in 0..Len(list[g]')
       PROVE  /\ next'[Cell(g, j)'] =
                     IF j = Len(list[g]') THEN NULL ELSE Cell(g, j + 1)'
              /\ prev'[Cell(g, j)'] =
                     IF j = 0 THEN Cell(g, Len(list[g]))' ELSE Cell(g, j - 1)'
  <2>1. CASE g = h
    <3>1. Len(list[h]') = n - 1 /\ j \in 0..(n - 1)
      BY <1>7, <1>13, <2>1
    <3>2. Cell(h, Len(list[h]))' = Cell(h, n - 1)'
      BY <3>1
    <3> QED
      BY <1>11, <2>1, <3>1, <3>2
  <2>2. CASE g # h
    <3>1. j \in 0..Len(list[g])
      BY <1>7, <1>13, <2>2
    <3> QED
      BY <1>12, <2>2, <3>1
  <2> QED
    BY <2>1, <2>2
<1>14. Linked'
  BY <1>13 DEF Linked
<1> QED
  BY <1>8, <1>10, <1>14 DEF IInv

\* A queue whose list and links a step leaves alone stays in order.
LEMMA OtherQueue ==
    ASSUME IInv, NEW f \in Heads, list[f]' = list[f],
           \A j \in 0..Len(list[f]) : /\ next'[Cell(f, j)] = next[Cell(f, j)]
                                      /\ prev'[Cell(f, j)] = prev[Cell(f, j)],
           NEW j \in 0..Len(list[f]')
    PROVE  /\ next'[Cell(f, j)'] =
                  IF j = Len(list[f]') THEN NULL ELSE Cell(f, j + 1)'
           /\ prev'[Cell(f, j)'] =
                  IF j = 0 THEN Cell(f, Len(list[f]))' ELSE Cell(f, j - 1)'
<1>1. /\ Len(list[f]') = Len(list[f]) /\ j \in 0..Len(list[f])
      /\ Len(list[f]) \in Nat
  BY CellTypes
<1>2. /\ Cell(f, j)' = Cell(f, j) /\ Cell(f, j + 1)' = Cell(f, j + 1)
      /\ Cell(f, j - 1)' = Cell(f, j - 1)
      /\ Cell(f, Len(list[f]))' = Cell(f, Len(list[f]))
  BY <1>1 DEF Cell
<1> QED
  BY <1>1, <1>2, Links

\* TAILQ_CONCAT keeps the queues in order.
LEMMA ConcatStep ==
    ASSUME IInv, NEW g \in Heads, NEW h \in Heads, g # h, TAILQ_CONCAT(g, h)
    PROVE  IInv'
<1>0. /\ \E x \in Nat : x = Len(list[g])
      /\ \E x \in Nat : x = Len(list[h])
  BY CellTypes
<1>m. PICK m \in Nat : m = Len(list[g])
  BY <1>0
<1>n. PICK n \in Nat : n = Len(list[h])
  BY <1>0
<1>1. /\ n # 0 /\ next[h] = Cell(h, 1) /\ prev[h] = Cell(h, n)
      /\ prev[g] = Cell(g, m) /\ h = Cell(h, 0) /\ g = Cell(g, 0)
  BY <1>m, <1>n, CellTypes, Links DEF TAILQ_CONCAT
<1>2. /\ list \in [Heads -> Seq(Nodes)]
      /\ next \in [Cells -> Nodes \cup {NULL}]
      /\ prev \in [Cells -> Cells]
      /\ list[g] \in Seq(Nodes) /\ list[h] \in Seq(Nodes)
  BY DEF IInv, TypeOK
<1>3. /\ \A j \in 0..m : Cell(g, j) \in Cells
      /\ \A j \in 0..n : Cell(h, j) \in Cells
      /\ \A j \in 1..n : Cell(h, j) \in Nodes
      /\ \A i \in 0..m, j \in 0..n : Cell(g, i) # Cell(h, j)
  BY <1>m, <1>n, CellTypes, CellsDistinct
<1>4. /\ next' = [next EXCEPT ![Cell(g, m)] = Cell(h, 1), ![h] = NULL]
      /\ prev' = [prev EXCEPT ![Cell(h, 1)] = Cell(g, m),
                              ![g] = Cell(h, n), ![h] = h]
      /\ list' = [list EXCEPT ![g] = list[g] \o list[h], ![h] = <<>>]
  BY <1>1 DEF TAILQ_CONCAT
<1>5. Cell(g, m) # h /\ Cell(h, 1) # g /\ Cell(h, 1) # h /\ Cell(h, 1) \in Nodes
  BY <1>1, <1>3
<1>6. /\ next' \in [Cells -> Nodes \cup {NULL}]
      /\ prev' \in [Cells -> Cells]
      /\ next'[Cell(g, m)] = Cell(h, 1) /\ next'[h] = NULL
      /\ \A d \in Cells \ {Cell(g, m), h} : next'[d] = next[d]
      /\ prev'[Cell(h, 1)] = Cell(g, m) /\ prev'[g] = Cell(h, n) /\ prev'[h] = h
      /\ \A d \in Cells \ {Cell(h, 1), g, h} : prev'[d] = prev[d]
  <2>1. /\ g \in Cells /\ h \in Cells /\ Cell(g, m) \in Cells
        /\ Cell(h, 1) \in Cells /\ Cell(h, n) \in Cells
    BY <1>1, <1>3 DEF Cells
  <2> QED
    BY <1>2, <1>4, <1>5, <2>1
<1>7. /\ list'[g] = list[g] \o list[h] /\ list'[h] = <<>>
      /\ list' \in [Heads -> Seq(Nodes)]
      /\ \A f \in Heads \ {g, h} : list'[f] = list[f]
  <2>1. list[g] \o list[h] \in Seq(Nodes) /\ <<>> \in Seq(Nodes)
    BY <1>2
  <2> DEFINE both == list[g] \o list[h]
             none == <<>>
  <2>2. list' = [list EXCEPT ![g] = both, ![h] = none]
    BY <1>4
  <2>3. both \in Seq(Nodes) /\ none \in Seq(Nodes)
    BY <2>1
  <2> HIDE DEF both, none
  <2>4. /\ list'[g] = both /\ list'[h] = none
        /\ list' \in [Heads -> Seq(Nodes)]
        /\ \A f \in Heads \ {g, h} : list'[f] = list[f]
    BY <1>2, <2>2, <2>3
  <2> QED
    BY <2>4 DEF both, none
<1>8. /\ Len(list[g]') = m + n /\ Len(list[h]') = 0
      /\ \A j \in 0..(m + n) : Cell(g, j)' =
             IF j <= m THEN Cell(g, j) ELSE Cell(h, j - m)
  <2>1. Len(list[g]') = m + n /\ Len(list[h]') = 0
    BY <1>m, <1>n, <1>2, <1>7
  <2>2. \A j \in 1..(m + n) : list'[g][j] =
             IF j <= m THEN list[g][j] ELSE list[h][j - m]
    BY <1>m, <1>n, <1>2, <1>7
  <2> QED
    BY <2>1, <2>2 DEF Cell
<1>9. TypeOK'
  BY <1>6, <1>7 DEF TypeOK
<1>10. OnOneList'
  <2>1. ASSUME NEW f \in Heads, NEW r \in 1..Len(list[f]')
        PROVE  \E k \in Heads : \E u \in 0..Len(list[k]) :
                   /\ list'[f][r] = Cell(k, u) /\ u # 0
                   /\ f = IF k = h THEN g ELSE k
                   /\ r = IF k = h THEN m + u ELSE u
    <3>1. CASE f = g
      <4>1. r \in 1..(m + n) /\ list'[f][r] = Cell(g, r)'
        BY <1>8, <3>1 DEF Cell
      <4>2. CASE r <= m
        BY <1>m, <1>8, <3>1, <4>1, <4>2
      <4>3. CASE r > m
        <5>1. r - m \in 0..Len(list[h]) /\ r - m # 0 /\ r = m + (r - m)
          BY <1>n, <4>1, <4>3
        <5>2. list'[f][r] = Cell(h, r - m)
          BY <1>8, <4>1, <4>3
        <5> QED
          BY <3>1, <5>1, <5>2
      <4> QED
        BY <4>1, <4>2, <4>3
    <3>2. CASE f = h
      BY <1>8, <3>2
    <3>3. CASE f # g /\ f # h
      <4>1. list'[f] = list[f] /\ Len(list[f]) \in Nat
        BY <1>7, <3>3, CellTypes
      <4>2. r \in 0..Len(list[f]) /\ r # 0 /\ list'[f][r] = Cell(f, r)
        BY <4>1 DEF Cell
      <4> QED
        BY <3>3, <4>2
    <3> QED
      BY <3>1, <3>2, <3>3
  <2>2. ASSUME NEW e \in Heads, NEW f \in Heads,
               NEW p \in 1..Len(list[e]'), NEW q \in 1..Len(list[f]'),
               list'[e][p] = list'[f][q]
        PROVE  e = f /\ p = q
    <3>1. PICK k \in Heads : \E u \in 0..Len(list[k]) :
              /\ list'[e][p] = Cell(k, u) /\ u # 0
              /\ e = IF k = h THEN g ELSE k
              /\ p = IF k = h THEN m + u ELSE u
      BY <2>1
    <3>2. PICK u \in 0..Len(list[k]) :
              /\ list'[e][p] = Cell(k, u) /\ u # 0
              /\ e = IF k = h THEN g ELSE k
              /\ p = IF k = h THEN m + u ELSE u
      BY <3>1
    <3>3. PICK l \in Heads : \E v \in 0..Len(list[l]) :
              /\ list'[f][q] = Cell(l, v) /\ v # 0
              /\ f = IF l = h THEN g ELSE l
              /\ q = IF l = h THEN m + v ELSE v
      BY <2>1
    <3>4. PICK v \in 0..Len(list[l]) :
              /\ list'[f][q] = Cell(l, v) /\ v # 0
              /\ f = IF l = h THEN g ELSE l
              /\ q = IF l = h THEN m + v ELSE v
      BY <3>3
    <3>5. Cell(k, u) = Cell(l, v)
      BY <2>2, <3>2, <3>4
    <3>6. k = l /\ u = v
      BY <3>5, CellsDistinct
    <3> QED
      BY <3>2, <3>4, <3>6
  <2>3. \A f \in Heads : DOMAIN list'[f] = 1..Len(list[f]')
    BY <1>7
  <2> QED
    BY <2>2, <2>3 DEF OnOneList
<1>11. ASSUME NEW j \in 0..(m + n)
       PROVE  /\ next'[Cell(g, j)'] =
                     IF j = m + n THEN NULL ELSE Cell(g, j + 1)'
              /\ prev'[Cell(g, j)'] =
                     IF j = 0 THEN Cell(g, m + n)' ELSE Cell(g, j - 1)'
  <2>1. CASE j <= m
    <3>1. Cell(g, j)' = Cell(g, j) /\ j \in 0..m /\ Cell(g, j) \in Cells
      BY <1>3, <1>8, <2>1
    <3>2. next'[Cell(g, j)] = Cell(g, j + 1)' /\ j # m + n
      <4>1. CASE j = m
        BY <1>1, <1>6, <1>8, <4>1
      <4>2. CASE j # m
        <5>1. Cell(g, j) # Cell(g, m) /\ Cell(g, j) # h
          BY <1>m, <1>1, <1>3, <3>1, <4>2, CellsDistinct
        <5>2. next[Cell(g, j)] = Cell(g, j + 1)
          BY <1>m, <3>1, <4>2, Links
        <5>3. Cell(g, j + 1)' = Cell(g, j + 1)
          BY <1>8, <3>1, <4>2
        <5> QED
          BY <1>1, <1>6, <3>1, <4>2, <5>1, <5>2, <5>3
      <4> QED
        BY <4>1, <4>2
    <3>3. j = 0 => prev'[Cell(g, j)] = Cell(g, m + n)'
      <4>1. Cell(g, m + n)' = Cell(h, n)
        <5>1. m + n \in 0..(m + n) /\ ~(m + n <= m) /\ (m + n) - m = n
          BY <1>1
        <5>2. Cell(g, m + n)' = Cell(h, (m + n) - m)
          BY <1>8, <5>1
        <5> QED
          BY <5>1, <5>2
      <4> QED
        BY <1>1, <1>6, <4>1
    <3>4. j # 0 => prev'[Cell(g, j)] = Cell(g, j - 1)'
      <4> SUFFICES ASSUME j # 0
                   PROVE  prev'[Cell(g, j)] = Cell(g, j - 1)'
        OBVIOUS
      <4>1. Cell(g, j) # g /\ Cell(g, j) # h /\ Cell(g, j) # Cell(h, 1)
        BY <1>m, <1>1, <1>3, <3>1, CellsDistinct
      <4>2. prev[Cell(g, j)] = Cell(g, j - 1)
        BY <1>m, <3>1, Links
      <4>3. Cell(g, j - 1)' = Cell(g, j - 1)
        BY <1>8, <3>1
      <4> QED
        BY <1>6, <3>1, <4>1, <4>2, <4>3
    <3> QED
      BY <3>1, <3>2, <3>3, <3>4
  <2>2. CASE j > m
    <3> DEFINE k == j - m
    <3>1. /\ k \in 1..n /\ k \in 0..Len(list[h]) /\ j = m + k /\ j # 0
          /\ Cell(g, j)' = Cell(h, k)
          /\ (j = m + n <=> k = n)
      BY <1>n, <1>8, <2>2
    <3>2. k # n => Cell(g, j + 1)' = Cell(h, k + 1)
      <4>1. k # n => j + 1 \in 0..(m + n) /\ ~(j + 1 <= m) /\ (j + 1) - m = k + 1
        BY <3>1
      <4>2. k # n => Cell(g, j + 1)' = Cell(h, (j + 1) - m)
        BY <1>8, <4>1
      <4> QED
        BY <4>1, <4>2
    <3>3. Cell(g, j - 1)' = IF k = 1 THEN Cell(g, m) ELSE Cell(h, k - 1)
      <4>1. CASE k = 1
        <5>1. j - 1 = m
          BY <3>1, <4>1
        <5> QED
          BY <1>8, <4>1, <5>1
      <4>2. CASE k # 1
        <5>1. j - 1 \in 0..(m + n) /\ ~(j - 1 <= m) /\ (j - 1) - m = k - 1
          BY <3>1, <4>2
        <5>2. Cell(g, j - 1)' = Cell(h, (j - 1) - m)
          BY <1>8, <5>1
        <5> QED
          BY <4>2, <5>1, <5>2
      <4> QED
        BY <4>1, <4>2
    <3> HIDE DEF k
    <3>4. /\ Cell(h, k) \in Cells /\ Cell(h, k) # Cell(g, m)
          /\ Cell(h, k) # h /\ Cell(h, k) # g
      <4>1. Cell(h, k) \in Nodes
        BY <1>3, <3>1
      <4> QED
        BY <1>3, <3>1, <4>1 DEF Cells
    <3>5. next'[Cell(h, k)] = IF k = n THEN NULL ELSE Cell(h, k + 1)
      BY <1>n, <1>6, <3>1, <3>4, Links
    <3>6. k # 1 => prev'[Cell(h, k)] = Cell(h, k - 1)
      <4> SUFFICES ASSUME k # 1
                   PROVE  prev'[Cell(h, k)] = Cell(h, k - 1)
        OBVIOUS
      <4>1. Cell(h, k) # Cell(h, 1)
        BY <1>n, <3>1, CellsDistinct
      <4>2. prev[Cell(h, k)] = Cell(h, k - 1)
        BY <1>n, <3>1, Links
      <4> QED
        BY <1>6, <3>4, <4>1, <4>2
    <3> QED
      BY <1>6, <3>1, <3>2, <3>3, <3>5, <3>6
  <2> QED
    BY <2>1, <2>2
<1>12. Cell(h, 0)' = h
  BY DEF Cell
<1>13. ASSUME NEW f \in Heads \ {g, h}, NEW j \in 0..Len(list[f]')
       PROVE  /\ next'[Cell(f, j)'] =
                     IF j = Len(list[f]') THEN NULL ELSE Cell(f, j + 1)'
              /\ prev'[Cell(f, j)'] =
                     IF j = 0 THEN Cell(f, Len(list[f]))' ELSE Cell(f, j - 1)'
  <2>1. ASSUME NEW i \in 0..Len(list[f])
        PROVE  /\ next'[Cell(f, i)] = next[Cell(f, i)]
               /\ prev'[Cell(f, i)] = prev[Cell(f, i)]
    <3>1. /\ Cell(f, i) \in Cells
          /\ Cell(f, i) # Cell(g, m) /\ Cell(f, i) # Cell(h, 1)
          /\ Cell(f, i) # Cell(g, 0) /\ Cell(f, i) # Cell(h, 0)
      BY <1>m, <1>n, <1>1, CellTypes, CellsDistinct
    <3> QED
      BY <1>1, <1>6, <3>1
  <2> QED
    BY <1>7, <2>1, OtherQueue
<1>14. Linked'
  <2>1. ASSUME NEW j \in 0..Len(list[g]')
        PROVE  /\ next'[Cell(g, j)'] =
                      IF j = Len(list[g]') THEN NULL ELSE Cell(g, j + 1)'
               /\ prev'[Cell(g, j)'] =
                      IF j = 0 THEN Cell(g, Len(list[g]))' ELSE Cell(g, j - 1)'
    BY <1>8, <1>11
  <2>2. ASSUME NEW j \in 0..Len(list[h]')
        PROVE  /\ next'[Cell(h, j)'] =
                      IF j = Len(list[h]') THEN NULL ELSE Cell(h, j + 1)'
               /\ prev'[Cell(h, j)'] =
                      IF j = 0 THEN Cell(h, Len(list[h]))' ELSE Cell(h, j - 1)'
    BY <1>6, <1>8, <1>12
  <2> QED
    BY <1>13, <2>1, <2>2 DEF Linked
<1> QED
  BY <1>9, <1>10, <1>14 DEF IInv

\* TAILQ_SWAP keeps the queues in order.
LEMMA SwapStep ==
    ASSUME IInv, NEW g \in Heads, NEW h \in Heads, g # h, TAILQ_SWAP(g, h)
    PROVE  IInv'
<1>0. /\ \E x \in Nat : x = Len(list[g])
      /\ \E x \in Nat : x = Len(list[h])
  BY CellTypes
<1>m. PICK m \in Nat : m = Len(list[g])
  BY <1>0
<1>n. PICK n \in Nat : n = Len(list[h])
  BY <1>0
<1> DEFINE First(f, l) == IF l = 0 THEN NULL ELSE Cell(f, 1)
<1>1. /\ next[g] = First(g, m) /\ prev[g] = Cell(g, m) /\ g = Cell(g, 0)
      /\ next[h] = First(h, n) /\ prev[h] = Cell(h, n) /\ h = Cell(h, 0)
  BY <1>m, <1>n, CellTypes, Links
<1>2. /\ list \in [Heads -> Seq(Nodes)]
      /\ next \in [Cells -> Nodes \cup {NULL}]
      /\ prev \in [Cells -> Cells]
  BY DEF IInv, TypeOK
<1>3. /\ \A j \in 0..m : Cell(g, j) \in Cells
      /\ \A j \in 1..m : Cell(g, j) \in Nodes
      /\ \A j \in 0..n : Cell(h, j) \in Cells
      /\ \A j \in 1..n : Cell(h, j) \in Nodes
      /\ \A i \in 0..m, j \in 0..n : Cell(g, i) # Cell(h, j)
  BY <1>m, <1>n, CellTypes, CellsDistinct
<1>4. /\ Behind(g, h) = IF n = 0 THEN g ELSE Cell(h, 1)
      /\ Behind(h, g) = IF m = 0 THEN h ELSE Cell(g, 1)
  BY <1>1, <1>3 DEF Behind
<1>5. /\ next' = [next EXCEPT ![g] = next[h], ![h] = next[g]]
      /\ prev' = [prev EXCEPT ![g] = prev[h], ![h] = prev[g],
                              ![Behind(g, h)] = g, ![Behind(h, g)] = h]
      /\ list' = [list EXCEPT ![g] = list[h], ![h] = list[g]]
  BY DEF TAILQ_SWAP
<1>6. /\ g \in Cells /\ h \in Cells
      /\ Behind(g, h) \in Cells /\ Behind(h, g) \in Cells
      /\ Behind(g, h) # h /\ Behind(h, g) # g /\ Behind(g, h) # Behind(h, g)
  BY <1>1, <1>3, <1>4 DEF Cells
<1>7. /\ next' \in [Cells -> Nodes \cup {NULL}]
      /\ prev' \in [Cells -> Cells]
      /\ next'[g] = next[h] /\ next'[h] = next[g]
      /\ \A d \in Cells \ {g, h} : next'[d] = next[d]
      /\ prev'[Behind(g, h)] = g /\ prev'[Behind(h, g)] = h
      /\ n # 0 => prev'[g] = prev[h]
      /\ m # 0 => prev'[h] = prev[g]
      /\ \A d \in Cells \ {g, h, Behind(g, h), Behind(h, g)} : prev'[d] = prev[d]
  <2>1. n # 0 => Behind(g, h) # g
    BY <1>3, <1>4
  <2>2. m # 0 => Behind(h, g) # h
    BY <1>3, <1>4
  <2>3. /\ prev' \in [Cells -> Cells]
        /\ prev'[Behind(g, h)] = g /\ prev'[Behind(h, g)] = h
        /\ \A d \in Cells \ {g, h, Behind(g, h), Behind(h, g)} : prev'[d] = prev[d]
    BY <1>2, <1>5, <1>6
  <2>4. n # 0 => prev'[g] = prev[h]
    BY <1>2, <1>5, <1>6, <2>1
  <2>5. m # 0 => prev'[h] = prev[g]
    BY <1>2, <1>5, <1>6, <2>2
  <2>6. /\ next' \in [Cells -> Nodes \cup {NULL}]
        /\ next'[g] = next[h] /\ next'[h] = next[g]
        /\ \A d \in Cells \ {g, h} : next'[d] = next[d]
    BY <1>2, <1>5, <1>6
  <2> QED
    BY <2>3, <2>4, <2>5, <2>6
<1>8. /\ list' \in [Heads -> Seq(Nodes)]
      /\ list'[g] = list[h] /\ list'[h] = list[g]
      /\ \A f \in Heads \ {g, h} : list'[f] = list[f]
  BY <1>2, <1>5
<1>9. TypeOK'
  BY <1>7, <1>8 DEF TypeOK
<1>10. OnOneList'
  <2> DEFINE Was(f) == IF f = g THEN h ELSE IF f = h THEN g ELSE f
  <2>1. \A f \in Heads : Was(f) \in Heads /\ list'[f] = list[Was(f)]
    BY <1>8
  <2>2. \A e, f \in Heads : Was(e) = Was(f) => e = f
    OBVIOUS
  <2> HIDE DEF Was
  <2> QED
    BY <2>1, <2>2 DEF OnOneList, IInv
<1>11. ASSUME NEW e \in {g, h}, NEW f \in {g, h}, e # f,
              NEW j \in 0..Len(list[e]')
       PROVE  /\ next'[Cell(e, j)'] =
                     IF j = Len(list[e]') THEN NULL ELSE Cell(e, j + 1)'
              /\ prev'[Cell(e, j)'] =
                     IF j = 0 THEN Cell(e, Len(list[e]))' ELSE Cell(e, j - 1)'
  <2>0. PICK l \in Nat : l = Len(list[f])
    BY <1>m, <1>n
  <2>1. /\ Len(list[e]') = l /\ l = Len(list[f]) /\ j \in 0..l
        /\ \A i \in Int : i # 0 => Cell(e, i)' = Cell(f, i)
        /\ Cell(e, 0)' = e /\ e = Cell(e, 0)
    BY <1>8, <1>11, <2>0 DEF Cell
  <2>2. /\ next'[e] = First(f, l)
        /\ l # 0 => prev'[Cell(f, 1)] = e
        /\ prev'[e] = IF l = 0 THEN e ELSE Cell(f, l)
    <3>1. CASE e = g
      BY <1>n, <1>1, <1>4, <1>7, <1>11, <2>1, <3>1
    <3>2. CASE e = h
      BY <1>m, <1>1, <1>4, <1>7, <1>11, <2>1, <3>2
    <3> QED
      BY <3>1, <3>2
  <2>3. CASE j = 0
    BY <2>1, <2>2, <2>3
  <2>4. CASE j # 0
    <3>1. Cell(e, j)' = Cell(f, j) /\ Cell(e, j + 1)' = Cell(f, j + 1)
      BY <2>1, <2>4
    <3>2. Cell(f, j) \in Nodes /\ Cell(f, j) \in Cells
      BY <2>1, <2>4, CellTypes
    <3>3. next[Cell(f, j)] = IF j = l THEN NULL ELSE Cell(f, j + 1)
      BY <2>1, Links
    <3>4. next'[Cell(f, j)] = next[Cell(f, j)]
      BY <1>7, <3>2
    <3>5. CASE j = 1
      BY <2>1, <2>2, <3>1, <3>3, <3>4, <3>5
    <3>6. CASE j # 1
      <4>1. Cell(f, j) # Cell(f, 1) /\ (e = h => Cell(f, j) # Cell(h, 1) \/ n = 0)
                                   /\ (e = g => Cell(f, j) # Cell(g, 1) \/ m = 0)
        BY <1>m, <1>n, <1>3, <1>11, <2>1, <2>4, <3>6, CellsDistinct
      <4>2. Cell(f, j) # Behind(g, h) /\ Cell(f, j) # Behind(h, g)
        BY <1>4, <1>11, <3>2, <4>1
      <4>3. prev'[Cell(f, j)] = prev[Cell(f, j)]
        BY <1>7, <3>2, <4>2
      <4>4. prev[Cell(f, j)] = Cell(f, j - 1)
        BY <2>1, <2>4, Links
      <4>5. Cell(e, j - 1)' = Cell(f, j - 1)
        BY <2>1, <2>4, <3>6
      <4> QED
        BY <2>1, <2>4, <3>1, <3>3, <3>4, <4>3, <4>4, <4>5
    <3> QED
      BY <3>5, <3>6
  <2> QED
    BY <2>3, <2>4
<1>12. ASSUME NEW f \in Heads \ {g, h}, NEW j \in 0..Len(list[f]')
       PROVE  /\ next'[Cell(f, j)'] =
                     IF j = Len(list[f]') THEN NULL ELSE Cell(f, j + 1)'
              /\ prev'[Cell(f, j)'] =
                     IF j = 0 THEN Cell(f, Len(list[f]))' ELSE Cell(f, j - 1)'
  <2>1. ASSUME NEW i \in 0..Len(list[f])
        PROVE  /\ next'[Cell(f, i)] = next[Cell(f, i)]
               /\ prev'[Cell(f, i)] = prev[Cell(f, i)]
    <3>1. Cell(f, i) \in Cells
      BY CellTypes
    <3>2. Cell(f, i) # Cell(g, 0) /\ Cell(f, i) # Cell(h, 0)
      BY <1>m, <1>n, CellsDistinct
    <3>3. (m # 0 => Cell(f, i) # Cell(g, 1)) /\ (n # 0 => Cell(f, i) # Cell(h, 1))
      BY <1>m, <1>n, CellsDistinct
    <3>4. Cell(f, i) # Behind(g, h) /\ Cell(f, i) # Behind(h, g)
      BY <1>1, <1>4, <3>2, <3>3
    <3> QED
      BY <1>1, <1>7, <3>1, <3>2, <3>4
  <2> QED
    BY <1>8, <2>1, OtherQueue
<1>13. Linked'
  BY <1>11, <1>12 DEF Linked
<1> QED
  BY <1>9, <1>10, <1>13 DEF IInv

\* What the header's checks ask for follows from the links.
LEMMA LinkedChecks ==
    ASSUME IInv
    PROVE  ChecksNeverPanic
<1> SUFFICES ASSUME NEW h \in Heads
             PROVE  /\ next[h] # NULL => prev[next[h]] = h
                    /\ next[prev[h]] = NULL
                    /\ \A e \in OnList(h) :
                          /\ next[e] # NULL => prev[next[e]] = e
                          /\ next[prev[e]] = e
  BY DEF ChecksNeverPanic, QMD_TAILQ_CHECK_HEAD, QMD_TAILQ_CHECK_TAIL,
         QMD_TAILQ_CHECK_NEXT, QMD_TAILQ_CHECK_PREV, TAILQ_EMPTY, TAILQ_FIRST,
         TAILQ_NEXT
<1>1. Len(list[h]) \in Nat /\ Cell(h, 0) = h /\ DOMAIN list[h] = 1..Len(list[h])
  BY CellTypes
<1>2. ASSUME NEW i \in 0..Len(list[h])
      PROVE  next[Cell(h, i)] # NULL => prev[next[Cell(h, i)]] = Cell(h, i)
  <2>1. CASE i = Len(list[h])
    BY <2>1, Links
  <2>2. CASE i # Len(list[h])
    <3> DEFINE k == i + 1
    <3>1. k \in 0..Len(list[h]) /\ k # 0 /\ k - 1 = i
      BY <1>1, <2>2
    <3>2. next[Cell(h, i)] = Cell(h, k)
      BY <2>2, Links
    <3> HIDE DEF k
    <3>3. prev[Cell(h, k)] = Cell(h, k - 1)
      BY <3>1, Links
    <3> QED
      BY <3>1, <3>2, <3>3
  <2> QED
    BY <2>1, <2>2
<1>3. next[prev[h]] = NULL
  BY <1>1, Links
<1>4. ASSUME NEW i \in 1..Len(list[h])
      PROVE  next[prev[Cell(h, i)]] = Cell(h, i)
  <2> DEFINE k == i - 1
  <2>1. k \in 0..Len(list[h]) /\ k # Len(list[h]) /\ k + 1 = i
    BY <1>1
  <2>2. prev[Cell(h, i)] = Cell(h, k)
    BY <1>1, Links
  <2> HIDE DEF k
  <2>3. next[Cell(h, k)] = Cell(h, k + 1)
    BY <2>1, Links
  <2> QED
    BY <2>1, <2>2, <2>3
<1>5. \A e \in OnList(h) : \E i \in 1..Len(list[h]) : e = Cell(h, i)
  BY <1>1 DEF OnList, Cell
<1>6. next[h] # NULL => prev[next[h]] = h
  BY <1>1, <1>2
<1> QED
  BY <1>1, <1>2, <1>3, <1>4, <1>5, <1>6

LEMMA InitIInv ==
    ASSUME Init
    PROVE  IInv
  BY DEF Init, IInv, TypeOK, OnOneList, Linked, Cell

LEMMA NextIInv ==
    ASSUME IInv, [Next]_vars
    PROVE  IInv'
<1>1. ASSUME NEW h \in Heads, NEW e \in OffList,
             \/ TAILQ_INSERT_TAIL(h, e)
             \/ TAILQ_INSERT_HEAD(h, e)
             \/ \E i \in DOMAIN list[h] :
                   TAILQ_INSERT_AFTER(h, i, e) \/ TAILQ_INSERT_BEFORE(h, i, e)
      PROVE  IInv'
  BY <1>1, InsertStep
<1>2. ASSUME NEW h \in Heads, NEW i \in DOMAIN list[h], TAILQ_REMOVE(h, i)
      PROVE  IInv'
  BY <1>2, RemoveStep
<1>3. ASSUME NEW g \in Heads, NEW h \in Heads, g # h,
             TAILQ_CONCAT(g, h) \/ TAILQ_SWAP(g, h)
      PROVE  IInv'
  BY <1>3, ConcatStep, SwapStep
<1>4. CASE UNCHANGED vars
  <2>1. next' = next /\ prev' = prev /\ list' = list
    BY <1>4 DEF vars
  <2> QED
    BY <2>1 DEF IInv, TypeOK, OnOneList, Linked, Cell
<1> QED
  BY <1>1, <1>2, <1>3, <1>4 DEF Next

(***************************************************************************)
(* Inserting, removing, concatenating and swapping keep the links of every *)
(* queue in the order of its elements: no link of a queue leads to an      *)
(* element that was removed, and prev fields close the ring.               *)
(***************************************************************************)
THEOREM QueueLinked == Spec => []Linked
<1>1. Init => IInv
  BY InitIInv
<1>2. IInv /\ [Next]_vars => IInv'
  BY NextIInv
<1>3. IInv => Linked
  BY DEF IInv
<1> QED
  BY <1>1, <1>2, <1>3, PTL DEF Spec

(***************************************************************************)
(* Every link of the queue is NULL or an element, and every prev field the *)
(* address of a link.                                                      *)
(***************************************************************************)
THEOREM QueueTypes == Spec => []TypeOK
<1>1. Init => IInv
  BY InitIInv
<1>2. IInv /\ [Next]_vars => IInv'
  BY NextIInv
<1>3. IInv => TypeOK
  BY DEF IInv
<1> QED
  BY <1>1, <1>2, <1>3, PTL DEF Spec

(***************************************************************************)
(* The panics that the header compiles into a kernel would never fire.     *)
(***************************************************************************)
THEOREM QueueChecks == Spec => []ChecksNeverPanic
<1>1. Init => IInv
  BY InitIInv
<1>2. IInv /\ [Next]_vars => IInv'
  BY NextIInv
<1>3. IInv => ChecksNeverPanic
  BY LinkedChecks
<1> QED
  BY <1>1, <1>2, <1>3, PTL DEF Spec
-----------------------------------------------------------------------------
\* A set of numbers that is not empty has a least one.
LEMMA LeastNumber ==
    ASSUME NEW T, T \subseteq Nat, T # {}
    PROVE  \E m \in T : \A k \in T : m <= k
<1>1. PICK m \in T : \A k \in T : ~(<<k, m>> \in OpToRel(<, Nat))
  BY NatLessThanWellFounded, WFMin
<1>2. ASSUME NEW k \in T PROVE m <= k
  <2>1. ~(k < m)
    BY <1>1 DEF OpToRel
  <2> QED
    BY <2>1
<1> QED
  BY <1>2

\* Two loops that start alike, and that agree in a round when they agree in
\* the round before, are the same loop: there is no first round in which they
\* differ.
LEMMA SameRounds ==
    ASSUME NEW n \in Nat, NEW c, NEW d, c[1] = d[1],
           \A k \in 2..n : c[k - 1] = d[k - 1] => c[k] = d[k]
    PROVE  \A k \in 1..n : c[k] = d[k]
<1> DEFINE T == {k \in 1..n : c[k] # d[k]}
<1>1. T = {}
  <2> SUFFICES ASSUME T # {} PROVE FALSE
    OBVIOUS
  <2>1. PICK m \in T : \A k \in T : m <= k
    <3>1. T \subseteq Nat
      OBVIOUS
    <3> QED
      BY <3>1, LeastNumber
  <2>2. m \in 1..n /\ m # 1
    BY <2>1
  <2>3. m \in 2..n /\ m - 1 \in 1..n /\ ~(m <= m - 1)
    BY <2>2
  <2>4. m - 1 \notin T
    BY <2>1, <2>3
  <2> QED
    BY <2>1, <2>3, <2>4
<1> QED
  BY <1>1

\* Where the casts of TAILQ_LAST and TAILQ_PREV lead: to the last element and
\* to the one before, or to NULL past the first one.
LEMMA BackwardLinks ==
    ASSUME IInv, NEW h \in Heads, NEW i \in 0..Len(list[h])
    PROVE  next[prev[prev[Cell(h, i)]]] =
               LET j == IF i = 0 THEN Len(list[h]) ELSE i - 1
               IN  IF j = 0 THEN NULL ELSE Cell(h, j)
<1> DEFINE n == Len(list[h])
           j == IF i = 0 THEN n ELSE i - 1
           l == IF j = 0 THEN n ELSE j - 1
<1>1. n \in Nat /\ j \in 0..n /\ l \in 0..n
  BY CellTypes
<1>2. prev[Cell(h, i)] = Cell(h, j)
  BY Links
<1>3. prev[Cell(h, j)] = Cell(h, l)
  BY <1>1, Links
<1>4. next[Cell(h, l)] = IF l = n THEN NULL ELSE Cell(h, l + 1)
  BY <1>1, Links
<1>5. CASE j = 0
  BY <1>2, <1>3, <1>4, <1>5
<1>6. CASE j # 0
  <2>1. l # n /\ l + 1 = j
    BY <1>1, <1>6
  <2> QED
    BY <1>2, <1>3, <1>4, <1>6, <2>1
<1> QED
  BY <1>5, <1>6

\* TAILQ_FOREACH has the elements in order and then NULL.
LEMMA ForwardLoop ==
    ASSUME IInv, NEW h \in Heads
    PROVE  TAILQ_FOREACH(h) =
               [k \in 1..(Len(list[h]) + 1) |->
                   IF k <= Len(list[h]) THEN list[h][k] ELSE NULL]
<1> DEFINE n == Len(list[h])
           c == [k \in 1..(n + 1) |-> IF k <= n THEN list[h][k] ELSE NULL]
           Loop(v) == v = [k \in 1..(n + 1) |->
                              IF k = 1 THEN TAILQ_FIRST(h)
                                       ELSE TAILQ_NEXT(v[k - 1])]
           d == CHOOSE v : Loop(v)
<1>1. n \in Nat
  BY CellTypes
<1>2. ASSUME NEW k \in 1..(n + 1)
      PROVE  c[k] = IF k = 1 THEN TAILQ_FIRST(h) ELSE TAILQ_NEXT(c[k - 1])
  <2>1. k - 1 \in 0..n
    BY <1>1
  <2>2. next[Cell(h, k - 1)] = IF k - 1 = n THEN NULL ELSE Cell(h, k)
    <3>1. k - 1 + 1 = k
      BY <1>1
    <3> QED
      BY <2>1, <3>1, Links
  <2>3. c[k] = next[Cell(h, k - 1)]
    BY <1>1, <2>1, <2>2, CellTypes
  <2>4. CASE k = 1
    BY <2>3, <2>4 DEF Cell, TAILQ_FIRST
  <2>5. CASE k # 1
    <3>1. k - 1 \in 1..(n + 1) /\ k - 1 <= n /\ k - 1 # 0
      BY <1>1, <2>5
    <3>2. c[k - 1] = Cell(h, k - 1)
      BY <3>1 DEF Cell
    <3> QED
      BY <2>3, <2>5, <3>2 DEF TAILQ_NEXT
  <2> QED
    BY <2>4, <2>5
<1>3. Loop(c)
  BY <1>2
<1>4. Loop(d)
  <2> HIDE DEF c, Loop
  <2> QED
    BY <1>3
<1>5. c = [k \in 1..(n + 1) |-> c[k]] /\ d = [k \in 1..(n + 1) |-> d[k]]
  <2>1. d = [k \in 1..(n + 1) |-> d[k]]
    <3> HIDE DEF d
    <3> QED
      BY <1>4
  <2> QED
    BY <2>1
<1>6. c[1] = d[1]
  <2> HIDE DEF c, d
  <2> QED
    BY <1>1, <1>3, <1>4
<1>7. ASSUME NEW k \in 2..(n + 1), c[k - 1] = d[k - 1] PROVE c[k] = d[k]
  <2>1. k \in 1..(n + 1) /\ k # 1
    BY <1>1
  <2>2. c[k] = TAILQ_NEXT(c[k - 1])
    <3> HIDE DEF c, d, Loop
    <3> QED
      BY <1>2, <2>1
  <2>3. d[k] = TAILQ_NEXT(d[k - 1])
    <3> HIDE DEF c, d
    <3> QED
      BY <1>4, <2>1
  <2> HIDE DEF c, d, Loop
  <2> QED
    BY <1>7, <2>2, <2>3
<1>8. c = d
  <2>1. n + 1 \in Nat
    BY <1>1
  <2> HIDE DEF c, d, n
  <2>2. \A k \in 1..(n + 1) : c[k] = d[k]
    BY <1>6, <1>7, <2>1, SameRounds
  <2> QED
    BY <1>5, <2>2
<1> QED
  BY <1>8 DEF TAILQ_FOREACH

\* TAILQ_FOREACH_REVERSE has them in the reverse order and then NULL.
LEMMA BackwardLoop ==
    ASSUME IInv, NEW h \in Heads
    PROVE  TAILQ_FOREACH_REVERSE(h) =
               [k \in 1..(Len(list[h]) + 1) |->
                   IF k <= Len(list[h]) THEN list[h][Len(list[h]) + 1 - k]
                                        ELSE NULL]
<1> DEFINE n == Len(list[h])
           c == [k \in 1..(n + 1) |->
                    IF k <= n THEN list[h][n + 1 - k] ELSE NULL]
           Loop(v) == v = [k \in 1..(n + 1) |->
                              IF k = 1 THEN TAILQ_LAST(h)
                                       ELSE TAILQ_PREV(v[k - 1])]
           d == CHOOSE v : Loop(v)
<1>1. n \in Nat
  BY CellTypes
<1>2. ASSUME NEW k \in 1..(n + 1)
      PROVE  c[k] = IF k = 1 THEN TAILQ_LAST(h) ELSE TAILQ_PREV(c[k - 1])
  <2> DEFINE i == IF k = 1 THEN 0 ELSE n + 2 - k
  <2>1. /\ i \in 0..n /\ n + 1 - k \in 0..n
        /\ (IF i = 0 THEN n ELSE i - 1) = n + 1 - k
    BY <1>1
  <2>2. next[prev[prev[Cell(h, i)]]] =
            IF n + 1 - k = 0 THEN NULL ELSE Cell(h, n + 1 - k)
    <3> HIDE DEF i
    <3> QED
      BY <2>1, BackwardLinks
  <2>3. c[k] = next[prev[prev[Cell(h, i)]]]
    <3>1. CASE k = n + 1
      <4>1. n + 1 - k = 0 /\ ~(k <= n)
        BY <1>1, <3>1
      <4>2. c[k] = NULL
        BY <4>1
      <4> QED
        BY <2>2, <4>1, <4>2
    <3>2. CASE k # n + 1
      <4>1. k <= n /\ n + 1 - k \in 1..n /\ n + 1 - k # 0
        BY <1>1, <3>2
      <4>2. c[k] = list[h][n + 1 - k]
        BY <4>1
      <4>3. Cell(h, n + 1 - k) = list[h][n + 1 - k]
        BY <4>1, CellTypes
      <4> QED
        BY <2>2, <4>1, <4>2, <4>3
    <3> QED
      BY <3>1, <3>2
  <2>4. CASE k = 1
    <3>1. Cell(h, i) = h
      BY <2>4, CellTypes
    <3> QED
      BY <2>3, <2>4, <3>1 DEF TAILQ_LAST
  <2>5. CASE k # 1
    <3>1. /\ k - 1 \in 1..(n + 1) /\ k - 1 <= n
          /\ i = n + 1 - (k - 1) /\ i \in 1..n
      BY <1>1, <2>5
    <3>2. c[k - 1] = list[h][i]
      BY <3>1
    <3>3. Cell(h, i) = list[h][i]
      BY <3>1, CellTypes
    <3> QED
      BY <2>3, <2>5, <3>2, <3>3 DEF TAILQ_PREV
  <2> QED
    BY <2>4, <2>5
<1>3. Loop(c)
  BY <1>2
<1>4. Loop(d)
  <2> HIDE DEF c, Loop
  <2> QED
    BY <1>3
<1>5. c = [k \in 1..(n + 1) |-> c[k]] /\ d = [k \in 1..(n + 1) |-> d[k]]
  <2>1. d = [k \in 1..(n + 1) |-> d[k]]
    <3> HIDE DEF d
    <3> QED
      BY <1>4
  <2> QED
    BY <2>1
<1>6. c[1] = d[1]
  <2> HIDE DEF c, d
  <2> QED
    BY <1>1, <1>3, <1>4
<1>7. ASSUME NEW k \in 2..(n + 1), c[k - 1] = d[k - 1] PROVE c[k] = d[k]
  <2>1. k \in 1..(n + 1) /\ k # 1
    BY <1>1
  <2>2. c[k] = TAILQ_PREV(c[k - 1])
    <3> HIDE DEF c, d, Loop
    <3> QED
      BY <1>2, <2>1
  <2>3. d[k] = TAILQ_PREV(d[k - 1])
    <3> HIDE DEF c, d
    <3> QED
      BY <1>4, <2>1
  <2> HIDE DEF c, d, Loop
  <2> QED
    BY <1>7, <2>2, <2>3
<1>8. c = d
  <2>1. n + 1 \in Nat
    BY <1>1
  <2> HIDE DEF c, d, n
  <2>2. \A k \in 1..(n + 1) : c[k] = d[k]
    BY <1>6, <1>7, <2>1, SameRounds
  <2> QED
    BY <1>5, <2>2
<1> QED
  BY <1>8 DEF TAILQ_FOREACH_REVERSE

(***************************************************************************)
(* Whatever was inserted, removed, concatenated and swapped before, a loop *)
(* over a queue meets every element exactly once, in either direction, and *)
(* ends: what check_thread_exit relies on to join every thread.            *)
(***************************************************************************)
THEOREM QueueLoops == Spec => []LoopsVisitTheList
<1>1. Init => IInv
  BY InitIInv
<1>2. IInv /\ [Next]_vars => IInv'
  BY NextIInv
<1>3. IInv => LoopsVisitTheList
  <2> SUFFICES ASSUME IInv, NEW h \in Heads
               PROVE  TAILQ_EMPTY(h) <=> Len(list[h]) = 0
    BY ForwardLoop, BackwardLoop DEF LoopsVisitTheList
  <2>1. Len(list[h]) \in Nat /\ 0 \in 0..Len(list[h]) /\ Cell(h, 0) = h
    BY CellTypes
  <2>2. next[h] = IF Len(list[h]) = 0 THEN NULL ELSE Cell(h, 1)
    BY <2>1, Links
  <2>3. Len(list[h]) # 0 => Cell(h, 1) \in Nodes
    BY <2>1, CellTypes
  <2> QED
    BY <2>2, <2>3 DEF TAILQ_EMPTY
<1> QED
  BY <1>1, <1>2, <1>3, PTL DEF Spec
=============================================================================
