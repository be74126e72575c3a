------------------------ MODULE CycleComparison_proofs -------------------------
(***************************************************************************)
(* Proofs about SourceFile and CycleComparison, for any sheets, sessions,  *)
(* departments and dates: what the reading of a sheet builds, what         *)
(* concurrent uploads share, and which positions the comparison pairs.     *)
(* The recursive functions are unfolded here once, by the least row at     *)
(* which a fact about them would fail (LeastNatural).                      *)
(***************************************************************************)
EXTENDS CycleComparison, SetFacts, SequenceTheorems, TLAPS

-----------------------------------------------------------------------------
(* Reading a sheet                                                          *)

\* One step of classify_rows.
NextRead(rows, s, i) == IF s.ok THEN ReadRow(s, rows[i], i) ELSE s

\* What Reading computes is what its recursion says: row by row, from Unread.
LEMMA ReadingRecursion ==
  ASSUME NEW rows \in Seq(Row)
  PROVE  /\ Reading(rows)[0] = Unread
         /\ \A i \in 1 .. Len(rows) : Reading(rows)[i] = NextRead(rows, Reading(rows)[i - 1], i)
<1> DEFINE G(s, i) == NextRead(rows, s, i)
           Read(g, n) == g = [i \in 0 .. n |-> IF i = 0 THEN Unread ELSE G(g[i - 1], i)]
           N == Len(rows)
           Bad == {n \in 0 .. N : ~ \E g : Read(g, n)}
<1>0. N \in Nat
  OBVIOUS
<1>1. Bad = {}
  <2> SUFFICES ASSUME Bad # {}  PROVE FALSE
    OBVIOUS
  <2>1. Bad \in SUBSET Nat
    BY <1>0
  <2>2. PICK n \in Bad : \A m \in Bad : n <= m
    BY <2>1, LeastNatural
  <2>3. n # 0
    <3>1. Read([i \in 0 .. 0 |-> Unread], 0)
      OBVIOUS
    <3> QED
      BY <3>1
  <2>4. n - 1 \in 0 .. N /\ n - 1 \notin Bad
    <3>1. n \in 0 .. N
      BY <2>2
    <3>2. n - 1 \in Bad => n <= n - 1
      BY <2>2
    <3> QED
      BY <3>1, <3>2, <2>3, <1>0
  <2>5. PICK g : Read(g, n - 1)
    BY <2>4
  <2> DEFINE h == [i \in 0 .. n |-> IF i = n THEN G(g[n - 1], n) ELSE g[i]]
  <2> HIDE DEF G
  <2>6. \A i \in 0 .. n : h[i] = IF i = 0 THEN Unread ELSE G(h[i - 1], i)
    <3> SUFFICES ASSUME NEW i \in 0 .. n
                 PROVE  h[i] = IF i = 0 THEN Unread ELSE G(h[i - 1], i)
      OBVIOUS
    <3>0. n \in Nat /\ i \in Nat
      BY <1>0
    <3>1. CASE i = n
      BY <3>0, <3>1, <2>3
    <3>2. CASE i # n
      <4>1. i \in 0 .. n - 1
        BY <3>0, <3>2
      <4>2. g[i] = IF i = 0 THEN Unread ELSE G(g[i - 1], i)
        BY <4>1, <2>5
      <4>3. h[i] = g[i]
        BY <3>2
      <4>4. i # 0 => h[i - 1] = g[i - 1]
        BY <4>1, <3>0
      <4> QED
        BY <4>2, <4>3, <4>4
    <3> QED
      BY <3>1, <3>2
  <2> DEFINE k == [i \in 0 .. n |-> IF i = 0 THEN Unread ELSE G(h[i - 1], i)]
  <2>7. h = k
    BY <2>6
  <2>8. Read(h, n)
    BY <2>7
  <2> QED
    BY <2>8
<1>2. \E g : Read(g, N)
  BY <1>0, <1>1
<1>3. Reading(rows) = CHOOSE g : Read(g, N)
  BY DEF Reading, NextRead
<1>4. Read(Reading(rows), N)
  BY <1>2, <1>3
<1> HIDE DEF G
<1>5. \A i \in 0 .. N : Reading(rows)[i] = IF i = 0 THEN Unread ELSE G(Reading(rows)[i - 1], i)
  BY <1>4
<1> QED
  BY <1>0, <1>5 DEF G

-----------------------------------------------------------------------------
(* The last row of a level above a row                                      *)

\* Row a is the last one of level l among the first i rows, 0 if there is none.
IsAbove(rows, i, l, a) ==
  /\ a \in 0 .. i
  /\ a # 0 => rows[a].level = l
  /\ \A j \in 1 .. i : rows[j].level = l => j <= a

\* Above is that row.
LEMMA AboveIs ==
  ASSUME NEW rows, NEW i \in Nat, NEW l
  PROVE  /\ IsAbove(rows, i, l, Above(rows, i, l))
         /\ \A a : IsAbove(rows, i, l, a) => a = Above(rows, i, l)
<1> DEFINE S == {0} \cup {j \in 1 .. i : rows[j].level = l}
<1>1. S \in SUBSET Nat /\ S # {} /\ \A x \in S : x <= i
  OBVIOUS
<1>2. PICK m \in S : \A y \in S : y <= m
  BY <1>1, GreatestNatural
<1>3. Above(rows, i, l) \in S /\ \A y \in S : Above(rows, i, l) >= y
  <2>1. \A y \in S : m >= y
    BY <1>1, <1>2
  <2>2. Above(rows, i, l) = CHOOSE x \in S : \A y \in S : x >= y
    BY DEF Above, Max
  <2> QED
    BY <2>1, <2>2, <1>2
<1>4. IsAbove(rows, i, l, Above(rows, i, l))
  BY <1>1, <1>3 DEF IsAbove
<1>5. ASSUME NEW a, IsAbove(rows, i, l, a)  PROVE a = Above(rows, i, l)
  <2>1. a \in 0 .. i /\ Above(rows, i, l) \in 0 .. i
    BY <1>4, <1>5 DEF IsAbove
  <2>2. a <= Above(rows, i, l)
    BY <2>1, <1>4, <1>5 DEF IsAbove
  <2>3. Above(rows, i, l) <= a
    BY <2>1, <1>4, <1>5 DEF IsAbove
  <2> QED
    BY <2>1, <2>2, <2>3
<1> QED
  BY <1>4, <1>5

\* No row stands above row 0.
LEMMA AboveNone ==
  ASSUME NEW rows, NEW l
  PROVE  Above(rows, 0, l) = 0
BY AboveIs DEF IsAbove

\* A row is the last of its own level and leaves the other levels alone.
LEMMA AboveStep ==
  ASSUME NEW rows, NEW i \in Nat \ {0}, NEW l
  PROVE  Above(rows, i, l) = IF rows[i].level = l THEN i ELSE Above(rows, i - 1, l)
<1>1. IsAbove(rows, i - 1, l, Above(rows, i - 1, l))
  BY AboveIs
<1>2. CASE rows[i].level = l
  <2>1. IsAbove(rows, i, l, i)
    BY <1>2 DEF IsAbove
  <2> QED
    BY <2>1, <1>2, AboveIs
<1>3. CASE rows[i].level # l
  <2>1. IsAbove(rows, i, l, Above(rows, i - 1, l))
    BY <1>1, <1>3 DEF IsAbove
  <2> QED
    BY <2>1, <1>3, AboveIs
<1> QED
  BY <1>2, <1>3

\* Between the last row of a level and row i there is no other row of it.
LEMMA AboveBetween ==
  ASSUME NEW rows, NEW i \in Nat, NEW a \in 0 .. i, NEW l, Above(rows, i, l) <= a
  PROVE  Above(rows, a, l) = Above(rows, i, l)
<1>1. IsAbove(rows, i, l, Above(rows, i, l))
  BY AboveIs
<1>2. IsAbove(rows, a, l, Above(rows, i, l))
  BY <1>1 DEF IsAbove
<1> QED
  BY <1>2, AboveIs

-----------------------------------------------------------------------------
(* The hierarchy that a reading builds                                      *)

\* A line says what its row says, and where it stands.
LineOK(rows, i, x) ==
  /\ x \in [row : 1 .. i, level : 1 .. 4, name : DOMAIN Normal, cell : Cells,
            group : Nat \ {0}, partner : Nat \ {0}, parent : Nat]
  /\ rows[x.row].level = x.level /\ rows[x.row].name = x.name /\ rows[x.row].cell = x.cell
  /\ x.group = Above(rows, x.row, 0)
  /\ x.partner = Above(rows, x.row, 1)

\* A row below level 1 has a parent, and everything above that is above the row too.
ParentOK(rows, lines, x) ==
  x.level > 1 =>
    \E y \in lines :
      /\ y.row = x.parent /\ y.row < x.row /\ y.level = x.level - 1
      /\ \A l \in 0 .. y.level : Above(rows, y.row, l) = Above(rows, x.row, l)

\* The parents that classify_rows remembers are the last rows of their levels,
\* each one below the rows of all levels above it.
ParentsOK(rows, i, s) ==
  /\ s.parent \in [1 .. 4 -> Nat]
  /\ \A l \in 1 .. 4 : s.parent[l] # 0 =>
       /\ s.parent[l] = Above(rows, i, l)
       /\ \A k \in 0 .. l - 1 : Above(rows, i, k) # 0 /\ Above(rows, i, k) < Above(rows, i, l)
       /\ \A k \in 1 .. l - 1 : s.parent[k] # 0

ReadOK(rows, i, s) ==
  /\ s.group = Above(rows, i, 0)
  /\ ParentsOK(rows, i, s)
  /\ \A x \in s.lines : LineOK(rows, i, x)
  /\ \A x \in s.lines : ParentOK(rows, s.lines, x)
  /\ \A j \in 1 .. i : rows[j].level # 0 => \E x \in s.lines : x.row = j
  /\ \A x, y \in s.lines : x.row = y.row => x = y

\* What has been read is a record of four fields.
ReadType(s) == s = [ok |-> s.ok, group |-> s.group, parent |-> s.parent, lines |-> s.lines]

\* The line of row i, read after s.
NewLine(s, r, i) ==
  [row |-> i, level |-> r.level, name |-> r.name, cell |-> r.cell, group |-> s.group,
   partner |-> ParentsAfter(s, r.level, i)[1],
   parent |-> IF r.level = 1 THEN 0 ELSE ParentsAfter(s, r.level, i)[r.level - 1]]

\* A row of level 0 is the current group, and nothing stands above the next row yet.
LEMMA ReadRowGroup ==
  ASSUME NEW s, ReadType(s), NEW r, NEW i, r.level = 0
  PROVE  ReadRow(s, r, i) = [ok |-> s.ok, group |-> i, parent |-> NoParent, lines |-> s.lines]
<1>1. s = [ok |-> s.ok, group |-> s.group, parent |-> s.parent, lines |-> s.lines]
  BY DEF ReadType
<1>2. ReadRow(s, r, i) = [s EXCEPT !.group = i, !.parent = NoParent]
  BY DEF ReadRow
<1> QED
  BY <1>1, <1>2

\* A row that may stand where it is adds its line.
LEMMA ReadRowLine ==
  ASSUME NEW s, ReadType(s), NEW r, NEW i, r.level # 0, Fits(s, r)
  PROVE  ReadRow(s, r, i) = [ok |-> s.ok, group |-> s.group, parent |-> ParentsAfter(s, r.level, i),
                             lines |-> s.lines \cup {NewLine(s, r, i)}]
<1>1. s = [ok |-> s.ok, group |-> s.group, parent |-> s.parent, lines |-> s.lines]
  BY DEF ReadType
<1> DEFINE a == ParentsAfter(s, r.level, i)
           n == NewLine(s, r, i)
<1>2. ReadRow(s, r, i) = [s EXCEPT !.parent = a, !.lines = @ \cup {n}]
  BY DEF ReadRow, NewLine
<1> HIDE DEF a, n
<1>3. ReadRow(s, r, i) = [ok |-> s.ok, group |-> s.group, parent |-> a, lines |-> s.lines \cup {n}]
  BY <1>1, <1>2
<1> QED
  BY <1>3 DEF a, n

\* Any other row ends the reading.
LEMMA ReadRowRefused ==
  ASSUME NEW s, ReadType(s), NEW r, NEW i, r.level # 0, ~Fits(s, r)
  PROVE  ReadRow(s, r, i) = [ok |-> FALSE, group |-> s.group, parent |-> s.parent, lines |-> s.lines]
<1>1. s = [ok |-> s.ok, group |-> s.group, parent |-> s.parent, lines |-> s.lines]
  BY DEF ReadType
<1>2. ReadRow(s, r, i) = [s EXCEPT !.ok = FALSE]
  BY DEF ReadRow
<1> QED
  BY <1>1, <1>2

\* A group begins a new hierarchy.
LEMMA ReadGroup ==
  ASSUME NEW rows \in Seq(Row), NEW i \in 1 .. Len(rows), NEW s, ReadType(s),
         ReadOK(rows, i - 1, s), rows[i].level = 0
  PROVE  ReadOK(rows, i, ReadRow(s, rows[i], i))
<1> DEFINE t == ReadRow(s, rows[i], i)
<1>0. i \in Nat \ {0}
  OBVIOUS
<1>1. t.group = i /\ t.parent = NoParent /\ t.lines = s.lines
  BY ReadRowGroup
<1> HIDE DEF t
<1>2. t.group = Above(rows, i, 0)
  BY <1>0, <1>1, AboveStep
<1>3. ParentsOK(rows, i, t)
  BY <1>1 DEF ParentsOK, NoParent
<1>4. ASSUME NEW x \in t.lines  PROVE LineOK(rows, i, x) /\ ParentOK(rows, t.lines, x)
  <2>1. LineOK(rows, i - 1, x) /\ ParentOK(rows, s.lines, x)
    BY <1>1, <1>4 DEF ReadOK
  <2>2. 1 .. i - 1 \subseteq 1 .. i
    BY <1>0
  <2> QED
    BY <2>1, <2>2, <1>1 DEF LineOK
<1>5. \A j \in 1 .. i : rows[j].level # 0 => \E x \in t.lines : x.row = j
  BY <1>0, <1>1 DEF ReadOK
<1>6. \A x, y \in t.lines : x.row = y.row => x = y
  BY <1>1 DEF ReadOK
<1> QED
  BY <1>2, <1>3, <1>4, <1>5, <1>6 DEF ReadOK, t

\* A row that may stand where it is hangs under the rows that are remembered.
LEMMA ReadLine ==
  ASSUME NEW rows \in Seq(Row), NEW i \in 1 .. Len(rows), NEW s, ReadType(s),
         ReadOK(rows, i - 1, s), rows[i].level # 0, Fits(s, rows[i])
  PROVE  ReadOK(rows, i, ReadRow(s, rows[i], i))
<1> DEFINE t == ReadRow(s, rows[i], i)
           r == rows[i]
           n == NewLine(s, r, i)
<1>0. i \in Nat \ {0} /\ i - 1 \in Nat
  OBVIOUS
<1>1. t.group = s.group /\ t.parent = ParentsAfter(s, r.level, i) /\ t.lines = s.lines \cup {n}
  <2>1. t = [ok |-> s.ok, group |-> s.group, parent |-> ParentsAfter(s, r.level, i),
             lines |-> s.lines \cup {n}]
    BY ReadRowLine
  <2> HIDE DEF t, n
  <2> QED
    BY <2>1
<1>2. r \in Row /\ r.level \in 1 .. 4 /\ s.group # 0 /\ r.cell # BadCell
      /\ (r.level > 1 => s.parent[r.level - 1] # 0)
  BY DEF Fits
<1> HIDE DEF t, n
<1>3. /\ s.group = Above(rows, i - 1, 0) /\ ParentsOK(rows, i - 1, s)
      /\ \A x \in s.lines : LineOK(rows, i - 1, x) /\ ParentOK(rows, s.lines, x)
      /\ \A j \in 1 .. i - 1 : rows[j].level # 0 => \E x \in s.lines : x.row = j
      /\ \A x, y \in s.lines : x.row = y.row => x = y
  BY DEF ReadOK
<1>4. \A l \in 0 .. 4 : Above(rows, i, l) = IF r.level = l THEN i ELSE Above(rows, i - 1, l)
  BY <1>0, AboveStep
<1>5. \A l \in 0 .. 4 : Above(rows, i - 1, l) \in 0 .. i - 1
  BY <1>0, AboveIs DEF IsAbove
<1>6. t.group = Above(rows, i, 0)
  BY <1>1, <1>2, <1>3, <1>4
<1>7. \A k \in 0 .. r.level - 1 : Above(rows, i, k) # 0 /\ Above(rows, i, k) < i
                                  /\ Above(rows, i, k) = Above(rows, i - 1, k)
  <2>1. CASE r.level = 1
    BY <2>1, <1>0, <1>2, <1>3, <1>4, <1>5
  <2>2. CASE r.level > 1
    <3> DEFINE m == r.level - 1
    <3>1. m \in 1 .. 4 /\ s.parent[m] # 0
      BY <2>2, <1>2
    <3>2. s.parent[m] = Above(rows, i - 1, m)
          /\ \A k \in 0 .. m - 1 : Above(rows, i - 1, k) # 0
      BY <3>1, <1>3 DEF ParentsOK
    <3>3. \A k \in 0 .. m : Above(rows, i - 1, k) # 0
      BY <3>1, <3>2, <1>2
    <3>4. \A k \in 0 .. m : k \in 0 .. 4 /\ k # r.level
      BY <1>2
    <3> QED
      BY <3>3, <3>4, <1>0, <1>4, <1>5, SMTT(20)
  <2> QED
    BY <2>1, <2>2, <1>2
<1>8. ParentsOK(rows, i, t)
  <2>1. t.parent = [l \in 1 .. 4 |-> CASE l < r.level -> s.parent[l] [] l = r.level -> i [] OTHER -> 0]
    BY <1>1 DEF ParentsAfter
  <2>2. s.parent \in [1 .. 4 -> Nat]
    BY <1>3 DEF ParentsOK
  <2>3. \A l \in 1 .. 4 : t.parent[l] = IF l < r.level THEN s.parent[l] ELSE IF l = r.level THEN i ELSE 0
    BY <2>1, <1>2
  <2>4. t.parent \in [1 .. 4 -> Nat]
    BY <2>1, <2>2, <2>3, <1>0
  <2>5. ASSUME NEW l \in 1 .. 4, t.parent[l] # 0
        PROVE  /\ t.parent[l] = Above(rows, i, l)
               /\ \A k \in 0 .. l - 1 : Above(rows, i, k) # 0 /\ Above(rows, i, k) < Above(rows, i, l)
               /\ \A k \in 1 .. l - 1 : t.parent[k] # 0
    <3>0. \A k \in 1 .. r.level - 1 : s.parent[k] # 0
      <4> DEFINE m == r.level - 1
      <4>1. CASE r.level = 1
        BY <4>1
      <4>2. CASE r.level > 1
        <5>1. m \in 1 .. 4 /\ s.parent[m] # 0
          BY <4>2, <1>2
        <5>2. \A k \in 1 .. m - 1 : s.parent[k] # 0
          BY <5>1, <1>3 DEF ParentsOK
        <5> QED
          BY <5>1, <5>2
      <4> QED
        BY <4>1, <4>2, <1>2
    <3>9. \A k \in 1 .. l - 1 : t.parent[k] # 0
      BY <3>0, <2>3, <2>5, <1>2, SMTT(20)
    <3>1. CASE l < r.level
      <4>1. t.parent[l] = s.parent[l] /\ s.parent[l] # 0
        BY <3>1, <2>3, <2>5
      <4>2. /\ s.parent[l] = Above(rows, i - 1, l)
            /\ \A k \in 0 .. l - 1 : Above(rows, i - 1, k) # 0
                                     /\ Above(rows, i - 1, k) < Above(rows, i - 1, l)
        BY <4>1, <1>3 DEF ParentsOK
      <4>3. \A k \in 0 .. l : Above(rows, i, k) = Above(rows, i - 1, k)
        BY <3>1, <1>2, <1>7
      <4> QED
        BY <4>1, <4>2, <4>3, <3>9
    <3>2. CASE l = r.level
      <4>1. t.parent[l] = i /\ Above(rows, i, l) = i
        BY <3>2, <2>3, <1>2, <1>4
      <4> QED
        BY <4>1, <3>2, <1>7, <3>9
    <3> QED
      BY <3>1, <3>2, <2>3, <2>5, <1>2
  <2> QED
    BY <2>4, <2>5 DEF ParentsOK
<1>9. /\ n.row = i /\ n.level = r.level /\ n.name = r.name /\ n.cell = r.cell
      /\ n.group = Above(rows, i, 0) /\ n.partner = Above(rows, i, 1)
      /\ n.level > 1 => n.parent = Above(rows, i, r.level - 1)
      /\ LineOK(rows, i, n)
  <2> DEFINE a == ParentsAfter(s, r.level, i)
  <2>1. \A l \in 1 .. r.level : a[l] = Above(rows, i, l)
    <3>1. \A l \in 1 .. 4 : a[l] # 0 => a[l] = Above(rows, i, l)
      BY <1>1, <1>8 DEF ParentsOK
    <3>2. a[r.level] = i
      BY <1>2 DEF ParentsAfter
    <3>3. \A l \in 1 .. r.level - 1 : a[l] = s.parent[l]
      BY <1>2 DEF ParentsAfter
    <3>4. \A l \in 1 .. r.level - 1 : s.parent[l] = Above(rows, i, l)
      <4>1. CASE r.level = 1
        BY <4>1
      <4>2. CASE r.level > 1
        <5> DEFINE m == r.level - 1
        <5>1. m \in 1 .. 4 /\ s.parent[m] # 0
          BY <4>2, <1>2
        <5>2. \A l \in 1 .. m : s.parent[l] # 0
          <6>1. \A k \in 1 .. m - 1 : s.parent[k] # 0
            BY <5>1, <1>3 DEF ParentsOK
          <6> QED
            BY <5>1, <6>1
        <5>3. \A l \in 1 .. m : s.parent[l] = Above(rows, i - 1, l)
          <6>1. \A l \in 1 .. m : l \in 1 .. 4
            BY <5>1
          <6>2. \A l \in 1 .. 4 : s.parent[l] # 0 => s.parent[l] = Above(rows, i - 1, l)
            BY <1>3 DEF ParentsOK
          <6> QED
            BY <5>2, <6>1, <6>2
        <5> QED
          BY <5>3, <1>2, <1>7
      <4> QED
        BY <4>1, <4>2, <1>2
    <3> QED
      BY <3>2, <3>3, <3>4, <1>2, <1>4
  <2> HIDE DEF a
  <2>2. n = [row |-> i, level |-> r.level, name |-> r.name, cell |-> r.cell, group |-> s.group,
             partner |-> a[1], parent |-> IF r.level = 1 THEN 0 ELSE a[r.level - 1]]
    BY DEF n, a, NewLine
  <2>3. /\ n.row = i /\ n.level = r.level /\ n.name = r.name /\ n.cell = r.cell
        /\ n.group = s.group /\ n.partner = a[1]
        /\ n.parent = IF r.level = 1 THEN 0 ELSE a[r.level - 1]
    BY <2>2
  <2>4. n.partner = Above(rows, i, 1) /\ (n.level > 1 => n.parent = Above(rows, i, r.level - 1))
    BY <2>1, <2>3, <1>2
  <2>5. n.group = Above(rows, i, 0)
    BY <2>3, <1>1, <1>6
  <2>6. n.partner \in Nat \ {0} /\ n.group \in Nat \ {0} /\ n.parent \in Nat
    <3>1. \A l \in 0 .. 4 : Above(rows, i, l) \in Nat
      BY <1>0, <1>4, <1>5
    <3>2. Above(rows, i, 1) # 0
      <4>1. CASE r.level = 1
        BY <4>1, <1>0, <1>4
      <4> QED
        BY <4>1, <1>2, <1>7
    <3>3. Above(rows, i, 0) # 0
      BY <1>2, <1>7
    <3>4. n.parent = 0 \/ n.parent = Above(rows, i, r.level - 1)
      BY <2>3, <2>4, <1>2
    <3> QED
      BY <3>1, <3>2, <3>3, <3>4, <2>4, <2>5, <1>2
  <2>7. r.name \in DOMAIN Normal /\ r.cell \in Cells
    BY <1>2 DEF Row
  <2>8. n \in [row : 1 .. i, level : 1 .. 4, name : DOMAIN Normal, cell : Cells,
               group : Nat \ {0}, partner : Nat \ {0}, parent : Nat]
    BY <2>2, <2>3, <2>6, <2>7, <1>0, <1>2
  <2> QED
    BY <2>3, <2>4, <2>5, <2>8 DEF LineOK
<1>10. ParentOK(rows, t.lines, n)
  <2> SUFFICES ASSUME n.level > 1
               PROVE  \E y \in t.lines :
                        /\ y.row = n.parent /\ y.row < n.row /\ y.level = n.level - 1
                        /\ \A l \in 0 .. y.level : Above(rows, y.row, l) = Above(rows, n.row, l)
    BY DEF ParentOK
  <2> DEFINE m == r.level - 1
             p == Above(rows, i - 1, m)
  <2>1. m \in 1 .. 3 /\ n.parent = p /\ p # 0 /\ p < i /\ p \in 1 .. i - 1
    BY <1>0, <1>2, <1>5, <1>7, <1>9
  <2>2. rows[p].level = m
    BY <2>1, <1>0, AboveIs DEF IsAbove
  <2>3. PICK y \in s.lines : y.row = p
    BY <2>1, <2>2, <1>3
  <2>4. y.level = m
    BY <2>2, <2>3, <1>3 DEF LineOK
  <2>5. \A k \in 0 .. m : Above(rows, i, k) <= p
    <3>1. s.parent[m] # 0
      BY <1>2, <2>1
    <3>2. \A k \in 0 .. m - 1 : Above(rows, i - 1, k) < Above(rows, i - 1, m)
      BY <3>1, <2>1, <1>3, SMTT(20) DEF ParentsOK
    <3>3. \A k \in 0 .. m : Above(rows, i - 1, k) <= p
      BY <3>2, <2>1, <1>5, SMTT(20)
    <3> QED
      BY <3>3, <1>2, <1>7, <2>1
  <2>6. \A k \in 0 .. m : Above(rows, p, k) = Above(rows, i, k)
    BY <2>1, <2>5, <1>0, AboveBetween
  <2> QED
    BY <2>1, <2>3, <2>4, <2>6, <1>1, <1>9
<1>11. ASSUME NEW x \in s.lines  PROVE LineOK(rows, i, x) /\ ParentOK(rows, t.lines, x) /\ x.row # i
  <2>1. LineOK(rows, i - 1, x) /\ ParentOK(rows, s.lines, x)
    BY <1>3
  <2>2. 1 .. i - 1 \subseteq 1 .. i /\ i \notin 1 .. i - 1
    BY <1>0
  <2>3. LineOK(rows, i, x) /\ x.row # i
    BY <2>1, <2>2 DEF LineOK
  <2>4. ParentOK(rows, t.lines, x)
    BY <2>1, <1>1 DEF ParentOK
  <2> QED
    BY <2>3, <2>4
<1>12. \A j \in 1 .. i : rows[j].level # 0 => \E x \in t.lines : x.row = j
  <2>1. \A j \in 1 .. i : j = i \/ j \in 1 .. i - 1
    BY <1>0
  <2> QED
    BY <2>1, <1>1, <1>3, <1>9
<1>13. \A x, y \in t.lines : x.row = y.row => x = y
  BY <1>1, <1>3, <1>9, <1>11
<1>14. \A x \in t.lines : LineOK(rows, i, x) /\ ParentOK(rows, t.lines, x)
  BY <1>1, <1>9, <1>10, <1>11
<1> QED
  BY <1>6, <1>8, <1>12, <1>13, <1>14 DEF ReadOK, t

\* However far a sheet has been read, its lines form the hierarchy that the sheet shows.
LEMMA ReadingOK ==
  ASSUME NEW rows \in Seq(Row), NEW i \in 0 .. Len(rows)
  PROVE  /\ ReadType(Reading(rows)[i])
         /\ Reading(rows)[i].ok => ReadOK(rows, i, Reading(rows)[i])
<1> DEFINE s(n) == Reading(rows)[n]
           OK(n) == ReadType(s(n)) /\ (s(n).ok => ReadOK(rows, n, s(n)))
           N == Len(rows)
           Bad == {n \in 0 .. N : ~OK(n)}
<1>0. N \in Nat
  OBVIOUS
<1>1. OK(0)
  <2>1. s(0) = Unread
    BY ReadingRecursion
  <2>2. ReadType(Unread)
    BY DEF ReadType, Unread
  <2>3. Unread.group = 0 /\ Unread.parent = NoParent /\ Unread.lines = {}
    BY DEF Unread
  <2>4. ParentsOK(rows, 0, Unread)
    BY <2>3 DEF ParentsOK, NoParent
  <2>5. ReadOK(rows, 0, Unread)
    BY <2>3, <2>4, AboveNone DEF ReadOK
  <2> QED
    BY <2>1, <2>2, <2>5
<1>2. ASSUME NEW n \in 1 .. N, OK(n - 1)  PROVE OK(n)
  <2> DEFINE p == s(n - 1)
  <2>1. s(n) = NextRead(rows, p, n)
    BY ReadingRecursion
  <2>2. ReadType(p) /\ (p.ok => ReadOK(rows, n - 1, p))
    BY <1>2
  <2> HIDE DEF s
  <2>3. CASE ~p.ok
    <3>1. s(n) = p
      BY <2>1, <2>3 DEF NextRead
    <3> QED
      BY <2>2, <2>3, <3>1
  <2>4. CASE p.ok
    <3>1. s(n) = ReadRow(p, rows[n], n)
      BY <2>1, <2>4 DEF NextRead
    <3>2. ReadOK(rows, n - 1, p)
      BY <2>2, <2>4
    <3>3. CASE rows[n].level = 0
      <4>1. ReadOK(rows, n, s(n))
        BY <3>1, <3>2, <3>3, <2>2, ReadGroup
      <4>2. s(n) = [ok |-> p.ok, group |-> n, parent |-> NoParent, lines |-> p.lines]
        BY <3>1, <3>3, <2>2, ReadRowGroup
      <4>3. ReadType(s(n))
        BY <4>2 DEF ReadType
      <4> QED
        BY <4>1, <4>3
    <3>4. CASE rows[n].level # 0 /\ Fits(p, rows[n])
      <4>1. ReadOK(rows, n, s(n))
        BY <3>1, <3>2, <3>4, <2>2, ReadLine
      <4> DEFINE a == ParentsAfter(p, rows[n].level, n)
                 l == NewLine(p, rows[n], n)
      <4>2. s(n) = [ok |-> p.ok, group |-> p.group, parent |-> a, lines |-> p.lines \cup {l}]
        BY <3>1, <3>4, <2>2, ReadRowLine
      <4> HIDE DEF a, l
      <4>3. ReadType(s(n))
        BY <4>2 DEF ReadType
      <4> QED
        BY <4>1, <4>3
    <3>5. CASE rows[n].level # 0 /\ ~Fits(p, rows[n])
      <4>1. s(n) = [ok |-> FALSE, group |-> p.group, parent |-> p.parent, lines |-> p.lines]
        BY <3>1, <3>5, <2>2, ReadRowRefused
      <4>2. ~s(n).ok /\ ReadType(s(n))
        BY <4>1 DEF ReadType
      <4> QED
        BY <4>2
    <3> QED
      BY <3>3, <3>4, <3>5
  <2> QED
    BY <2>3, <2>4
<1> HIDE DEF OK
<1>3. Bad = {}
  <2> SUFFICES ASSUME Bad # {}  PROVE FALSE
    OBVIOUS
  <2>1. Bad \in SUBSET Nat
    BY <1>0
  <2>2. PICK n \in Bad : \A m \in Bad : n <= m
    BY <2>1, LeastNatural
  <2>3. n \in 0 .. N /\ ~OK(n)
    OBVIOUS
  <2>4. n \in 1 .. N
    BY <2>3, <1>0, <1>1
  <2>5. n - 1 \in 0 .. N
    BY <2>4, <1>0
  <2>6. n - 1 \notin Bad
    BY <2>2, <2>4, <1>0
  <2> QED
    BY <1>2, <2>3, <2>4, <2>5, <2>6
<1>4. OK(i)
  BY <1>3
<1> QED
  BY <1>4 DEF OK

\* The lines of a sheet that the validator accepts form the hierarchy of its rows.
LEMMA SheetIsRead ==
  ASSUME NEW sheet \in ValidSheet
  PROVE  /\ sheet.rows \in Seq(Row)
         /\ ReadOK(sheet.rows, Len(sheet.rows), Classify(sheet.rows))
<1>1. sheet \in Sheet /\ Valid(sheet)
  BY DEF ValidSheet
<1>2. sheet.rows \in Seq(Row)
  BY <1>1, SourceAssumption
<1>3. Classify(sheet.rows).ok
  BY <1>1 DEF Valid
<1>4. Len(sheet.rows) \in 0 .. Len(sheet.rows)
  BY <1>2
<1> QED
  BY <1>2, <1>3, <1>4, ReadingOK DEF Classify

-----------------------------------------------------------------------------
(* The keys of a file                                                       *)

\* The normal form of a name is a sequence of words.
LEMMA NormalIsText ==
  ASSUME NEW n \in DOMAIN Normal
  PROVE  Normal[n] \in Seq(Word)
<1>1. Normal[n] \in Seq(STRING) /\ STRING \subseteq Word
  BY SourceAssumption DEF Word
<1> QED
  BY <1>1, SeqMonotonic

\* A mark is a word.
LEMMA MarkIsWord ==
  ASSUME NEW l \in 1 .. 4
  PROVE  Mark[l] \in Word
<1>1. l \in DOMAIN Mark
  BY DEF Mark
<1> QED
  BY <1>1 DEF Word, Range

\* A row has one line.
LEMMA LineOfRow ==
  ASSUME NEW t, NEW rows, NEW i, NEW s, ReadOK(rows, i, s), t.lines = s.lines, NEW x \in t.lines
  PROVE  LineOf(t, x.row) = x
<1>1. \A y \in t.lines : y.row = x.row => y = x
  BY DEF ReadOK
<1> QED
  BY <1>1 DEF LineOf

\* The names below the counterparty at row i, given those of the rows above it.
PathAt(t, g, i) ==
  LET x == LineOf(t, i)
  IN IF x.level = 1 THEN <<>> ELSE g[x.parent] \o <<Mark[x.level]>> \o Normal[x.name]

\* The recursion of Keys has a solution, as parents come before their children.
LEMMA KeysPath ==
  ASSUME NEW t, NEW N \in Nat, \A x \in t.lines : x.row \in 1 .. N,
         \A i \in {x.row : x \in t.lines} : LineOf(t, i).level # 1 =>
           LineOf(t, i).parent \in {x.row : x \in t.lines} /\ LineOf(t, i).parent < i
  PROVE  \E p : \A i \in {x.row : x \in t.lines} :
           /\ p[i] = PathAt(t, p, i)
           /\ Keys(t)[i] = <<t.id[LineOf(t, i).partner], p[i]>>
<1> DEFINE R == {x.row : x \in t.lines}
<1>a. R \subseteq 1 .. N
  OBVIOUS
<1>b. \A i \in R : LineOf(t, i).level # 1 =>
                    LineOf(t, i).parent \in R /\ LineOf(t, i).parent < i
  OBVIOUS
<1> HIDE DEF R
<1> USE <1>a, <1>b
<1> DEFINE Path(g, n) == g = [i \in R \cap (0 .. n) |-> PathAt(t, g, i)]
           Bad == {n \in 0 .. N : ~ \E g : Path(g, n)}
<1>1. ASSUME NEW g, NEW h, NEW n \in 0 .. N, NEW i \in R, i <= n,
             \A j \in R : j < n => g[j] = h[j]
      PROVE  PathAt(t, g, i) = PathAt(t, h, i)
  <2>1. CASE LineOf(t, i).level = 1
    BY <2>1 DEF PathAt
  <2>2. CASE LineOf(t, i).level # 1
    <3> DEFINE k == LineOf(t, i).parent
    <3>1. k \in R /\ k < i
      BY <2>2
    <3>2. k \in 1 .. N /\ i \in 1 .. N
      BY <3>1
    <3> HIDE DEF k
    <3>3. k < n
      BY <3>1, <3>2, <1>1
    <3>4. g[k] = h[k]
      BY <3>1, <3>3, <1>1
    <3> QED
      BY <3>4 DEF PathAt, k
  <2> QED
    BY <2>1, <2>2
<1>2. Bad = {}
  <2> SUFFICES ASSUME Bad # {}  PROVE FALSE
    OBVIOUS
  <2>1. Bad \in SUBSET Nat
    OBVIOUS
  <2>2. PICK n \in Bad : \A m \in Bad : n <= m
    BY <2>1, LeastNatural
  <2>3. n \in 0 .. N /\ ~ \E g : Path(g, n)
    OBVIOUS
  <2>4. n # 0
    <3>1. R \cap (0 .. 0) = {}
      OBVIOUS
    <3> DEFINE g == [i \in R \cap (0 .. 0) |-> <<>>]
    <3>2. g = [i \in R \cap (0 .. 0) |-> PathAt(t, g, i)]
      BY <3>1
    <3>3. Path(g, 0)
      BY <3>2
    <3> HIDE DEF g
    <3> QED
      BY <3>3, <2>3
  <2>5. n - 1 \in 0 .. N
    BY <2>3, <2>4
  <2>6. n - 1 \notin Bad
    <3>1. n - 1 \in Bad => n <= n - 1
      BY <2>2
    <3> HIDE DEF Bad
    <3> QED
      BY <3>1, <2>3
  <2>7. PICK g : Path(g, n - 1)
    BY <2>5, <2>6
  <2> DEFINE h == [i \in R \cap (0 .. n) |-> IF i = n THEN PathAt(t, g, n) ELSE g[i]]
  <2>8. \A j \in R : j < n => g[j] = h[j]
    BY <2>3
  <2>9. ASSUME NEW i \in R \cap (0 .. n)  PROVE h[i] = PathAt(t, h, i)
    <3> HIDE DEF Path
    <3>1. i \in R /\ i <= n /\ i \in 1 .. N
      OBVIOUS
    <3>2. PathAt(t, g, i) = PathAt(t, h, i)
      <4> HIDE DEF h
      <4> QED
        BY <3>1, <2>3, <2>8, <1>1
    <3>3. CASE i = n
      BY <3>2, <3>3
    <3>4. CASE i # n
      <4>1. i \in R \cap (0 .. n - 1)
        BY <3>1, <3>4, <2>3
      <4>2. g[i] = PathAt(t, g, i)
        BY <4>1, <2>7 DEF Path
      <4> QED
        BY <3>2, <3>4, <4>2
    <3> QED
      BY <3>3, <3>4
  <2>10. h = [i \in R \cap (0 .. n) |-> PathAt(t, h, i)]
    BY <2>9
  <2>11. Path(h, n)
    BY <2>10
  <2> HIDE DEF h
  <2> QED
    BY <2>11, <2>3
<1>3. N \in 0 .. N
  OBVIOUS
<1>9. N \notin Bad
  BY <1>2, Zenon
<1>4. PICK g : Path(g, N)
  BY <1>3, <1>9
<1>5. R \cap (0 .. N) = R
  <2>1. \A i \in R : i \in 1 .. N
    BY Zenon
  <2>2. \A i \in 1 .. N : i \in 0 .. N
    OBVIOUS
  <2> HIDE DEF Path, Bad
  <2> QED
    BY <2>1, <2>2, Zenon
<1>6. \E f : f = [i \in R |-> PathAt(t, f, i)]
  BY <1>4, <1>5
<1> DEFINE p == CHOOSE f : f = [i \in R |-> PathAt(t, f, i)]
<1>7. p = [i \in R |-> PathAt(t, p, i)]
  BY <1>6
<1>8. Keys(t) = [i \in R |-> <<t.id[LineOf(t, i).partner], p[i]>>]
  BY DEF Keys, R, PathAt
<1> HIDE DEF p
<1> QED
  BY <1>7, <1>8 DEF R

\* A key is the key of the parent, a mark and the row's own name.
LEMMA KeysRecursion ==
  ASSUME NEW t, NEW rows \in Seq(Row), NEW s, ReadOK(rows, Len(rows), s), t.lines = s.lines,
         NEW x \in t.lines
  PROVE  /\ x.level = 1 => Keys(t)[x.row] = <<t.id[x.partner], <<>>>>
         /\ x.level # 1 =>
              Keys(t)[x.row] = <<t.id[x.partner],
                                 Keys(t)[x.parent][2] \o <<Mark[x.level]>> \o Normal[x.name]>>
         /\ Keys(t)[x.row][1] = t.id[x.partner] /\ Keys(t)[x.row][2] \in Seq(Word)
<1> DEFINE R == {y.row : y \in t.lines}
           N == Len(rows)
<1>0. N \in Nat
  OBVIOUS
<1>1. \A y \in t.lines : LineOf(t, y.row) = y /\ y.row \in R
  BY LineOfRow
<1>2. R \subseteq 1 .. N
  BY DEF ReadOK, LineOK
<1>3. ASSUME NEW i \in R, LineOf(t, i).level # 1
      PROVE  LineOf(t, i).parent \in R /\ LineOf(t, i).parent < i
  <2>1. PICK y \in t.lines : y.row = i
    OBVIOUS
  <2>2. LineOf(t, i) = y
    BY <2>1, <1>1
  <2>3. y.level \in 1 .. 4 /\ ParentOK(rows, t.lines, y)
    BY DEF ReadOK, LineOK
  <2>4. y.level > 1
    BY <2>2, <2>3, <1>3
  <2>5. PICK z \in t.lines : z.row = y.parent /\ z.row < y.row
    BY <2>3, <2>4 DEF ParentOK
  <2> QED
    BY <2>1, <2>2, <2>5
<1> HIDE DEF R, N
<1>4. \A i \in R : LineOf(t, i).level # 1 =>
                     LineOf(t, i).parent \in R /\ LineOf(t, i).parent < i
  BY <1>3
<1>7. PICK p : \A i \in R : /\ p[i] = PathAt(t, p, i)
                            /\ Keys(t)[i] = <<t.id[LineOf(t, i).partner], p[i]>>
  <2>1. \A y \in t.lines : y.row \in 1 .. N
    BY <1>1, <1>2
  <2> QED
    BY <1>0, <1>4, <2>1, KeysPath DEF R
<1>8. ASSUME NEW y \in t.lines
      PROVE  /\ p[y.row] = IF y.level = 1 THEN <<>>
                           ELSE p[y.parent] \o <<Mark[y.level]>> \o Normal[y.name]
             /\ Keys(t)[y.row] = <<t.id[y.partner], p[y.row]>>
  <2>1. y.row \in R /\ LineOf(t, y.row) = y
    BY <1>1
  <2>2. p[y.row] = PathAt(t, p, y.row)
    BY <2>1, <1>7
  <2>3. Keys(t)[y.row] = <<t.id[LineOf(t, y.row).partner], p[y.row]>>
    BY <2>1, <1>7
  <2> QED
    BY <2>1, <2>2, <2>3 DEF PathAt
<1>9. ASSUME NEW y \in t.lines, y.level # 1
      PROVE  \E z \in t.lines : z.row = y.parent /\ z.row < y.row
  BY <1>1, <1>3, <1>9 DEF R
<1>10. \A y \in t.lines : p[y.row] \in Seq(Word)
  <2> DEFINE B == {i \in R : p[i] \notin Seq(Word)}
  <2>0. ASSUME B # {}  PROVE FALSE
    <3>0. \A i \in R : i \in Nat
      <4>1. \A i \in R : i \in 1 .. N
        BY <1>2, Zenon
      <4>2. \A i \in 1 .. N : i \in Nat
        BY <1>0
      <4> QED
        BY <4>1, <4>2, Zenon
    <3>1. B \in SUBSET Nat
      BY <3>0
    <3>2. PICK i \in B : \A j \in B : i <= j
      BY <3>1, <2>0, LeastNatural
    <3>3. i \in R /\ p[i] \notin Seq(Word)
      OBVIOUS
    <3>4. PICK y \in t.lines : y.row = i
      BY <3>3 DEF R
    <3>5. p[y.row] = IF y.level = 1 THEN <<>> ELSE p[y.parent] \o <<Mark[y.level]>> \o Normal[y.name]
      BY <1>8
    <3>6. y.level # 1
      <4>1. <<>> \in Seq(Word)
        OBVIOUS
      <4> QED
        BY <4>1, <3>3, <3>4, <3>5, Zenon
    <3>7. PICK z \in t.lines : z.row = y.parent /\ z.row < y.row
      BY <3>6, <1>9
    <3>8. p[z.row] \in Seq(Word)
      <4>1. z.row \in R
        BY <1>1
      <4>2. z.row \in Nat /\ i \in Nat
        BY <4>1, <3>3, <3>0, Zenon
      <4>3. z.row \in B => i <= z.row
        BY <3>2
      <4> QED
        BY <4>1, <4>2, <4>3, <3>4, <3>7
    <3>9. Mark[y.level] \in Word /\ Normal[y.name] \in Seq(Word)
      <4>1. y.level \in 1 .. 4 /\ y.name \in DOMAIN Normal
        BY DEF ReadOK, LineOK
      <4> QED
        BY <4>1, NormalIsText, MarkIsWord
    <3>10. p[z.row] \o <<Mark[y.level]>> \o Normal[y.name] \in Seq(Word)
      <4> DEFINE m == <<Mark[y.level]>>
      <4>1. m \in Seq(Word)
        BY <3>9
      <4> HIDE DEF m
      <4>2. p[z.row] \o m \in Seq(Word)
        BY <3>8, <4>1, ConcatProperties
      <4> QED
        BY <3>9, <4>2, ConcatProperties DEF m
    <3> QED
      BY <3>3, <3>4, <3>5, <3>6, <3>7, <3>10
  <2> QED
    BY <2>0, <1>1
<1>11. Keys(t)[x.row] = <<t.id[x.partner], p[x.row]>> /\ p[x.row] \in Seq(Word)
  BY <1>8, <1>10
<1>12. Keys(t)[x.row][1] = t.id[x.partner] /\ Keys(t)[x.row][2] \in Seq(Word)
  BY <1>11
<1>13. CASE x.level = 1
  BY <1>8, <1>11, <1>12, <1>13
<1>14. CASE x.level # 1
  <2>1. PICK z \in t.lines : z.row = x.parent
    BY <1>9, <1>14
  <2>2. Keys(t)[z.row] = <<t.id[z.partner], p[z.row]>>
    BY <1>8
  <2>3. Keys(t)[x.parent][2] = p[x.parent]
    BY <2>1, <2>2
  <2>4. p[x.row] = p[x.parent] \o <<Mark[x.level]>> \o Normal[x.name]
    BY <1>8, <1>14
  <2> QED
    BY <1>11, <1>12, <1>14, <2>3, <2>4
<1> QED
  BY <1>13, <1>14

-----------------------------------------------------------------------------
(* The invariant: an upload and its rows                                    *)

\* The rows and lines of an upload in progress.
LEMMA UploadIsRead ==
  ASSUME NEW u \in Session, NEW t, UploadOK(u, t)
  PROVE  /\ t.sheet \in ValidSheet /\ t.sheet.rows \in Seq(Row)
         /\ DOMAIN t.sheet.rows = 1 .. Len(t.sheet.rows) /\ Len(t.sheet.rows) \in Nat
         /\ t.lines = Classify(t.sheet.rows).lines
         /\ ReadOK(t.sheet.rows, Len(t.sheet.rows), Classify(t.sheet.rows))
<1>1. t.sheet \in ValidSheet /\ t.lines = Classify(t.sheet.rows).lines
  BY DEF UploadOK
<1>2. t.sheet.rows \in Seq(Row)
      /\ ReadOK(t.sheet.rows, Len(t.sheet.rows), Classify(t.sheet.rows))
  BY <1>1, SheetIsRead
<1> QED
  BY <1>1, <1>2, LenProperties

\* A counterparty's line stands under the group above it.
LEMMA CounterpartyLine ==
  ASSUME NEW u \in Session, NEW t, UploadOK(u, t), NEW i \in OfLevel(t.sheet.rows, 1)
  PROVE  /\ LineOf(t, i) \in t.lines /\ LineOf(t, i).row = i
         /\ LineOf(t, i).group = Above(t.sheet.rows, i, 0)
         /\ LineOf(t, i).group \in OfLevel(t.sheet.rows, 0)
<1> DEFINE rows == t.sheet.rows
           s == Classify(rows)
           N == Len(rows)
<1>1. /\ rows \in Seq(Row) /\ DOMAIN rows = 1 .. N /\ N \in Nat /\ t.lines = s.lines
      /\ ReadOK(rows, N, s)
  BY UploadIsRead
<1>2. i \in 1 .. N /\ rows[i].level = 1
  BY <1>1 DEF OfLevel
<1> HIDE DEF rows, s, N
<1>3. PICK x \in s.lines : x.row = i
  BY <1>1, <1>2 DEF ReadOK
<1>4. LineOf(t, i) = x
  BY <1>1, <1>3, LineOfRow
<1>5. x.group = Above(rows, i, 0) /\ x.group # 0
  BY <1>1, <1>3 DEF ReadOK, LineOK
<1>6. x.group \in 0 .. i /\ rows[x.group].level = 0
  BY <1>2, <1>5, AboveIs DEF IsAbove
<1>7. x.group \in 1 .. N
  BY <1>1, <1>2, <1>5, <1>6
<1> QED
  BY <1>1, <1>3, <1>4, <1>5, <1>6, <1>7 DEF OfLevel, rows

\* The row that comes next is one that is still to do, and a group if there is one.
LEMMA NextRowIs ==
  ASSUME NEW u \in Session, NEW t, UploadOK(u, t), t.todo # {}
  PROVE  /\ NextRow(t) \in t.todo
         /\ t.todo \cap OfLevel(t.sheet.rows, 0) # {} => NextRow(t) \in OfLevel(t.sheet.rows, 0)
<1> DEFINE G == t.todo \cap OfLevel(t.sheet.rows, 0)
           S == IF G # {} THEN G ELSE t.todo
<1>1. t.todo \subseteq Nat
  <2>1. t.todo \subseteq Named(t.sheet.rows)
    BY DEF UploadOK
  <2>2. DOMAIN t.sheet.rows \subseteq Nat
    BY UploadIsRead
  <2> QED
    BY <2>1, <2>2 DEF Named, OfLevel
<1>2. S \in SUBSET Nat /\ S # {}
  BY <1>1
<1>3. PICK m \in S : \A y \in S : m <= y
  BY <1>2, LeastNatural
<1>4. NextRow(t) = CHOOSE x \in S : \A y \in S : x =< y
  BY DEF NextRow, Min
<1>5. NextRow(t) \in S
  <2> HIDE DEF S
  <2> QED
    BY <1>3, <1>4
<1> QED
  BY <1>5

\* What a row names: a group of the department or a counterparty of the group above.
LEMMA WantedIs ==
  ASSUME NEW u \in Session, NEW t, UploadOK(u, t), NEW i \in Named(t.sheet.rows)
  PROVE  /\ i \in OfLevel(t.sheet.rows, 0) => Wanted(t, i).owner = t.dept
         /\ i \in OfLevel(t.sheet.rows, 1) =>
              Wanted(t, i).owner = t.id[Above(t.sheet.rows, i, 0)]
         /\ Wanted(t, i).name = Normal[t.sheet.rows[i].name]
         /\ Wanted(t, i).owner \in Department \cup Nat
         /\ Wanted(t, i).name \in Seq(STRING)
<1>1. i \in DOMAIN t.sheet.rows /\ (i \in OfLevel(t.sheet.rows, 0) \/ i \in OfLevel(t.sheet.rows, 1))
  BY DEF Named, OfLevel
<1>2. t.sheet.rows[i] \in Row
  BY <1>1, UploadIsRead, ElementOfSeq
<1>3. Normal[t.sheet.rows[i].name] \in Seq(STRING)
  <2>1. t.sheet.rows[i].name \in DOMAIN Normal
    BY <1>2 DEF Row
  <2> QED
    BY <2>1, SourceAssumption
<1>4. Wanted(t, i).name = Normal[t.sheet.rows[i].name]
  BY DEF Wanted
<1>5. CASE i \in OfLevel(t.sheet.rows, 0)
  <2>1. t.sheet.rows[i].level = 0
    BY <1>5 DEF OfLevel
  <2>2. Wanted(t, i).owner = t.dept
    BY <2>1 DEF Wanted
  <2>3. i \notin OfLevel(t.sheet.rows, 1)
    BY <2>1 DEF OfLevel
  <2>4. t.dept \in Department
    BY DEF UploadOK
  <2> QED
    BY <1>3, <1>4, <2>2, <2>3, <2>4
<1>6. CASE i \in OfLevel(t.sheet.rows, 1)
  <2>1. t.sheet.rows[i].level # 0
    BY <1>6 DEF OfLevel
  <2>2. Wanted(t, i).owner = t.id[LineOf(t, i).group]
    BY <2>1 DEF Wanted
  <2>3. LineOf(t, i).group = Above(t.sheet.rows, i, 0)
        /\ LineOf(t, i).group \in OfLevel(t.sheet.rows, 0)
    BY <1>6, CounterpartyLine
  <2>4. LineOf(t, i).group \in DOMAIN t.sheet.rows
    BY <2>3 DEF OfLevel
  <2>5. t.id \in [DOMAIN t.sheet.rows -> Nat]
    BY DEF UploadOK
  <2>6. t.id[LineOf(t, i).group] \in Nat
    BY <2>4, <2>5
  <2>7. i \notin OfLevel(t.sheet.rows, 0)
    BY <2>1 DEF OfLevel
  <2> QED
    BY <1>3, <1>4, <2>2, <2>3, <2>6, <2>7
<1> QED
  BY <1>1, <1>5, <1>6

-----------------------------------------------------------------------------
(* The invariant: taking an identity                                        *)

\* An upload that has the identity of its next row.
Taken(t, id) ==
  [dept |-> t.dept, date |-> t.date, sheet |-> t.sheet, lines |-> t.lines,
   todo |-> t.todo \ {NextRow(t)}, id |-> [t.id EXCEPT ![NextRow(t)] = id]]

\* An upload is a record of six fields.
LEMMA UploadRecord ==
  ASSUME NEW u \in Session, NEW t, UploadOK(u, t)
  PROVE  /\ t = [dept |-> t.dept, date |-> t.date, sheet |-> t.sheet, lines |-> t.lines,
                 todo |-> t.todo, id |-> t.id]
         /\ t.dept \in Department /\ t.date \in Date
         /\ t.id \in [DOMAIN t.sheet.rows -> Nat]
         /\ t.todo \subseteq Named(t.sheet.rows)
<1> DEFINE L == {Classify(t.sheet.rows).lines}
           T == SUBSET Named(t.sheet.rows)
           I == [DOMAIN t.sheet.rows -> Nat]
<1>1. t \in [dept : Department, date : Date, sheet : ValidSheet, lines : L, todo : T, id : I]
  BY DEF UploadOK
<1>2. t.todo \in T
  BY <1>1
<1> HIDE DEF L, T, I
<1>3. t = [dept |-> t.dept, date |-> t.date, sheet |-> t.sheet, lines |-> t.lines,
           todo |-> t.todo, id |-> t.id]
      /\ t.dept \in Department /\ t.date \in Date /\ t.id \in I
  BY <1>1
<1> QED
  BY <1>2, <1>3 DEF I, T

\* Took makes the upload Taken.
LEMMA TookIs ==
  ASSUME NEW u \in Session, DOMAIN upload = Session, UploadOK(u, upload[u]), NEW id, Took(u, id)
  PROVE  /\ DOMAIN upload' = Session
         /\ upload'[u] = Taken(upload[u], id)
         /\ \A v \in Session \ {u} : upload'[v] = upload[v]
<1> DEFINE t == upload[u]
           i == NextRow(t)
<1>1. t = [dept |-> t.dept, date |-> t.date, sheet |-> t.sheet, lines |-> t.lines,
           todo |-> t.todo, id |-> t.id]
  BY UploadRecord
<1>2. upload' = [upload EXCEPT ![u].id[i] = id, ![u].todo = @ \ {i}]
  BY DEF Took
<1> HIDE DEF i
<1>3. upload' = [upload EXCEPT ![u] = [t EXCEPT !.id = [t.id EXCEPT ![i] = id],
                                                !.todo = t.todo \ {i}]]
  BY <1>1, <1>2
<1> DEFINE r == [t EXCEPT !.id = [t.id EXCEPT ![i] = id], !.todo = t.todo \ {i}]
           j == [t.id EXCEPT ![i] = id]
           k == t.todo \ {i}
<1>4. r = [dept |-> t.dept, date |-> t.date, sheet |-> t.sheet, lines |-> t.lines,
           todo |-> t.todo \ {i}, id |-> [t.id EXCEPT ![i] = id]]
  <2>1. r = [t EXCEPT !.id = j, !.todo = k]
    OBVIOUS
  <2> HIDE DEF r, j, k
  <2>2. r = [dept |-> t.dept, date |-> t.date, sheet |-> t.sheet, lines |-> t.lines,
             todo |-> k, id |-> j]
    BY <1>1, <2>1
  <2> QED
    BY <2>2 DEF j, k
<1>5. r = Taken(t, id)
  BY <1>4 DEF Taken, i
<1>6. upload' = [upload EXCEPT ![u] = r]
  BY <1>3
<1> HIDE DEF r
<1> QED
  BY <1>5, <1>6

\* The rows before keep the identity they have, and the next row gets the one it names.
LEMMA TakenKeeps ==
  ASSUME NEW u \in Session, NEW t, UploadOK(u, t), t.todo # {}, NEW id \in Nat
  PROVE  LET r == Taken(t, id)
         IN /\ r.dept = t.dept /\ r.date = t.date /\ r.sheet = t.sheet /\ r.lines = t.lines
            /\ r \in [dept : Department, date : Date, sheet : ValidSheet,
                      lines : {Classify(r.sheet.rows).lines}, todo : SUBSET Named(r.sheet.rows),
                      id : [DOMAIN r.sheet.rows -> Nat]]
            /\ OfLevel(r.sheet.rows, 1) \subseteq r.todo \/ OfLevel(r.sheet.rows, 0) \cap r.todo = {}
            /\ NextRow(t) \in Named(t.sheet.rows)
            /\ r.id[NextRow(t)] = id /\ Wanted(r, NextRow(t)) = Wanted(t, NextRow(t))
            /\ \A i \in Named(r.sheet.rows) \ r.todo :
                 i # NextRow(t) =>
                   /\ i \in Named(t.sheet.rows) \ t.todo
                   /\ r.id[i] = t.id[i] /\ Wanted(r, i) = Wanted(t, i)
<1> DEFINE r == Taken(t, id)
           n == NextRow(t)
           rows == t.sheet.rows
<1>1. r.dept = t.dept /\ r.date = t.date /\ r.sheet = t.sheet /\ r.lines = t.lines
      /\ r.todo = t.todo \ {n} /\ r.id = [t.id EXCEPT ![n] = id]
  BY DEF Taken
<1>2. t.dept \in Department /\ t.date \in Date /\ t.id \in [DOMAIN rows -> Nat]
      /\ t.todo \subseteq Named(rows)
  BY UploadRecord
<1>3. t.sheet \in ValidSheet /\ t.lines = Classify(rows).lines
  BY UploadIsRead
<1>4. n \in t.todo /\ (t.todo \cap OfLevel(rows, 0) # {} => n \in OfLevel(rows, 0))
  BY NextRowIs
<1>5. r.id \in [DOMAIN rows -> Nat]
  BY <1>1, <1>2
<1>6. r \in [dept : Department, date : Date, sheet : ValidSheet,
             lines : {Classify(r.sheet.rows).lines}, todo : SUBSET Named(r.sheet.rows),
             id : [DOMAIN r.sheet.rows -> Nat]]
  <2> DEFINE L == {Classify(r.sheet.rows).lines}
             T == SUBSET Named(r.sheet.rows)
             I == [DOMAIN r.sheet.rows -> Nat]
  <2>1. r.lines \in L /\ r.id \in I
    BY <1>1, <1>3, <1>5
  <2>2. r.todo \in T
    BY <1>1, <1>2
  <2>3. r = [dept |-> r.dept, date |-> r.date, sheet |-> r.sheet, lines |-> r.lines,
             todo |-> r.todo, id |-> r.id]
    BY DEF Taken
  <2>4. r.dept \in Department /\ r.date \in Date /\ r.sheet \in ValidSheet
    BY <1>1, <1>2, <1>3
  <2> HIDE DEF r, L, T, I
  <2>5. r \in [dept : Department, date : Date, sheet : ValidSheet, lines : L, todo : T, id : I]
    BY <2>1, <2>2, <2>3, <2>4
  <2> QED
    BY <2>5 DEF L, T, I
<1> HIDE DEF r, n
<1>7. OfLevel(rows, 0) \cap OfLevel(rows, 1) = {}
  BY DEF OfLevel
<1>8. OfLevel(rows, 1) \subseteq t.todo \/ OfLevel(rows, 0) \cap t.todo = {}
  BY DEF UploadOK
<1>9. OfLevel(r.sheet.rows, 1) \subseteq r.todo \/ OfLevel(r.sheet.rows, 0) \cap r.todo = {}
  BY <1>1, <1>4, <1>7, <1>8
<1>10. \A i \in OfLevel(rows, 0) : r.id[i] = IF i = n THEN id ELSE t.id[i]
  BY <1>1, <1>2 DEF OfLevel
<1>11. ASSUME NEW i \in Named(rows),
              i \in OfLevel(rows, 1) => n \notin OfLevel(rows, 0)
       PROVE  Wanted(r, i) = Wanted(t, i)
  <2>1. LineOf(r, i) = LineOf(t, i)
    BY <1>1 DEF LineOf
  <2>2. CASE i \in OfLevel(rows, 0)
    <3>1. rows[i].level = 0
      BY <2>2 DEF OfLevel
    <3> QED
      BY <3>1, <1>1 DEF Wanted
  <2>3. CASE i \in OfLevel(rows, 1)
    <3>1. rows[i].level = 1
      BY <2>3 DEF OfLevel
    <3>2. LineOf(t, i).group \in OfLevel(rows, 0)
      BY <2>3, CounterpartyLine
    <3>3. r.id[LineOf(t, i).group] = t.id[LineOf(t, i).group]
      BY <3>2, <2>3, <1>10, <1>11
    <3> QED
      BY <3>1, <3>3, <2>1, <1>1 DEF Wanted
  <2> QED
    BY <2>2, <2>3 DEF Named
<1>12. n \in Named(rows) /\ r.id[n] = id
  BY <1>1, <1>2, <1>4 DEF Named, OfLevel
<1>13. Wanted(r, n) = Wanted(t, n)
  BY <1>7, <1>11, <1>12
<1>14. ASSUME NEW i \in Named(rows) \ r.todo, i # n
       PROVE  /\ i \in Named(rows) \ t.todo
              /\ r.id[i] = t.id[i] /\ Wanted(r, i) = Wanted(t, i)
  <2>1. i \in Named(rows) \ t.todo
    BY <1>1, <1>14
  <2>2. i \in OfLevel(rows, 1) => n \notin OfLevel(rows, 0)
    BY <2>1, <1>4, <1>8
  <2>3. Wanted(r, i) = Wanted(t, i)
    BY <2>1, <2>2, <1>11
  <2>4. r.id[i] = t.id[i]
    BY <1>1, <1>2, <1>14, <2>1 DEF Named, OfLevel
  <2> QED
    BY <2>1, <2>3, <2>4
<1> QED
  BY <1>1, <1>6, <1>9, <1>12, <1>13, <1>14 DEF r, n

-----------------------------------------------------------------------------
(* The invariant: steps of uploads                                          *)

\* To keep UploadInv is to keep every upload that is in progress.
LEMMA UploadsKept ==
  ASSUME DOMAIN upload' = Session,
         \A u \in Session : upload'[u] # Null => \E t : t = upload'[u] /\ UploadOK(u, t)'
  PROVE  UploadInv'
<1> SUFFICES ASSUME NEW u \in Session, upload'[u] # Null
             PROVE  UploadOK(u, upload[u])'
  BY DEF UploadInv
<1>1. PICK t : t = upload'[u] /\ UploadOK(u, t)'
  OBVIOUS
<1> QED
  BY <1>1 DEF UploadOK

\* What an upload relies on: its file stays its own, its identities stay.
LEMMA UploadFrame ==
  ASSUME NEW v \in Session, NEW t, UploadOK(v, t),
         \A f \in files' : f \in files \/ f.dept # t.dept \/ f.date # t.date,
         \A w \in Session : upload'[w] # Null /\ upload'[w].date = t.date => w = v,
         \A x \in identity : x.by \in {Null, v} =>
           \E y \in identity' : y.by \in {Null, v} /\ Is(y, x, x.id)
  PROVE  UploadOK(v, t)'
<1>1. \A f \in files' : f.dept # t.dept \/ f.date # t.date
  BY DEF UploadOK
<1>2. ASSUME NEW i \in Named(t.sheet.rows) \ t.todo
      PROVE  \E y \in identity' : y.by \in {Null, v} /\ Is(y, Wanted(t, i), t.id[i])
  <2>1. PICK x \in identity : x.by \in {Null, v} /\ Is(x, Wanted(t, i), t.id[i])
    BY DEF UploadOK
  <2>2. PICK y \in identity' : y.by \in {Null, v} /\ Is(y, x, x.id)
    BY <2>1
  <2> QED
    BY <2>1, <2>2 DEF Is
<1>3. /\ t \in [dept : Department, date : Date, sheet : ValidSheet,
                lines : {Classify(t.sheet.rows).lines}, todo : SUBSET Named(t.sheet.rows),
                id : [DOMAIN t.sheet.rows -> Nat]]
      /\ OfLevel(t.sheet.rows, 1) \subseteq t.todo \/ OfLevel(t.sheet.rows, 0) \cap t.todo = {}
  BY DEF UploadOK
<1> QED
  BY <1>1, <1>2, <1>3 DEF UploadOK

\* The invariant holds before the first upload.
LEMMA InitSource ==
  ASSUME CInit
  PROVE  ComparisonInv
<1>1. IdentityInv
  BY DEF CInit, Init, IdentityInv
<1>2. UploadInv
  BY DEF CInit, Init, UploadInv
<1>3. FileInv
  BY DEF CInit, Init, FileInv
<1>4. TotalInv
  BY FS_EmptySet DEF CInit, Init, TotalInv
<1>5. ReportInv
  BY DEF CInit, ReportInv
<1> QED
  BY <1>1, <1>2, <1>3, <1>4, <1>5 DEF ComparisonInv

\* A new upload has the cycle for itself and all its rows before it.
LEMMA BeginKeeps ==
  ASSUME UploadInv, NEW u \in Session, NEW dept \in Department, NEW d \in Date,
         NEW sheet \in ValidSheet, Begin(u, dept, d, sheet)
  PROVE  UploadInv'
<1> DEFINE rows == sheet.rows
           L == Classify(rows).lines
           D == OfLevel(rows, 0) \cup OfLevel(rows, 1)
           I == [i \in DOMAIN rows |-> 0]
<1>1. PICK r : r = [dept |-> dept, date |-> d, sheet |-> sheet, lines |-> L, todo |-> D, id |-> I]
  OBVIOUS
<1>2. upload' = [upload EXCEPT ![u] = r] /\ UNCHANGED <<identity, files>>
  BY <1>1 DEF Begin
<1>3. DOMAIN upload = Session /\ DOMAIN upload' = Session /\ upload'[u] = r
      /\ \A v \in Session \ {u} : upload'[v] = upload[v]
  BY <1>2 DEF UploadInv
<1>4. \A v \in Session : upload[v] # Null => upload[v].date # d
  BY DEF Begin
<1>5. r.dept = dept /\ r.date = d /\ r.sheet = sheet /\ r.lines = L /\ r.todo = D /\ r.id = I
  BY <1>1
<1>6. UploadOK(u, r)'
  <2>1. r \in [dept : Department, date : Date, sheet : ValidSheet,
               lines : {Classify(r.sheet.rows).lines}, todo : SUBSET Named(r.sheet.rows),
               id : [DOMAIN r.sheet.rows -> Nat]]
    <3> DEFINE LS == {Classify(r.sheet.rows).lines}
               TS == SUBSET Named(r.sheet.rows)
               IS == [DOMAIN r.sheet.rows -> Nat]
    <3>1. L \in LS /\ D \in TS
      BY <1>5 DEF Named
    <3>2. I \in IS
      BY <1>5
    <3> HIDE DEF LS, TS, IS, L, D, I
    <3>3. r \in [dept : Department, date : Date, sheet : ValidSheet, lines : LS, todo : TS, id : IS]
      BY <1>1, <3>1, <3>2
    <3> QED
      BY <3>3 DEF LS, TS, IS
  <2>2. \A f \in files' : f.dept # r.dept \/ f.date # r.date
    BY <1>2, <1>5 DEF Begin
  <2>3. \A v \in Session : upload'[v] # Null /\ upload'[v].date = r.date => v = u
    BY <1>3, <1>4, <1>5
  <2>4. OfLevel(r.sheet.rows, 1) \subseteq r.todo
    BY <1>5
  <2>5. Named(r.sheet.rows) \ r.todo = {}
    BY <1>5 DEF Named
  <2> QED
    BY <2>1, <2>2, <2>3, <2>4, <2>5 DEF UploadOK
<1>7. ASSUME NEW v \in Session \ {u}, upload'[v] # Null
      PROVE  \E t : t = upload'[v] /\ UploadOK(v, t)'
  <2>1. PICK t : t = upload[v]
    OBVIOUS
  <2>2. UploadOK(v, t) /\ t # Null
    BY <2>1, <1>3, <1>7 DEF UploadInv
  <2>3. \A w \in Session : upload'[w] # Null /\ upload'[w].date = t.date => w = v
    BY <2>1, <2>2, <1>3, <1>4, <1>5 DEF UploadOK
  <2>4. UploadOK(v, t)'
    BY <2>2, <2>3, <1>2, UploadFrame DEF Is
  <2> QED
    BY <2>1, <2>4, <1>3
<1> QED
  BY <1>3, <1>6, <1>7, UploadsKept

\* An upload that takes an identity in sight has it, and disturbs no other.
LEMMA TookKeeps ==
  ASSUME UploadInv, NEW u \in Session, upload[u] # Null, upload[u].todo # {},
         NEW id \in Nat, Took(u, id), identity \subseteq identity', files' = files,
         \E x \in identity' : x.by \in {Null, u} /\ Is(x, NextName(u), id)
  PROVE  UploadInv'
<1>0. PICK t : t = upload[u]
  OBVIOUS
<1>1. UploadOK(u, t) /\ t.todo # {} /\ t # Null
  BY <1>0 DEF UploadInv
<1>2. PICK r : r = Taken(t, id)
  OBVIOUS
<1>3. DOMAIN upload' = Session /\ upload'[u] = r
      /\ \A v \in Session \ {u} : upload'[v] = upload[v]
  <2>1. DOMAIN upload = Session /\ UploadOK(u, upload[u])
    BY DEF UploadInv
  <2> QED
    BY <2>1, <1>0, <1>2, TookIs
<1>4. /\ r.dept = t.dept /\ r.date = t.date /\ r.sheet = t.sheet
      /\ r \in [dept : Department, date : Date, sheet : ValidSheet,
                lines : {Classify(r.sheet.rows).lines}, todo : SUBSET Named(r.sheet.rows),
                id : [DOMAIN r.sheet.rows -> Nat]]
      /\ OfLevel(r.sheet.rows, 1) \subseteq r.todo \/ OfLevel(r.sheet.rows, 0) \cap r.todo = {}
      /\ r.id[NextRow(t)] = id /\ Wanted(r, NextRow(t)) = Wanted(t, NextRow(t))
      /\ \A i \in Named(r.sheet.rows) \ r.todo :
           i # NextRow(t) =>
             /\ i \in Named(t.sheet.rows) \ t.todo
             /\ r.id[i] = t.id[i] /\ Wanted(r, i) = Wanted(t, i)
  BY <1>1, <1>2, TakenKeeps
<1>5. \A v \in Session : upload[v] # Null /\ upload[v].date = t.date => v = u
  BY <1>1 DEF UploadOK
<1>6. UploadOK(u, r)'
  <2>1. \A f \in files' : f.dept # r.dept \/ f.date # r.date
    BY <1>1, <1>4 DEF UploadOK
  <2>2. \A v \in Session : upload'[v] # Null /\ upload'[v].date = r.date => v = u
    BY <1>3, <1>4, <1>5
  <2>3. ASSUME NEW i \in Named(r.sheet.rows) \ r.todo
        PROVE  \E x \in identity' : x.by \in {Null, u} /\ Is(x, Wanted(r, i), r.id[i])
    <3>1. CASE i = NextRow(t)
      BY <3>1, <1>0, <1>4 DEF NextName
    <3>2. CASE i # NextRow(t)
      <4>1. i \in Named(t.sheet.rows) \ t.todo /\ r.id[i] = t.id[i] /\ Wanted(r, i) = Wanted(t, i)
        BY <3>2, <1>4
      <4>2. \E x \in identity : x.by \in {Null, u} /\ Is(x, Wanted(t, i), t.id[i])
        BY <4>1, <1>1 DEF UploadOK
      <4> QED
        BY <4>1, <4>2
    <3> QED
      BY <3>1, <3>2
  <2> QED
    BY <2>1, <2>2, <2>3, <1>4 DEF UploadOK
<1>7. ASSUME NEW v \in Session \ {u}, upload'[v] # Null
      PROVE  \E s : s = upload'[v] /\ UploadOK(v, s)'
  <2>1. PICK s : s = upload[v]
    OBVIOUS
  <2>2. UploadOK(v, s) /\ s # Null
    BY <2>1, <1>3, <1>7 DEF UploadInv
  <2>3. \A w \in Session : upload[w] # Null /\ upload[w].date = s.date => w = v
    BY <2>2 DEF UploadOK
  <2>4. \A w \in Session : upload'[w] # Null /\ upload'[w].date = s.date => w = v
    BY <2>1, <2>3, <1>0, <1>1, <1>3, <1>4
  <2>5. UploadOK(v, s)'
    <3>1. \A x \in identity : x.by \in {Null, v} =>
            \E y \in identity' : y.by \in {Null, v} /\ Is(y, x, x.id)
      BY DEF Is
    <3> QED
      BY <2>2, <2>4, <3>1, UploadFrame
  <2> QED
    BY <2>1, <2>5, <1>3
<1> QED
  BY <1>3, <1>6, <1>7, UploadsKept

\* A new row is the only one of its name, and its id is new.
LEMMA InsertKeeps ==
  ASSUME IdentityInv, UploadInv, NEW u \in Session, Insert(u)
  PROVE  IdentityInv' /\ UploadInv'
<1> DEFINE n == [owner |-> NextName(u).owner, name |-> NextName(u).name, id |-> lastId + 1, by |-> u]
<1>1. /\ upload[u] # Null /\ upload[u].todo # {}
      /\ Rows(NextName(u)) = {} /\ lastId' = lastId + 1
      /\ identity' = identity \cup {n} /\ Took(u, lastId + 1) /\ files' = files
  BY DEF Insert, Working, Conflicting
<1>2. lastId \in Nat
  BY DEF IdentityInv
<1>3. NextName(u).owner \in Department \cup Nat /\ NextName(u).name \in Seq(STRING)
  <2>1. UploadOK(u, upload[u])
    BY <1>1 DEF UploadInv
  <2>2. NextRow(upload[u]) \in Named(upload[u].sheet.rows)
    BY <1>1, <2>1, NextRowIs, UploadRecord
  <2> QED
    BY <2>1, <2>2, WantedIs DEF NextName
<1>4. n.owner = NextName(u).owner /\ n.name = NextName(u).name /\ n.id = lastId + 1 /\ n.by = u
  OBVIOUS
<1>5. n \in [owner : Department \cup Nat, name : Seq(STRING), id : 1 .. lastId + 1,
             by : Session \cup {Null}]
  BY <1>2, <1>3
<1>6. IdentityInv'
  <2>1. \A x \in identity : x \in [owner : Department \cup Nat, name : Seq(STRING),
                                   id : 1 .. lastId, by : Session \cup {Null}]
    BY DEF IdentityInv
  <2>2. \A x \in identity : x.id \in 1 .. lastId
    BY <2>1
  <2>3. \A x \in identity : x \in [owner : Department \cup Nat, name : Seq(STRING),
                                   id : 1 .. lastId + 1, by : Session \cup {Null}]
    <3>1. 1 .. lastId \subseteq 1 .. lastId + 1
      BY <1>2
    <3> QED
      BY <2>1, <3>1
  <2>4. \A x \in identity : x.owner # n.owner \/ x.name # n.name
    BY <1>1, <1>4 DEF Rows
  <2>5. \A x \in identity : x.id # n.id
    BY <2>2, <1>2, <1>4
  <2>6. \A x, y \in identity : (x.owner = y.owner /\ x.name = y.name) \/ x.id = y.id => x = y
    BY DEF IdentityInv
  <2> HIDE DEF n
  <2>7. \A x, y \in identity' : (x.owner = y.owner /\ x.name = y.name) \/ x.id = y.id => x = y
    BY <1>1, <2>4, <2>5, <2>6
  <2>8. identity' \subseteq [owner : Department \cup Nat, name : Seq(STRING),
                             id : 1 .. lastId', by : Session \cup {Null}]
    BY <1>1, <1>5, <2>3
  <2> QED
    BY <1>1, <1>2, <2>7, <2>8 DEF IdentityInv
<1>7. UploadInv'
  <2>1. Is(n, NextName(u), lastId + 1) /\ n.by = u /\ n \in identity'
    BY <1>1, <1>4 DEF Is
  <2> HIDE DEF n
  <2>2. \E x \in identity' : x.by \in {Null, u} /\ Is(x, NextName(u), lastId + 1)
    BY <2>1
  <2> QED
    BY <1>1, <1>2, <2>2, TookKeeps
<1> QED
  BY <1>6, <1>7

\* A row that is read back has the name that was looked for.
LEMMA ReuseKeeps ==
  ASSUME IdentityInv, UploadInv, NEW u \in Session, Reuse(u)
  PROVE  IdentityInv' /\ UploadInv'
<1>1. /\ upload[u] # Null /\ upload[u].todo # {}
      /\ identity' = identity /\ lastId' = lastId /\ files' = files
  BY DEF Reuse, Working
<1>2. PICK x \in Rows(NextName(u)) : x.by \in {Null, u} /\ Took(u, x.id)
  BY DEF Reuse, Conflicting
<1>3. x \in identity /\ x.owner = NextName(u).owner /\ x.name = NextName(u).name
  BY DEF Rows
<1>4. x.id \in Nat
  <2>1. x \in [owner : Department \cup Nat, name : Seq(STRING), id : 1 .. lastId,
               by : Session \cup {Null}] /\ lastId \in Nat
    BY <1>3 DEF IdentityInv
  <2>2. x.id \in 1 .. lastId
    BY <2>1
  <2> QED
    BY <2>1, <2>2
<1>5. IdentityInv'
  BY <1>1 DEF IdentityInv
<1>6. \E y \in identity' : y.by \in {Null, u} /\ Is(y, NextName(u), x.id)
  BY <1>1, <1>2, <1>3 DEF Is
<1>7. UploadInv'
  BY <1>1, <1>2, <1>4, <1>6, TookKeeps
<1> QED
  BY <1>5, <1>7

\* What a rollback takes back is nobody else's.
LEMMA RollbackKeeps ==
  ASSUME IdentityInv, UploadInv, FileInv, NEW u \in Session, upload[u] # Null, Rollback(u)
  PROVE  IdentityInv' /\ UploadInv' /\ FileInv'
<1>1. /\ identity' = {x \in identity : x.by # u} /\ lastId' = lastId /\ files' = files
      /\ upload' = [upload EXCEPT ![u] = Null]
  BY DEF Rollback
<1>2. u # Null
  BY SourceAssumption
<1>3. IdentityInv'
  BY <1>1 DEF IdentityInv
<1>4. DOMAIN upload' = Session /\ upload'[u] = Null
      /\ \A v \in Session \ {u} : upload'[v] = upload[v]
  BY <1>1 DEF UploadInv
<1>5. ASSUME NEW v \in Session, upload'[v] # Null
      PROVE  \E s : s = upload'[v] /\ UploadOK(v, s)'
  <2>1. PICK s : s = upload[v]
    OBVIOUS
  <2>2. UploadOK(v, s) /\ s # Null /\ v # u
    BY <2>1, <1>4, <1>5 DEF UploadInv
  <2>3. \A w \in Session : upload[w] # Null /\ upload[w].date = s.date => w = v
    BY <2>2 DEF UploadOK
  <2>4. \A w \in Session : upload'[w] # Null /\ upload'[w].date = s.date => w = v
    BY <2>3, <1>4
  <2>5. \A x \in identity : x.by \in {Null, v} =>
          \E y \in identity' : y.by \in {Null, v} /\ Is(y, x, x.id)
    BY <2>2, <1>1, <1>2 DEF Is
  <2>6. UploadOK(v, s)'
    BY <2>2, <2>4, <2>5, <1>1, UploadFrame
  <2> QED
    BY <2>1, <2>2, <2>6, <1>4
<1>6. UploadInv'
  BY <1>4, <1>5, UploadsKept
<1>7. ASSUME NEW f \in files, NEW p \in f.positions
      PROVE  Filed(f, p)'
  <2>1. Filed(f, p)
    BY DEF FileInv
  <2>2. \A x \in identity : x.by = Null => x \in identity'
    BY <1>1, <1>2
  <2> QED
    BY <2>1, <2>2 DEF Filed
<1>8. FileInv'
  BY <1>1, <1>7 DEF FileInv
<1> QED
  BY <1>3, <1>6, <1>8

-----------------------------------------------------------------------------
(* The invariant: saving a file                                             *)

\* The position of a line.
PositionOf(t, x) ==
  [dept |-> t.dept, row |-> x.row, level |-> x.level, cell |-> x.cell,
   group |-> t.id[x.group], partner |-> t.id[x.partner], key |-> Keys(t)[x.row]]

\* Where the line of an upload stands.
LEMMA LineStands ==
  ASSUME NEW u \in Session, NEW t, UploadOK(u, t), NEW x \in t.lines
  PROVE  LET rows == t.sheet.rows
         IN /\ x.row \in DOMAIN rows /\ x.row \in Nat /\ x.level \in 1 .. 4 /\ x.cell \in Cells
            /\ x.name = rows[x.row].name /\ x.level = rows[x.row].level
            /\ x.group = Above(rows, x.row, 0) /\ x.group # 0 /\ x.group \in OfLevel(rows, 0)
            /\ x.partner = Above(rows, x.row, 1) /\ x.partner \in OfLevel(rows, 1)
            /\ ParentOK(rows, t.lines, x)
<1> DEFINE rows == t.sheet.rows
           N == Len(rows)
<1>1. /\ DOMAIN rows = 1 .. N /\ N \in Nat
      /\ ReadOK(rows, N, Classify(rows)) /\ t.lines = Classify(rows).lines
  BY UploadIsRead
<1> HIDE DEF rows, N
<1>2. LineOK(rows, N, x) /\ ParentOK(rows, t.lines, x)
  BY <1>1 DEF ReadOK
<1>3. x.row \in 1 .. N /\ x.level \in 1 .. 4 /\ x.cell \in Cells
      /\ x.group \in Nat \ {0} /\ x.partner \in Nat \ {0}
  BY <1>2 DEF LineOK
<1>4. /\ x.name = rows[x.row].name /\ x.level = rows[x.row].level
      /\ x.group = Above(rows, x.row, 0) /\ x.partner = Above(rows, x.row, 1)
  BY <1>2 DEF LineOK
<1>5. x.row \in Nat
  BY <1>1, <1>3
<1>6. x.group \in 1 .. N /\ rows[x.group].level = 0
      /\ x.partner \in 1 .. N /\ rows[x.partner].level = 1
  <2>1. IsAbove(rows, x.row, 0, x.group) /\ IsAbove(rows, x.row, 1, x.partner)
    BY <1>4, <1>5, AboveIs
  <2>2. x.group \in 0 .. x.row /\ x.partner \in 0 .. x.row
        /\ rows[x.group].level = 0 /\ rows[x.partner].level = 1
    BY <2>1, <1>3 DEF IsAbove
  <2> QED
    BY <2>2, <1>1, <1>3
<1>7. x.group \in OfLevel(rows, 0) /\ x.partner \in OfLevel(rows, 1)
  BY <1>1, <1>6 DEF OfLevel
<1>8. x.row \in DOMAIN rows
  BY <1>1, <1>3
<1>9. x.group # 0
  BY <1>3
<1> QED
  BY <1>2, <1>3, <1>4, <1>5, <1>7, <1>8, <1>9 DEF rows

\* The position of a line is one.
LEMMA PositionIs ==
  ASSUME NEW u \in Session, NEW t, UploadOK(u, t), NEW x \in t.lines
  PROVE  PositionOf(t, x) \in Position
<1>1. x.row \in Nat /\ x.level \in 1 .. 4 /\ x.cell \in Cells
      /\ x.group \in OfLevel(t.sheet.rows, 0) /\ x.partner \in OfLevel(t.sheet.rows, 1)
  BY LineStands
<1>2. t.dept \in Department /\ t.id \in [DOMAIN t.sheet.rows -> Nat]
  BY UploadRecord
<1>3. t.id[x.group] \in Nat /\ t.id[x.partner] \in Nat
  BY <1>1, <1>2 DEF OfLevel
<1>4. Keys(t)[x.row] \in Nat \X Seq(Word)
  <2> DEFINE rows == t.sheet.rows
             s == Classify(rows)
             k == Keys(t)[x.row]
  <2>1. rows \in Seq(Row) /\ ReadOK(rows, Len(rows), s) /\ t.lines = s.lines
    BY UploadIsRead
  <2>2. /\ x.level = 1 => k = <<t.id[x.partner], <<>>>>
        /\ x.level # 1 => k = <<t.id[x.partner],
                                Keys(t)[x.parent][2] \o <<Mark[x.level]>> \o Normal[x.name]>>
        /\ k[1] = t.id[x.partner] /\ k[2] \in Seq(Word)
    <3> HIDE DEF rows, s
    <3> QED
      BY <2>1, KeysRecursion
  <2> HIDE DEF k
  <2>3. k = <<k[1], k[2]>>
    <3>1. \E a, b : k = <<a, b>>
      BY <2>2
    <3>2. PICK a, b : k = <<a, b>>
      BY <3>1
    <3>3. k[1] = a /\ k[2] = b
      BY <3>2
    <3> QED
      BY <3>2, <3>3
  <2>4. k \in Nat \X Seq(Word)
    BY <2>2, <2>3, <1>3
  <2> QED
    BY <2>4 DEF k
<1> DEFINE g == t.id[x.group]
           q == t.id[x.partner]
           k == Keys(t)[x.row]
<1> HIDE DEF g, q, k
<1>5. [dept |-> t.dept, row |-> x.row, level |-> x.level, cell |-> x.cell,
       group |-> g, partner |-> q, key |-> k] \in Position
  BY <1>1, <1>2, <1>3, <1>4 DEF Position, g, q, k
<1> QED
  BY <1>5 DEF PositionOf, g, q, k

\* What an upload that has been through its rows saves is filed under what it found.
LEMMA SavedIsFiled ==
  ASSUME NEW u \in Session, NEW t, UploadOK(u, t), t.todo = {}, NEW f, f = Saved(t),
         \A x \in identity : x.by \in {Null, u} =>
           \E y \in identity' : y.by = Null /\ Is(y, x, x.id)
  PROVE  /\ f.dept = t.dept /\ f.date = t.date /\ f.rows = t.sheet.rows
         /\ \A p \in f.positions : Filed(f, p)'
         /\ \A p, q \in f.positions : p.row = q.row => p = q
<1> DEFINE rows == t.sheet.rows
           s == Classify(rows)
<1>1. /\ f.dept = t.dept /\ f.date = t.date /\ f.rows = rows
      /\ f.positions = {PositionOf(t, x) : x \in t.lines}
  BY DEF Saved, PositionOf
<1>2. rows \in Seq(Row) /\ ReadOK(rows, Len(rows), s) /\ t.lines = s.lines
  BY UploadIsRead
<1> HIDE DEF rows, s
<1>3. \A x \in t.lines :
        /\ PositionOf(t, x).dept = t.dept /\ PositionOf(t, x).row = x.row
        /\ PositionOf(t, x).level = x.level /\ PositionOf(t, x).cell = x.cell
        /\ PositionOf(t, x).group = t.id[x.group] /\ PositionOf(t, x).partner = t.id[x.partner]
        /\ PositionOf(t, x).key = Keys(t)[x.row]
  BY DEF PositionOf
<1>4. \A p, q \in f.positions : p.row = q.row => p = q
  <2>1. \A x, y \in t.lines : x.row = y.row => x = y
    BY <1>2 DEF ReadOK
  <2> QED
    BY <2>1, <1>1, <1>3
<1>5. ASSUME NEW i \in Named(rows)
      PROVE  \E y \in identity' : y.by = Null /\ Is(y, Wanted(t, i), t.id[i])
  <2>1. i \in Named(t.sheet.rows) \ t.todo
    BY DEF rows
  <2>2. PICK x \in identity : x.by \in {Null, u} /\ Is(x, Wanted(t, i), t.id[i])
    BY <2>1 DEF UploadOK
  <2>3. PICK y \in identity' : y.by = Null /\ Is(y, x, x.id)
    BY <2>2
  <2> QED
    BY <2>2, <2>3 DEF Is
<1>6. ASSUME NEW x \in t.lines  PROVE Filed(f, PositionOf(t, x))'
  <2>1. PICK p : p = PositionOf(t, x)
    OBVIOUS
  <2>2. p \in Position
    BY <2>1, PositionIs
  <2>3. /\ x.row \in DOMAIN rows /\ x.level \in 1 .. 4
        /\ x.name = rows[x.row].name /\ x.level = rows[x.row].level
        /\ x.group = Above(rows, x.row, 0) /\ x.group # 0 /\ x.group \in OfLevel(rows, 0)
        /\ x.partner = Above(rows, x.row, 1) /\ x.partner \in OfLevel(rows, 1)
        /\ ParentOK(rows, t.lines, x)
    BY LineStands DEF rows
  <2>4. /\ p.dept = f.dept /\ p.row = x.row /\ p.level = x.level
        /\ p.group = t.id[x.group] /\ p.partner = t.id[x.partner] /\ p.key = Keys(t)[x.row]
    BY <2>1, <1>1, <1>3
  <2>5. /\ x.level = 1 => Keys(t)[x.row] = <<t.id[x.partner], <<>>>>
        /\ x.level # 1 =>
             Keys(t)[x.row] = <<t.id[x.partner],
                                Keys(t)[x.parent][2] \o <<Mark[x.level]>> \o Normal[x.name]>>
    BY <1>2, KeysRecursion
  <2>6. CASE x.level = 1
    <3>1. p.key = <<p.partner, <<>>>>
      BY <2>4, <2>5, <2>6
    <3>2. x.row \in OfLevel(rows, 1) /\ x.row \in Named(rows) /\ x.group \in Named(rows)
      BY <2>3, <2>6 DEF OfLevel, Named
    <3>3. x.partner = x.row
      <4>1. x.row \in Nat \ {0}
        <5>1. DOMAIN rows = 1 .. Len(rows)
          BY <1>2, LenProperties
        <5> QED
          BY <5>1, <2>3
      <4> QED
        <5>1. Above(rows, x.row, 1) =
                IF rows[x.row].level = 1 THEN x.row ELSE Above(rows, x.row - 1, 1)
          BY <4>1, AboveStep
        <5>2. rows[x.row].level = 1
          BY <2>3, <2>6
        <5> QED
          BY <5>1, <5>2, <2>3
    <3>4. PICK y \in identity' : y.by = Null /\ Is(y, Wanted(t, x.group), t.id[x.group])
      BY <3>2, <1>5
    <3>5. PICK z \in identity' : z.by = Null /\ Is(z, Wanted(t, x.row), t.id[x.row])
      BY <3>2, <1>5
    <3>6. /\ Wanted(t, x.group).owner = t.dept
          /\ Wanted(t, x.group).name = Normal[rows[x.group].name]
          /\ Wanted(t, x.row).owner = t.id[Above(rows, x.row, 0)]
          /\ Wanted(t, x.row).name = Normal[rows[x.row].name]
      BY <3>2, <2>3, WantedIs DEF rows
    <3>7. NameAbove(f, p, 0) = Normal[rows[x.group].name]
          /\ NameAbove(f, p, 1) = Normal[rows[x.row].name]
      BY <1>1, <2>3, <2>4, <3>3 DEF NameAbove
    <3>8. Is(y, [owner |-> f.dept, name |-> NameAbove(f, p, 0)], p.group)
      BY <3>4, <3>6, <3>7, <1>1, <2>4 DEF Is
    <3>9. Is(z, [owner |-> p.group, name |-> NameAbove(f, p, 1)], p.partner)
      BY <3>3, <3>5, <3>6, <3>7, <2>3, <2>4 DEF Is
    <3>10. Above(f.rows, p.row, 0) # 0
      BY <1>1, <2>3, <2>4
    <3>11. Filed(f, p)'
      BY <3>1, <3>4, <3>5, <3>8, <3>9, <3>10, <2>2, <2>3, <2>4, <2>6, <1>1 DEF Filed
    <3> QED
      BY <3>11, <2>1 DEF Filed
  <2>7. CASE x.level # 1
    <3>1. PICK y \in t.lines :
            /\ y.row = x.parent /\ y.level = x.level - 1
            /\ \A l \in 0 .. y.level : Above(rows, y.row, l) = Above(rows, x.row, l)
      BY <2>3, <2>7 DEF ParentOK
    <3>2. PICK q : q = PositionOf(t, y)
      OBVIOUS
    <3>3. /\ q \in f.positions /\ q.row = y.row /\ q.level = y.level
          /\ q.group = t.id[y.group] /\ q.partner = t.id[y.partner] /\ q.key = Keys(t)[y.row]
      BY <3>2, <1>1, <1>3
    <3>4. y.group = Above(rows, y.row, 0) /\ y.partner = Above(rows, y.row, 1) /\ y.level \in 1 .. 4
      BY LineStands DEF rows
    <3>5. y.group = x.group /\ y.partner = x.partner
      BY <3>1, <3>4, <2>3
    <3>6. q.level = p.level - 1 /\ q.group = p.group /\ q.partner = p.partner
      BY <3>1, <3>3, <3>5, <2>4
    <3>7. \A l \in 0 .. q.level : Above(f.rows, q.row, l) = Above(f.rows, p.row, l)
      BY <3>1, <3>3, <2>4, <1>1
    <3>8. p.key = <<p.partner, q.key[2] \o <<Mark[p.level]>> \o Normal[f.rows[p.row].name]>>
      BY <2>3, <2>4, <2>5, <2>7, <3>1, <3>3, <1>1
    <3>9. Filed(f, p)'
      BY <3>3, <3>6, <3>7, <3>8, <2>2, <2>3, <2>4, <2>7, <1>1 DEF Filed
    <3> QED
      BY <3>9, <2>1 DEF Filed
  <2> QED
    BY <2>6, <2>7
<1>7. \A p \in f.positions : Filed(f, p)'
  <2> TAKE p \in f.positions
  <2>1. PICK x \in t.lines : p = PositionOf(t, x)
    BY <1>1
  <2> QED
    BY <2>1, <1>6 DEF Filed
<1> QED
  BY <1>1, <1>4, <1>7 DEF rows

\* A commit turns the upload into a file and its rows into everybody's.
LEMMA CommitKeeps ==
  ASSUME IdentityInv, UploadInv, FileInv, NEW u \in Session, Commit(u)
  PROVE  IdentityInv' /\ UploadInv' /\ FileInv'
<1>0. PICK t : t = upload[u]
  OBVIOUS
<1> DEFINE Public(x) == IF x.by = u THEN [x EXCEPT !.by = Null] ELSE x
<1>1. /\ UploadOK(u, t) /\ t.todo = {} /\ t # Null
      /\ files' = files \cup {Saved(t)} /\ lastId' = lastId
      /\ identity' = {Public(x) : x \in identity}
      /\ upload' = [upload EXCEPT ![u] = Null]
  BY <1>0 DEF Commit, UploadInv
<1>2. u # Null
  BY SourceAssumption
<1>3. ASSUME NEW x \in identity
      PROVE  /\ Public(x) \in [owner : Department \cup Nat, name : Seq(STRING), id : 1 .. lastId,
                               by : Session \cup {Null}]
             /\ Is(Public(x), x, x.id) /\ Public(x).by = IF x.by = u THEN Null ELSE x.by
             /\ Public(x) = [owner |-> x.owner, name |-> x.name, id |-> x.id,
                             by |-> IF x.by = u THEN Null ELSE x.by]
             /\ x = [owner |-> x.owner, name |-> x.name, id |-> x.id, by |-> x.by]
  <2>1. x \in [owner : Department \cup Nat, name : Seq(STRING), id : 1 .. lastId,
               by : Session \cup {Null}]
    BY DEF IdentityInv
  <2>2. CASE x.by = u
    BY <2>1, <2>2 DEF Is
  <2>3. CASE x.by # u
    BY <2>1, <2>3 DEF Is
  <2> QED
    BY <2>2, <2>3
<1> HIDE DEF Public
<1>4. IdentityInv'
  <2>1. \A x, y \in identity : (x.owner = y.owner /\ x.name = y.name) \/ x.id = y.id => x = y
    BY DEF IdentityInv
  <2>2. \A x, y \in identity' : (x.owner = y.owner /\ x.name = y.name) \/ x.id = y.id => x = y
    BY <2>1, <1>1, <1>3 DEF Is
  <2>3. identity' \subseteq [owner : Department \cup Nat, name : Seq(STRING), id : 1 .. lastId,
                             by : Session \cup {Null}]
    BY <1>1, <1>3
  <2>4. lastId \in Nat
    BY DEF IdentityInv
  <2> QED
    BY <2>2, <2>3, <2>4, <1>1 DEF IdentityInv
<1>5. \A x \in identity : x.by \in {Null, u} => \E y \in identity' : y.by = Null /\ Is(y, x, x.id)
  BY <1>1, <1>3
<1>6. PICK s : s = Saved(t)
  OBVIOUS
<1>7. /\ s.dept = t.dept /\ s.date = t.date /\ s.rows = t.sheet.rows
      /\ \A p \in s.positions : Filed(s, p)'
      /\ \A p, q \in s.positions : p.row = q.row => p = q
  BY <1>1, <1>5, <1>6, SavedIsFiled
<1>8. \A f \in files : f.dept # t.dept \/ f.date # t.date
  BY <1>1 DEF UploadOK
<1>9. FileInv'
  <2>1. ASSUME NEW f \in files', NEW p \in f.positions  PROVE Filed(f, p)'
    <3>1. CASE f \in files
      <4>1. Filed(f, p)
        BY <3>1 DEF FileInv
      <4>2. \A x \in identity : x.by = Null =>
              \E y \in identity' : y.by = Null /\ y.owner = x.owner /\ y.name = x.name /\ y.id = x.id
        BY <1>5 DEF Is
      <4>3. CASE p.level = 1
        <5>1. PICK x, y \in identity :
                /\ x.by = Null /\ x.owner = f.dept /\ x.name = NameAbove(f, p, 0) /\ x.id = p.group
                /\ y.by = Null /\ y.owner = p.group /\ y.name = NameAbove(f, p, 1) /\ y.id = p.partner
          BY <4>1, <4>3 DEF Filed, Is
        <5>2. PICK v \in identity' :
                v.by = Null /\ v.owner = f.dept /\ v.name = NameAbove(f, p, 0) /\ v.id = p.group
          BY <4>2, <5>1
        <5>3. PICK w \in identity' :
                w.by = Null /\ w.owner = p.group /\ w.name = NameAbove(f, p, 1) /\ w.id = p.partner
          BY <4>2, <5>1
        <5> QED
          BY <4>1, <4>3, <5>2, <5>3 DEF Filed, Is
      <4>4. CASE p.level # 1
        BY <4>1, <4>4 DEF Filed
      <4> QED
        BY <4>3, <4>4
    <3>2. CASE f = s
      BY <3>2, <1>7
    <3> QED
      BY <3>1, <3>2, <1>1, <1>6
  <2>2. ASSUME NEW f \in files'
        PROVE  /\ f.dept \in Department /\ f.date \in Date /\ f.rows \in Seq(Row)
               /\ \A p, q \in f.positions : p.row = q.row => p = q
    <3>1. CASE f \in files
      BY <3>1 DEF FileInv
    <3>2. CASE f = s
      BY <3>2, <1>1, <1>7, UploadRecord, UploadIsRead
    <3> QED
      BY <3>1, <3>2, <1>1, <1>6
  <2>3. \A f, g \in files' : f.dept = g.dept /\ f.date = g.date => f = g
    <3>1. \A f, g \in files : f.dept = g.dept /\ f.date = g.date => f = g
      BY DEF FileInv
    <3> QED
      BY <3>1, <1>1, <1>6, <1>7, <1>8
  <2> QED
    BY <2>1, <2>2, <2>3 DEF FileInv
<1>10. DOMAIN upload' = Session /\ upload'[u] = Null
       /\ \A v \in Session \ {u} : upload'[v] = upload[v]
  BY <1>1 DEF UploadInv
<1>11. ASSUME NEW v \in Session, upload'[v] # Null
       PROVE  \E r : r = upload'[v] /\ UploadOK(v, r)'
  <2>1. PICK r : r = upload[v]
    OBVIOUS
  <2>2. UploadOK(v, r) /\ r # Null /\ v # u
    BY <2>1, <1>10, <1>11 DEF UploadInv
  <2>3. \A w \in Session : upload[w] # Null /\ upload[w].date = r.date => w = v
    BY <2>2 DEF UploadOK
  <2>4. \A w \in Session : upload'[w] # Null /\ upload'[w].date = r.date => w = v
    BY <2>3, <1>10
  <2>5. t.date # r.date
    BY <2>2, <2>3, <1>0, <1>1
  <2>6. \A x \in identity : x.by \in {Null, v} =>
          \E y \in identity' : y.by \in {Null, v} /\ Is(y, x, x.id)
    BY <2>2, <1>1, <1>3
  <2>7. \A f \in files' : f \in files \/ f.dept # r.dept \/ f.date # r.date
    BY <2>5, <1>1, <1>6, <1>7
  <2>8. UploadOK(v, r)'
    BY <2>2, <2>4, <2>6, <2>7, UploadFrame
  <2> QED
    BY <2>1, <2>2, <2>8, <1>10
<1>12. UploadInv'
  BY <1>10, <1>11, UploadsKept
<1> QED
  BY <1>4, <1>9, <1>12

-----------------------------------------------------------------------------
(* The invariant: totals                                                    *)

\* A set of rows that a sheet's rows tell apart is finite.
LEMMA FiniteByRow ==
  ASSUME NEW S, NEW n \in Nat, \A x \in S : x.row \in 1 .. n,
         \A x, y \in S : x.row = y.row => x = y
  PROVE  IsFiniteSet(S)
<1> DEFINE b == [x \in S |-> x.row]
<1>1. b \in Injection(S, 1 .. n)
  BY DEF Injection, IsInjective
<1>2. IsFiniteSet(1 .. n)
  BY FS_Interval
<1> HIDE DEF b
<1> QED
  BY <1>1, <1>2, FS_Injection

\* The model's sums of cells are sums of a function.
LEMMA CellSum ==
  ASSUME NEW S, NEW m, NEW f, \A x \in S : f[x] = Zero(x.cell[m])
  PROVE  MapThenSumSet(LAMBDA x : Zero(x.cell[m]), S) = SumOf(f, S)
<1> DEFINE I(h) == h = [s \in SUBSET S |-> IF s = {} THEN 0
                                           ELSE Zero(Some(s).cell[m]) + h[s \ {Some(s)}]]
<1>1. MapThenSumSet(LAMBDA x : Zero(x.cell[m]), S) = (CHOOSE h : I(h))[S]
  BY DEF MapThenSumSet, MapThenFoldSet, Some
<1>2. ASSUME NEW s \in SUBSET S, s # {}  PROVE Zero(Some(s).cell[m]) = f[Some(s)]
  BY <1>2 DEF Some
<1>3. \A h : I(h) <=> IsSums(h, f, S)
  BY <1>2 DEF IsSums
<1>4. (CHOOSE h : I(h)) = (CHOOSE h : IsSums(h, f, S))
  BY <1>3
<1> QED
  BY <1>1, <1>4, SumIsFold DEF Sums

\* A cell counts as a number.
LEMMA CellCounts ==
  ASSUME NEW c \in Cells, NEW m \in Metric
  PROVE  /\ c[m] \in Int \cup {Null} /\ Zero(c[m]) \in Int
         /\ c[m] # Null => c[m] \in Int /\ Zero(c[m]) = c[m]
BY DEF Cells, Zero

\* The lines of an upload and the positions saved for them add up to the same.
LEMMA SavedSums ==
  ASSUME NEW u \in Session, NEW t, UploadOK(u, t), NEW f, f = Saved(t), NEW m \in Metric
  PROVE  SumLevel1(f.positions, m) = SumLevel1(t.lines, m)
<1> DEFINE L == {x \in t.lines : x.level = 1}
           A == {p \in f.positions : p.level = 1}
           V == [p \in A |-> Zero(p.cell[m])]
           W == [x \in L |-> Zero(x.cell[m])]
           b == [x \in L |-> PositionOf(t, x)]
           N == Len(t.sheet.rows)
<1>1. f.positions = {PositionOf(t, x) : x \in t.lines}
  BY DEF Saved, PositionOf
<1>2. ASSUME NEW x \in t.lines
      PROVE  /\ PositionOf(t, x).row = x.row /\ PositionOf(t, x).level = x.level
             /\ PositionOf(t, x).cell = x.cell
             /\ x.row \in 1 .. N /\ x.cell \in Cells
  <2>1. x.row \in DOMAIN t.sheet.rows /\ x.cell \in Cells
    BY LineStands
  <2> QED
    BY <2>1, UploadIsRead DEF PositionOf
<1>3. \A x, y \in t.lines : x.row = y.row => x = y
  BY UploadIsRead DEF ReadOK
<1>4. N \in Nat
  BY UploadIsRead
<1> HIDE DEF N
<1>5. IsFiniteSet(L)
  BY <1>2, <1>3, <1>4, FiniteByRow
<1>6. IsFiniteSet(A)
  <2>1. \A p \in A : p.row \in 1 .. N
    BY <1>1, <1>2
  <2>2. \A p, q \in A : p.row = q.row => p = q
    BY <1>1, <1>2, <1>3
  <2> HIDE DEF A
  <2> QED
    BY <2>1, <2>2, <1>4, FiniteByRow
<1>7. ASSUME NEW x \in L  PROVE b[x] \in A /\ W[x] \in Int /\ W[x] = V[b[x]]
  <2>1. PositionOf(t, x) \in A
    BY <1>1, <1>2
  <2>2. Zero(x.cell[m]) \in Int
    BY <1>2, CellCounts
  <2> QED
    BY <2>1, <2>2, <1>2
<1>8. ASSUME NEW p \in A  PROVE V[p] = SumOf(W, Fibre(b, L, p))
  <2>1. PICK y \in t.lines : p = PositionOf(t, y)
    BY <1>1
  <2>2. y \in L
    BY <2>1, <1>2
  <2>3. Fibre(b, L, p) = {y}
    BY <2>1, <2>2, <1>2, <1>3 DEF Fibre
  <2>4. W[y] \in Int /\ W[y] = V[p]
    BY <2>1, <2>2, <1>7
  <2> HIDE DEF W, V, L, A, b
  <2> QED
    BY <2>3, <2>4, SumOne
<1>9. SumOf(W, L) = SumOf(V, A)
  <2>1. \A x \in L : b[x] \in A /\ W[x] \in Int
    BY <1>7
  <2>2. \A p \in A : V[p] = SumOf(W, Fibre(b, L, p))
    BY <1>8
  <2> HIDE DEF W, V, L, A, b
  <2> QED
    BY <2>1, <2>2, <1>5, <1>6, SumFibres
<1>10. SumLevel1(f.positions, m) = SumOf(V, A)
  <2>1. \A p \in A : V[p] = Zero(p.cell[m])
    OBVIOUS
  <2>2. MapThenSumSet(LAMBDA x : Zero(x.cell[m]), A) = SumOf(V, A)
    <3> HIDE DEF V, A
    <3> QED
      BY <2>1, CellSum
  <2> QED
    BY <2>2 DEF SumLevel1
<1>11. SumLevel1(t.lines, m) = SumOf(W, L)
  <2>1. \A x \in L : W[x] = Zero(x.cell[m])
    OBVIOUS
  <2>2. MapThenSumSet(LAMBDA x : Zero(x.cell[m]), L) = SumOf(W, L)
    <3> HIDE DEF W, L
    <3> QED
      BY <2>1, CellSum
  <2> QED
    BY <2>2 DEF SumLevel1
<1> QED
  BY <1>9, <1>10, <1>11

\* What an upload saves was reconciled when its sheet was accepted.
LEMMA SavedTotal ==
  ASSUME NEW u \in Session, NEW t, UploadOK(u, t), NEW f, f = Saved(t)
  PROVE  f.total \in Cells /\ Reconciled(f.positions, f.total)
<1>1. f.total = t.sheet.total
  BY DEF Saved
<1>2. t.sheet \in ValidSheet /\ t.lines = Classify(t.sheet.rows).lines
  BY UploadIsRead
<1>3. t.sheet \in Sheet /\ t.sheet.total # BadCell /\ Reconciled(t.lines, t.sheet.total)
  BY <1>2 DEF ValidSheet, Valid
<1>4. f.total \in Cells
  BY <1>1, <1>3, SourceAssumption
<1>5. Reconciled(f.positions, f.total)
  BY <1>1, <1>3, SavedSums DEF Reconciled
<1> QED
  BY <1>4, <1>5

\* A commit adds one file, with its own total.
LEMMA CommitTotals ==
  ASSUME UploadInv, TotalInv, NEW u \in Session, Commit(u)
  PROVE  TotalInv'
<1>1. PICK t, f : t = upload[u] /\ f = Saved(t)
  OBVIOUS
<1>2. UploadOK(u, t) /\ files' = files \cup {f}
  BY <1>1 DEF Commit, UploadInv
<1>3. f.total \in Cells /\ Reconciled(f.positions, f.total)
  BY <1>1, <1>2, SavedTotal
<1>4. IsFiniteSet(files')
  BY <1>2, FS_AddElement DEF TotalInv
<1> QED
  BY <1>2, <1>3, <1>4 DEF TotalInv

-----------------------------------------------------------------------------
(* The invariant: reports                                                   *)

\* A report depends on the files of its two dates only.
LEMMA ReportSame ==
  ASSUME NEW d, NEW before, FilesOf(d)' = FilesOf(d),
         before # Null => FilesOf(before)' = FilesOf(before)
  PROVE  ReportOf(d, before)' = ReportOf(d, before)
<1>1. Positions(d)' = Positions(d)
  BY DEF Positions
<1>2. before # Null => Positions(before)' = Positions(before)
  BY DEF Positions
<1>3. Failures(d)' = Failures(d)
  BY <1>1 DEF Failures
<1> QED
  BY <1>1, <1>2, <1>3 DEF ReportOf

\* No file is added to a date whose departments have all sent theirs.
LEMMA CompletedStays ==
  ASSUME NEW s, s.dept \in Department, \A f \in files : f.dept # s.dept \/ f.date # s.date,
         files' = files \cup {s}, NEW d, Completed(d)
  PROVE  FilesOf(d)' = FilesOf(d) /\ Completed(d)'
<1>1. s.date # d
  <2> SUFFICES ASSUME s.date = d  PROVE FALSE
    OBVIOUS
  <2>1. s.dept \in {f.dept : f \in FilesOf(d)}
    BY DEF Completed
  <2>2. PICK f \in FilesOf(d) : f.dept = s.dept
    BY <2>1
  <2> QED
    BY <2>2 DEF FilesOf
<1>2. FilesOf(d)' = FilesOf(d)
  BY <1>1 DEF FilesOf
<1> QED
  BY <1>2 DEF Completed

\* Reports stay true while files come in.
LEMMA ReportsStand ==
  ASSUME ReportInv, report' = report,
         \A d \in Date : Completed(d) => FilesOf(d)' = FilesOf(d) /\ Completed(d)'
  PROVE  ReportInv'
<1>1. DOMAIN report = Date
  BY DEF ReportInv
<1>2. ASSUME NEW d \in Date, report[d] # Null
      PROVE  /\ Completed(d)'
             /\ report[d].previous # Null => report[d].previous \in Earlier(d)'
             /\ report[d] = ReportOf(d, report[d].previous)'
  <2>1. PICK r, before : r = report[d] /\ before = r.previous
    OBVIOUS
  <2>2. Completed(d) /\ (before # Null => before \in Earlier(d)) /\ r = ReportOf(d, before)
    BY <2>1, <1>2 DEF ReportInv
  <2>3. before # Null => before \in Date /\ before < d /\ Completed(before)
    BY <2>2 DEF Earlier
  <2>4. FilesOf(d)' = FilesOf(d) /\ Completed(d)'
    BY <2>2
  <2>5. before # Null => FilesOf(before)' = FilesOf(before) /\ Completed(before)'
    BY <2>3
  <2>6. ReportOf(d, before)' = ReportOf(d, before)
    BY <2>4, <2>5, ReportSame
  <2>7. before # Null => before \in Earlier(d)'
    BY <2>3, <2>5 DEF Earlier
  <2>8. report[d].previous = before /\ report[d] = r
    BY <2>1
  <2> QED
    BY <2>2, <2>4, <2>6, <2>7, <2>8
<1> QED
  BY <1>1, <1>2 DEF ReportInv

\* The report of a completed cycle is made of its files and those of the latest completed one.
LEMMA CompareKeeps ==
  ASSUME ReportInv, NEW d \in Date, Compare(d)
  PROVE  ReportInv'
<1>1. PICK before : before = IF Earlier(d) = {} THEN Null ELSE Max(Earlier(d))
  OBVIOUS
<1>2. PICK r : r = ReportOf(d, before)
  OBVIOUS
<1>3. Completed(d) /\ report' = [report EXCEPT ![d] = r] /\ files' = files
  BY <1>1, <1>2 DEF Compare, fileVars
<1>4. before # Null => before \in Earlier(d)
  <2>1. CASE Earlier(d) = {}
    BY <2>1, <1>1
  <2>2. CASE Earlier(d) # {}
    <3>1. Earlier(d) \in SUBSET Nat /\ d \in Nat /\ \A e \in Earlier(d) : e <= d
      <4>1. d \in Nat /\ \A e \in Date : e \in Nat
        BY SourceAssumption
      <4>2. \A e \in Earlier(d) : e \in Date /\ e < d
        BY DEF Earlier
      <4>3. ASSUME NEW e \in Earlier(d)  PROVE e \in Nat /\ e <= d
        <5>1. e \in Nat /\ e < d /\ d \in Nat
          BY <4>1, <4>2
        <5> QED
          BY <5>1
      <4> QED
        BY <4>1, <4>3
    <3>2. PICK m \in Earlier(d) : \A e \in Earlier(d) : e <= m
      BY <3>1, <2>2, GreatestNatural
    <3>3. \A e \in Earlier(d) : m >= e
      BY <3>1, <3>2
    <3>4. Max(Earlier(d)) \in Earlier(d)
      BY <3>3 DEF Max
    <3> QED
      BY <2>2, <3>4, <1>1
  <2> QED
    BY <2>1, <2>2
<1>5. r.previous = before
  BY <1>2 DEF ReportOf
<1>6. DOMAIN report' = Date /\ report'[d] = r /\ \A e \in Date \ {d} : report'[e] = report[e]
  BY <1>3 DEF ReportInv
<1>7. ASSUME NEW e \in Date, report'[e] # Null
      PROVE  \E b : /\ b = report'[e].previous /\ Completed(e)
                    /\ b # Null => b \in Earlier(e)
                    /\ report'[e] = ReportOf(e, b)
  <2>1. CASE e = d
    BY <2>1, <1>2, <1>3, <1>4, <1>5, <1>6
  <2>2. CASE e # d
    BY <2>2, <1>6, <1>7 DEF ReportInv
  <2> QED
    BY <2>1, <2>2
<1>8. \A e \in Date : FilesOf(e)' = FilesOf(e)
  BY <1>3 DEF FilesOf
<1>9. \A e \in Date : Completed(e)' = Completed(e)
  BY <1>8 DEF Completed
<1>10. ASSUME NEW e \in Date, report'[e] # Null
       PROVE  /\ Completed(e)'
              /\ report'[e].previous # Null => report'[e].previous \in Earlier(e)'
              /\ report'[e] = ReportOf(e, report[e].previous)'
  <2>1. PICK b : /\ b = report'[e].previous /\ Completed(e)
                 /\ b # Null => b \in Earlier(e)
                 /\ report'[e] = ReportOf(e, b)
    BY <1>7, <1>10
  <2>2. b # Null => b \in Date /\ b < e /\ Completed(b)
    BY <2>1 DEF Earlier
  <2>3. ReportOf(e, b)' = ReportOf(e, b)
    BY <2>2, <1>8, ReportSame
  <2>4. b # Null => b \in Earlier(e)'
    BY <2>2, <1>9 DEF Earlier
  <2>5. ReportOf(e, b)' = ReportOf(e, report[e].previous)'
    BY <2>1 DEF ReportOf, Positions, FilesOf, Failures
  <2> QED
    BY <2>1, <2>3, <2>4, <2>5, <1>9
<1> QED
  BY <1>6, <1>10 DEF ReportInv

\* Every step of an upload or of the comparison keeps the invariant.
LEMMA ComparisonStep ==
  ASSUME ComparisonInv, [CNext]_vars
  PROVE  ComparisonInv'
<1>0. IdentityInv /\ UploadInv /\ FileInv /\ TotalInv /\ ReportInv
  BY DEF ComparisonInv
<1>0a. ASSUME files' = files  PROVE TotalInv'
  BY <1>0, <1>0a DEF TotalInv
<1>1. ASSUME files' = files, report' = report  PROVE ReportInv'
  <2>1. \A d \in Date : FilesOf(d)' = FilesOf(d)
    BY <1>1 DEF FilesOf
  <2>2. \A d \in Date : Completed(d) => Completed(d)'
    BY <2>1 DEF Completed
  <2> QED
    BY <1>0, <1>1, <2>1, <2>2, ReportsStand
<1>2. ASSUME identity' = identity, files' = files  PROVE FileInv'
  <2>1. ASSUME NEW f \in files, NEW p \in f.positions  PROVE Filed(f, p)'
    <3>1. Filed(f, p)
      BY <1>0 DEF FileInv
    <3> QED
      BY <3>1, <1>2 DEF Filed
  <2> QED
    BY <2>1, <1>0, <1>2 DEF FileInv
<1>3. ASSUME UNCHANGED <<identity, lastId>>  PROVE IdentityInv'
  BY <1>0, <1>3 DEF IdentityInv
<1>4. ASSUME UNCHANGED fileVars  PROVE IdentityInv' /\ UploadInv' /\ FileInv'
  <2>1. UNCHANGED <<identity, lastId, files, upload>>
    BY <1>4 DEF fileVars
  <2>2. UploadInv'
    BY <1>0, <2>1 DEF UploadInv, UploadOK
  <2> QED
    BY <2>1, <2>2, <1>2, <1>3
<1>5. ASSUME NEW u \in Session, NEW dept \in Department, NEW d \in Date, NEW sheet \in ValidSheet,
             Begin(u, dept, d, sheet), report' = report
      PROVE  ComparisonInv'
  <2>1. UNCHANGED <<identity, lastId, files>>
    BY <1>5 DEF Begin
  <2>2. UploadInv'
    BY <1>0, <1>5, BeginKeeps
  <2> QED
    BY <2>1, <2>2, <1>0a, <1>1, <1>2, <1>3, <1>5 DEF ComparisonInv
<1>6. ASSUME NEW u \in Session, Insert(u), report' = report  PROVE ComparisonInv'
  <2>1. IdentityInv' /\ UploadInv'
    BY <1>0, <1>6, InsertKeeps
  <2>2. files' = files /\ identity \subseteq identity'
    BY <1>6 DEF Insert
  <2>3. FileInv'
    <3>1. ASSUME NEW f \in files, NEW p \in f.positions  PROVE Filed(f, p)'
      <4>1. Filed(f, p)
        BY <1>0 DEF FileInv
      <4> QED
        BY <4>1, <2>2 DEF Filed
    <3> QED
      BY <3>1, <2>2, <1>0 DEF FileInv
  <2> QED
    BY <2>1, <2>2, <2>3, <1>0a, <1>1, <1>6 DEF ComparisonInv
<1>7. ASSUME NEW u \in Session, Reuse(u), report' = report  PROVE ComparisonInv'
  <2>1. IdentityInv' /\ UploadInv'
    BY <1>0, <1>7, ReuseKeeps
  <2>2. files' = files /\ identity' = identity
    BY <1>7 DEF Reuse
  <2> QED
    BY <2>1, <2>2, <1>0a, <1>1, <1>2, <1>7 DEF ComparisonInv
<1>8. ASSUME NEW u \in Session, Commit(u), report' = report  PROVE ComparisonInv'
  <2>1. IdentityInv' /\ UploadInv' /\ FileInv'
    BY <1>0, <1>8, CommitKeeps
  <2>2. PICK t, s : t = upload[u] /\ s = Saved(t)
    OBVIOUS
  <2>3. UploadOK(u, t) /\ files' = files \cup {s}
    BY <2>2, <1>0, <1>8 DEF Commit, UploadInv
  <2>4. s.dept = t.dept /\ s.date = t.date
    BY <2>2 DEF Saved
  <2>5. s.dept \in Department /\ \A f \in files : f.dept # s.dept \/ f.date # s.date
    BY <2>3, <2>4 DEF UploadOK
  <2>6. \A d \in Date : Completed(d) => FilesOf(d)' = FilesOf(d) /\ Completed(d)'
    BY <2>3, <2>5, CompletedStays
  <2>7. TotalInv'
    BY <1>0, <1>8, CommitTotals
  <2> QED
    BY <2>1, <2>6, <2>7, <1>0, <1>8, ReportsStand DEF ComparisonInv
<1>9. ASSUME NEW u \in Session, upload[u] # Null, Rollback(u), report' = report
      PROVE  ComparisonInv'
  <2>1. IdentityInv' /\ UploadInv' /\ FileInv'
    BY <1>0, <1>9, RollbackKeeps
  <2>2. files' = files
    BY <1>9 DEF Rollback
  <2> QED
    BY <2>1, <2>2, <1>0a, <1>1, <1>9 DEF ComparisonInv
<1>10. ASSUME NEW d \in Date, Compare(d)  PROVE ComparisonInv'
  <2>1. ReportInv'
    BY <1>0, <1>10, CompareKeeps
  <2>2. UNCHANGED fileVars
    BY <1>10 DEF Compare
  <2>3. files' = files
    BY <2>2 DEF fileVars
  <2> QED
    BY <2>1, <2>2, <2>3, <1>0a, <1>4 DEF ComparisonInv
<1>11. CASE UNCHANGED vars
  <2>1. UNCHANGED fileVars /\ report' = report
    BY <1>11 DEF vars
  <2>2. files' = files
    BY <2>1 DEF fileVars
  <2> QED
    BY <2>1, <2>2, <1>0a, <1>1, <1>4 DEF ComparisonInv
<1>12. CASE Next /\ UNCHANGED report
  <2>1. PICK u \in Session :
          \/ \E dept \in Department, d \in Date, sheet \in ValidSheet : Begin(u, dept, d, sheet)
          \/ Insert(u) \/ Reuse(u) \/ Commit(u) \/ Deadlock(u) \/ Fail(u)
    BY <1>12 DEF Next
  <2>2. Deadlock(u) => upload[u] # Null /\ Rollback(u)
    BY DEF Deadlock, WaitsFor, Working
  <2>3. Fail(u) => upload[u] # Null /\ Rollback(u)
    BY DEF Fail
  <2> QED
    BY <2>1, <2>2, <2>3, <1>5, <1>6, <1>7, <1>8, <1>9, <1>12
<1>13. CASE \E d \in Date : Compare(d)
  BY <1>10, <1>13
<1> QED
  BY <1>11, <1>12, <1>13 DEF CNext

\* Whatever concurrent uploads do, a name has one identity, saved files refer to
\* committed identities of the names above their rows, and reports stay true of
\* the files they were made of.
THEOREM ComparisonInvariant == Spec => []ComparisonInv
<1>1. CInit => ComparisonInv
  BY InitSource
<1>2. ComparisonInv /\ [CNext]_vars => ComparisonInv'
  BY ComparisonStep
<1> QED
  BY <1>1, <1>2, PTL DEF Spec

-----------------------------------------------------------------------------
(* Keys and names                                                           *)

IsJoin(a, b, c) ==
  /\ Len(c) = Len(a) + Len(b)
  /\ \A i \in 1 .. Len(a) : c[i] = a[i]
  /\ \A j \in 1 .. Len(b) : c[Len(a) + j] = b[j]

\* Where the elements of two joined sequences are.
LEMMA Joined ==
  ASSUME NEW S, NEW a \in Seq(S), NEW b \in Seq(S)
  PROVE  a \o b \in Seq(S) /\ IsJoin(a, b, a \o b)
<1>1. Len(a) \in Nat /\ Len(b) \in Nat
  BY LenProperties
<1>2. /\ a \o b \in Seq(S) /\ Len(a \o b) = Len(a) + Len(b)
      /\ \A i \in 1 .. Len(a) + Len(b) : (a \o b)[i] = IF i <= Len(a) THEN a[i] ELSE b[i - Len(a)]
  BY ConcatProperties
<1>3. ASSUME NEW i \in 1 .. Len(a)  PROVE (a \o b)[i] = a[i]
  <2>1. i \in 1 .. Len(a) + Len(b) /\ i <= Len(a)
    BY <1>1
  <2> QED
    BY <2>1, <1>2
<1>4. ASSUME NEW j \in 1 .. Len(b)  PROVE (a \o b)[Len(a) + j] = b[j]
  <2>1. PICK i : i = Len(a) + j
    OBVIOUS
  <2>2. i \in 1 .. Len(a) + Len(b) /\ ~(i <= Len(a)) /\ i - Len(a) = j
    BY <2>1, <1>1
  <2>3. (a \o b)[i] = b[i - Len(a)]
    BY <2>2, <1>2
  <2> QED
    BY <2>1, <2>2, <2>3
<1> QED
  BY <1>2, <1>3, <1>4 DEF IsJoin

\* Where the parts of a key are: what was there before, the mark, the name.
LEMMA KeyParts ==
  ASSUME NEW a \in Seq(Word), NEW m \in Word, NEW s \in Seq(Word), NEW L, L = a \o <<m>> \o s
  PROVE  /\ Len(L) = Len(a) + 1 + Len(s)
         /\ \A i \in 1 .. Len(a) : L[i] = a[i]
         /\ L[Len(a) + 1] = m
         /\ \A j \in 1 .. Len(s) : L[Len(a) + 1 + j] = s[j]
<1>1. PICK M : M = <<m>>
  OBVIOUS
<1>2. M \in Seq(Word) /\ Len(M) = 1 /\ M[1] = m
  BY <1>1
<1>3. PICK X : X = a \o M
  OBVIOUS
<1>4. L = X \o s
  BY <1>1, <1>3
<1>5. /\ X \in Seq(Word) /\ Len(X) = Len(a) + Len(M)
      /\ \A i \in 1 .. Len(a) : X[i] = a[i]
      /\ \A j \in 1 .. Len(M) : X[Len(a) + j] = M[j]
  <2>1. a \o M \in Seq(Word) /\ IsJoin(a, M, a \o M)
    BY <1>2, Joined
  <2>2. X \in Seq(Word) /\ IsJoin(a, M, X)
    BY <2>1, <1>3
  <2> QED
    BY <2>2 DEF IsJoin
<1>6. Len(a) \in Nat /\ Len(s) \in Nat
  BY LenProperties
<1>7. Len(X) = Len(a) + 1 /\ X[Len(a) + 1] = m
  BY <1>2, <1>5
<1>8. /\ Len(L) = Len(X) + Len(s)
      /\ \A i \in 1 .. Len(X) : L[i] = X[i]
      /\ \A j \in 1 .. Len(s) : L[Len(X) + j] = s[j]
  <2>1. IsJoin(X, s, X \o s)
    BY <1>5, Joined
  <2>2. IsJoin(X, s, L)
    BY <2>1, <1>4
  <2> QED
    BY <2>2 DEF IsJoin
<1>9. Len(L) = Len(a) + 1 + Len(s) /\ \A j \in 1 .. Len(s) : L[Len(a) + 1 + j] = s[j]
  BY <1>7, <1>8
<1>10. L[Len(a) + 1] = m
  <2>1. Len(a) + 1 \in 1 .. Len(X)
    BY <1>6, <1>7
  <2> QED
    BY <2>1, <1>7, <1>8
<1>11. ASSUME NEW i \in 1 .. Len(a)  PROVE L[i] = a[i]
  <2>1. i \in 1 .. Len(X)
    BY <1>6, <1>7
  <2> QED
    BY <2>1, <1>5, <1>8
<1> QED
  BY <1>9, <1>10, <1>11

\* The last mark of a key shows where the last name begins, if no name holds a mark.
LEMMA LastMark ==
  ASSUME NEW a \in Seq(Word), NEW b \in Seq(Word), NEW s \in Seq(Word), NEW z \in Seq(Word),
         NEW m \in Range(Mark), NEW k \in Range(Mark),
         \A i \in 1 .. Len(s) : s[i] \notin Range(Mark),
         a \o <<m>> \o s = b \o <<k>> \o z
  PROVE  Len(b) <= Len(a)
<1>0. m \in Word /\ k \in Word
  BY DEF Word
<1>1. PICK L : L = a \o <<m>> \o s
  OBVIOUS
<1>2. L = b \o <<k>> \o z
  BY <1>1
<1>3. Len(L) = Len(a) + 1 + Len(s) /\ \A j \in 1 .. Len(s) : L[Len(a) + 1 + j] = s[j]
  BY <1>0, <1>1, KeyParts
<1>4. Len(L) = Len(b) + 1 + Len(z) /\ L[Len(b) + 1] = k
  BY <1>0, <1>2, KeyParts
<1>5. Len(a) \in Nat /\ Len(b) \in Nat /\ Len(s) \in Nat /\ Len(z) \in Nat
  BY LenProperties
<1>6. SUFFICES ASSUME ~(Len(b) <= Len(a))  PROVE FALSE
  OBVIOUS
<1>7. PICK j : j = Len(b) - Len(a)
  OBVIOUS
<1>8. j \in 1 .. Len(s) /\ Len(a) + 1 + j = Len(b) + 1
  BY <1>3, <1>4, <1>5, <1>6, <1>7
<1>9. s[j] = k
  BY <1>3, <1>4, <1>8
<1> QED
  BY <1>8, <1>9

Below(a, m, s) == a \o <<m>> \o s

\* So a key can be taken apart again.
LEMMA KeyApart ==
  ASSUME NEW a \in Seq(Word), NEW b \in Seq(Word), NEW s \in Seq(Word), NEW z \in Seq(Word),
         NEW m \in Range(Mark), NEW k \in Range(Mark),
         \A i \in 1 .. Len(s) : s[i] \notin Range(Mark),
         \A i \in 1 .. Len(z) : z[i] \notin Range(Mark),
         Below(a, m, s) = Below(b, k, z)
  PROVE  a = b /\ m = k /\ s = z
<1>0. m \in Word /\ k \in Word
  BY DEF Word
<1>1. PICK L : L = a \o <<m>> \o s
  OBVIOUS
<1>2. L = b \o <<k>> \o z
  BY <1>1 DEF Below
<1>3. /\ Len(L) = Len(a) + 1 + Len(s)
      /\ \A i \in 1 .. Len(a) : L[i] = a[i]
      /\ L[Len(a) + 1] = m
      /\ \A j \in 1 .. Len(s) : L[Len(a) + 1 + j] = s[j]
  BY <1>0, <1>1, KeyParts
<1>4. /\ Len(L) = Len(b) + 1 + Len(z)
      /\ \A i \in 1 .. Len(b) : L[i] = b[i]
      /\ L[Len(b) + 1] = k
      /\ \A j \in 1 .. Len(z) : L[Len(b) + 1 + j] = z[j]
  BY <1>0, <1>2, KeyParts
<1>5. Len(a) \in Nat /\ Len(b) \in Nat /\ Len(s) \in Nat /\ Len(z) \in Nat
  BY LenProperties
<1>6. Len(b) <= Len(a) /\ Len(a) <= Len(b)
  BY LastMark DEF Below
<1>7. Len(a) = Len(b) /\ Len(s) = Len(z)
  BY <1>3, <1>4, <1>5, <1>6
<1>8. a = b
  <2>1. \A i \in 1 .. Len(a) : a[i] = b[i]
    BY <1>3, <1>4, <1>7
  <2> QED
    BY <2>1, <1>7, SeqEqual
<1>9. s = z
  <2>1. \A j \in 1 .. Len(s) : s[j] = z[j]
    BY <1>3, <1>4, <1>7
  <2> QED
    BY <2>1, <1>7, SeqEqual
<1> QED
  BY <1>3, <1>4, <1>7, <1>8, <1>9

NamesOf(f, p) == {f.dept} \cup {NameAbove(f, p, l) : l \in 0 .. p.level}

\* What a path is: the department, then the names from the group down.
IsPath(f, p, a) ==
  /\ a \in Seq(NamesOf(f, p)) /\ Len(a) = p.level + 2 /\ a[1] = f.dept
  /\ \A l \in 0 .. p.level : a[l + 2] = NameAbove(f, p, l)

\* The names from the department down to a position, one by one.
LEMMA PathIs ==
  ASSUME NEW f, NEW p, p.level \in 1 .. 4
  PROVE  IsPath(f, p, PathOf(f, p))
<1>0. PICK S : S = NamesOf(f, p)
  OBVIOUS
<1>1. PICK F : F = [l \in 1 .. p.level + 1 |-> Normal[f.rows[Above(f.rows, p.row, l - 1)].name]]
  OBVIOUS
<1>2. PICK A : A = <<f.dept>>
  OBVIOUS
<1>3. PathOf(f, p) = A \o F
  BY <1>1, <1>2 DEF PathOf
<1>4. PICK n \in Nat : n = p.level + 1
  OBVIOUS
<1>5. ASSUME NEW l \in 1 .. n  PROVE l - 1 \in 0 .. p.level /\ F[l] = NameAbove(f, p, l - 1)
  BY <1>1, <1>4 DEF NameAbove
<1>6. \A l \in 1 .. n : F[l] \in S
  BY <1>0, <1>5 DEF NamesOf
<1>7. A \in Seq(S) /\ Len(A) = 1 /\ A[1] = f.dept
  BY <1>0, <1>2 DEF NamesOf
<1>8. F \in [1 .. n -> S]
  BY <1>1, <1>4, <1>6
<1>9. F \in Seq(S) /\ Len(F) = n
  <2>1. F \in Seq(S)
    BY <1>8, SeqDef
  <2>2. DOMAIN F = 1 .. n /\ DOMAIN F = 1 .. Len(F) /\ Len(F) \in Nat
    BY <1>8, <2>1, LenProperties
  <2> QED
    BY <2>1, <2>2
<1>10. A \o F \in Seq(S) /\ IsJoin(A, F, A \o F)
  BY <1>7, <1>9, Joined
<1>11. Len(A \o F) = p.level + 2 /\ (A \o F)[1] = f.dept
  <2>1. 1 \in 1 .. Len(A)
    BY <1>7
  <2>2. Len(A \o F) = Len(A) + Len(F) /\ (A \o F)[1] = A[1]
    BY <2>1, <1>10 DEF IsJoin
  <2> QED
    BY <2>2, <1>4, <1>7, <1>9
<1>12. ASSUME NEW l \in 0 .. p.level  PROVE (A \o F)[l + 2] = NameAbove(f, p, l)
  <2>1. PICK j : j = l + 1
    OBVIOUS
  <2>2. j \in 1 .. n /\ Len(A) + j = l + 2 /\ j - 1 = l
    BY <2>1, <1>4, <1>7
  <2>3. (A \o F)[Len(A) + j] = F[j]
    BY <2>2, <1>9, <1>10 DEF IsJoin
  <2> QED
    BY <2>2, <2>3, <1>5
<1> QED
  BY <1>0, <1>3, <1>10, <1>11, <1>12 DEF IsPath

\* Two positions have one path if their departments, levels and names agree.
LEMMA PathEqual ==
  ASSUME NEW f, NEW p, p.level \in 1 .. 4, NEW g, NEW q, q.level \in 1 .. 4
  PROVE  PathOf(f, p) = PathOf(g, q) <=>
           /\ f.dept = g.dept /\ p.level = q.level
           /\ \A l \in 0 .. p.level : NameAbove(f, p, l) = NameAbove(g, q, l)
<1>0. PICK a, b, S, T : /\ a = PathOf(f, p) /\ b = PathOf(g, q)
                        /\ S = NamesOf(f, p) /\ T = NamesOf(g, q)
  OBVIOUS
<1>1. /\ a \in Seq(S) /\ Len(a) = p.level + 2 /\ a[1] = f.dept
      /\ \A l \in 0 .. p.level : a[l + 2] = NameAbove(f, p, l)
  <2>1. IsPath(f, p, a)
    BY <1>0, PathIs
  <2> QED
    BY <2>1, <1>0 DEF IsPath
<1>2. /\ b \in Seq(T) /\ Len(b) = q.level + 2 /\ b[1] = g.dept
      /\ \A l \in 0 .. q.level : b[l + 2] = NameAbove(g, q, l)
  <2>1. IsPath(g, q, b)
    BY <1>0, PathIs
  <2> QED
    BY <2>1, <1>0 DEF IsPath
<1>3. ASSUME a = b
      PROVE  /\ f.dept = g.dept /\ p.level = q.level
             /\ \A l \in 0 .. p.level : NameAbove(f, p, l) = NameAbove(g, q, l)
  <2>1. f.dept = g.dept
    BY <1>1, <1>2, <1>3
  <2>2. p.level + 2 = q.level + 2
    BY <1>1, <1>2, <1>3
  <2>3. p.level = q.level
    BY <2>2
  <2>4. \A l \in 0 .. p.level : NameAbove(f, p, l) = NameAbove(g, q, l)
    BY <1>1, <1>2, <1>3, <2>3
  <2> QED
    BY <2>1, <2>3, <2>4
<1>4. ASSUME f.dept = g.dept, p.level = q.level,
             \A l \in 0 .. p.level : NameAbove(f, p, l) = NameAbove(g, q, l)
      PROVE  a = b
  <2>1. a \in Seq(S \cup T) /\ b \in Seq(S \cup T)
    BY <1>1, <1>2, SeqMonotonic
  <2>2. Len(a) = Len(b)
    BY <1>1, <1>2, <1>4
  <2>3. ASSUME NEW i \in 1 .. Len(a)  PROVE a[i] = b[i]
    <3>1. CASE i = 1
      BY <3>1, <1>1, <1>2, <1>4
    <3>2. CASE i # 1
      <4> DEFINE l == i - 2
      <4>1. l \in 0 .. p.level /\ i = l + 2
        BY <3>2, <1>1
      <4> HIDE DEF l
      <4>2. a[l + 2] = NameAbove(f, p, l) /\ b[l + 2] = NameAbove(g, q, l)
        BY <4>1, <1>1, <1>2, <1>4
      <4> QED
        BY <4>1, <4>2, <1>4
    <3> QED
      BY <3>1, <3>2
  <2> QED
    BY <2>1, <2>2, <2>3, SeqEqual
<1> QED
  BY <1>0, <1>3, <1>4

SameNames(f, p, g, q) ==
  /\ f.dept = g.dept /\ p.level = q.level
  /\ \A l \in 0 .. p.level : NameAbove(f, p, l) = NameAbove(g, q, l)

\* When keys are trusted: at level 1 always, below it for names without marks.
Trusted(f, p, g, q) == p.level = 1 \/ q.level = 1 \/ (Plain(f) /\ Plain(g))

KeyTells(f, p, g, q) == p.key = q.key <=> SameNames(f, p, g, q)

\* No two levels share a mark.
LEMMA MarksDiffer ==
  ASSUME NEW l \in 1 .. 4, NEW k \in 1 .. 4, Mark[l] = Mark[k]
  PROVE  l = k
<1>1. Mark[1] = "|1:" /\ Mark[2] = "|2:" /\ Mark[3] = "|3:" /\ Mark[4] = "|4:"
  BY DEF Mark
<1>2. l \in {1, 2, 3, 4} /\ k \in {1, 2, 3, 4}
  OBVIOUS
<1> QED
  BY <1>1, <1>2

\* The name of a position is the last of the names above it.
LEMMA OwnName ==
  ASSUME NEW f, NEW p, f.rows \in Seq(Row), p.row \in DOMAIN f.rows, p.level = f.rows[p.row].level
  PROVE  /\ Above(f.rows, p.row, p.level) = p.row
         /\ NameAbove(f, p, p.level) = Normal[f.rows[p.row].name]
         /\ Normal[f.rows[p.row].name] \in Seq(Word)
         /\ Plain(f) => \A j \in 1 .. Len(Normal[f.rows[p.row].name]) :
                          Normal[f.rows[p.row].name][j] \notin Range(Mark)
<1>1. p.row \in Nat \ {0}
  BY LenProperties
<1>2. Above(f.rows, p.row, p.level) = p.row
  BY <1>1, AboveStep
<1>3. f.rows[p.row] \in Row
  BY ElementOfSeq, LenProperties
<1>4. f.rows[p.row].name \in DOMAIN Normal
  BY <1>3 DEF Row
<1>5. PICK s : s = Normal[f.rows[p.row].name]
  OBVIOUS
<1>6. s \in Seq(Word)
  BY <1>4, <1>5, NormalIsText
<1>7. ASSUME Plain(f), NEW j \in 1 .. Len(s)  PROVE s[j] \notin Range(Mark)
  <2>1. j \in DOMAIN s
    BY <1>6, LenProperties
  <2>2. s[j] \in Range(s)
    BY <2>1 DEF Range
  <2>3. Range(s) \cap Range(Mark) = {}
    BY <1>5, <1>7 DEF Plain
  <2> QED
    BY <2>2, <2>3
<1> QED
  BY <1>2, <1>5, <1>6, <1>7 DEF NameAbove

\* A counterparty's id stands for its name, its group's name and its department.
LEMMA PartnerTells ==
  ASSUME IdentityInv, NEW f, NEW g, NEW p, NEW q, Filed(f, p), Filed(g, q),
         p.level = 1, q.level = 1
  PROVE  KeyTells(f, p, g, q)
<1>1. PICK x1, y1 \in identity :
        /\ x1.owner = f.dept /\ x1.name = NameAbove(f, p, 0) /\ x1.id = p.group
        /\ y1.owner = p.group /\ y1.name = NameAbove(f, p, 1) /\ y1.id = p.partner
  BY DEF Filed, Is
<1>2. PICK x2, y2 \in identity :
        /\ x2.owner = g.dept /\ x2.name = NameAbove(g, q, 0) /\ x2.id = q.group
        /\ y2.owner = q.group /\ y2.name = NameAbove(g, q, 1) /\ y2.id = q.partner
  BY DEF Filed, Is
<1>3. \A x, y \in identity : (x.owner = y.owner /\ x.name = y.name) \/ x.id = y.id => x = y
  BY DEF IdentityInv
<1>4. p.key = <<p.partner, <<>>>> /\ q.key = <<q.partner, <<>>>>
  BY DEF Filed
<1>5. p.key = q.key <=> p.partner = q.partner
  BY <1>4
<1>6. SameNames(f, p, g, q) <=> /\ f.dept = g.dept
                                /\ NameAbove(f, p, 0) = NameAbove(g, q, 0)
                                /\ NameAbove(f, p, 1) = NameAbove(g, q, 1)
  <2>1. \A l : l \in 0 .. 1 <=> l = 0 \/ l = 1
    OBVIOUS
  <2> QED
    BY <2>1 DEF SameNames
<1>7. ASSUME p.partner = q.partner
      PROVE  /\ f.dept = g.dept
             /\ NameAbove(f, p, 0) = NameAbove(g, q, 0)
             /\ NameAbove(f, p, 1) = NameAbove(g, q, 1)
  <2>1. y1 = y2
    BY <1>1, <1>2, <1>3, <1>7
  <2>2. p.group = q.group
    BY <2>1, <1>1, <1>2
  <2>3. x1 = x2
    BY <2>2, <1>1, <1>2, <1>3
  <2> QED
    BY <2>1, <2>3, <1>1, <1>2
<1>8. ASSUME f.dept = g.dept, NameAbove(f, p, 0) = NameAbove(g, q, 0),
             NameAbove(f, p, 1) = NameAbove(g, q, 1)
      PROVE  p.partner = q.partner
  <2>1. x1 = x2
    BY <1>1, <1>2, <1>3, <1>8
  <2>2. p.group = q.group
    BY <2>1, <1>1, <1>2
  <2>3. y1 = y2
    BY <2>2, <1>1, <1>2, <1>3, <1>8
  <2> QED
    BY <2>3, <1>1, <1>2
<1> QED
  BY <1>5, <1>6, <1>7, <1>8 DEF KeyTells

\* A key of level 1 has nothing after the id, a key below it has.
LEMMA KeyTail ==
  ASSUME NEW f, NEW p, FileInv, f \in files, p \in f.positions, p.level # 1
  PROVE  p.key[2] # <<>>
<1>1. PICK q \in f.positions :
        p.key = <<p.partner, q.key[2] \o <<Mark[p.level]>> \o Normal[f.rows[p.row].name]>>
  BY DEF FileInv, Filed
<1>2. f.rows \in Seq(Row) /\ Filed(f, p) /\ Filed(f, q)
  BY DEF FileInv
<1>3. q.key \in Nat \X Seq(Word) /\ p.level \in 1 .. 4
  BY <1>2 DEF Filed, Position
<1>4. PICK a \in Seq(Word) : a = q.key[2]
  BY <1>3
<1>5. PICK s \in Seq(Word) : s = Normal[f.rows[p.row].name]
  BY <1>2, OwnName DEF Filed
<1>6. Mark[p.level] \in Word
  BY <1>3, MarkIsWord
<1>7. Len(a \o <<Mark[p.level]>> \o s) = Len(a) + 1 + Len(s)
  BY <1>6, KeyParts
<1>8. Len(a) \in Nat /\ Len(s) \in Nat /\ Len(<<>>) = 0
  BY LenProperties
<1>9. a \o <<Mark[p.level]>> \o s # <<>>
  BY <1>7, <1>8
<1>10. p.key = <<p.partner, a \o <<Mark[p.level]>> \o s>>
  BY <1>1, <1>4, <1>5
<1> QED
  BY <1>9, <1>10

\* Every key begins with the counterparty's id.
LEMMA KeyHead ==
  ASSUME NEW f, NEW p, Filed(f, p)
  PROVE  p.key[1] = p.partner
<1>1. CASE p.level = 1
  <2>1. p.key = <<p.partner, <<>>>>
    BY <1>1 DEF Filed
  <2> QED
    BY <2>1
<1>2. CASE p.level # 1
  <2>1. PICK q \in f.positions :
          p.key = <<p.partner, Below(q.key[2], Mark[p.level], Normal[f.rows[p.row].name])>>
    BY <1>2 DEF Filed, Below
  <2> QED
    BY <2>1
<1> QED
  BY <1>1, <1>2

\* What is known of positions whose level is n.
KeysTell(n) ==
  \A f, g \in files : \A p \in f.positions, q \in g.positions :
    p.level = n /\ Trusted(f, p, g, q) => KeyTells(f, p, g, q)

\* Keys of level 1 against keys of any level.
LEMMA KeysTellFirst ==
  ASSUME IdentityInv, FileInv
  PROVE  KeysTell(1)
<1> SUFFICES ASSUME NEW f \in files, NEW g \in files, NEW p \in f.positions, NEW q \in g.positions,
                    p.level = 1
             PROVE  KeyTells(f, p, g, q)
  BY DEF KeysTell
<1>1. Filed(f, p) /\ Filed(g, q)
  BY DEF FileInv
<1>2. CASE q.level = 1
  BY <1>1, <1>2, PartnerTells
<1>3. CASE q.level # 1
  <2>1. p.key = <<p.partner, <<>>>>
    BY <1>1 DEF Filed
  <2>2. q.key[2] # <<>>
    BY <1>3, KeyTail
  <2>3. p.key # q.key
    BY <2>1, <2>2
  <2> QED
    BY <2>3, <1>3 DEF KeyTells, SameNames
<1> QED
  BY <1>2, <1>3

\* And if keys of one level tell the names apart, so do those of the next.
LEMMA KeysTellNext ==
  ASSUME IdentityInv, FileInv, NEW n \in 1 .. 3, KeysTell(1), KeysTell(n)
  PROVE  KeysTell(n + 1)
<1> SUFFICES ASSUME NEW f \in files, NEW g \in files, NEW p \in f.positions, NEW q \in g.positions,
                    p.level = n + 1, Trusted(f, p, g, q)
             PROVE  KeyTells(f, p, g, q)
  BY DEF KeysTell
<1>1. Filed(f, p) /\ Filed(g, q) /\ f.rows \in Seq(Row) /\ g.rows \in Seq(Row)
  BY DEF FileInv
<1>2. CASE q.level = 1
  <2>1. Trusted(g, q, f, p)
    BY <1>2 DEF Trusted
  <2>2. KeyTells(g, q, f, p)
    BY <2>1, <1>2 DEF KeysTell
  <2>3. q.level # p.level
    BY <1>2
  <2>4. ~SameNames(f, p, g, q) /\ ~SameNames(g, q, f, p)
    BY <2>3 DEF SameNames
  <2> QED
    BY <2>2, <2>4 DEF KeyTells
<1>3. CASE q.level # 1
  <2>0. p.level # 1 /\ Plain(f) /\ Plain(g)
    BY <1>3 DEF Trusted
  <2>1. PICK a \in f.positions :
          /\ a.level = p.level - 1 /\ a.partner = p.partner
          /\ \A l \in 0 .. a.level : Above(f.rows, a.row, l) = Above(f.rows, p.row, l)
          /\ p.key = <<p.partner, Below(a.key[2], Mark[p.level], Normal[f.rows[p.row].name])>>
    BY <1>1, <2>0 DEF Filed, Below
  <2>2. PICK b \in g.positions :
          /\ b.level = q.level - 1 /\ b.partner = q.partner
          /\ \A l \in 0 .. b.level : Above(g.rows, b.row, l) = Above(g.rows, q.row, l)
          /\ q.key = <<q.partner, Below(b.key[2], Mark[q.level], Normal[g.rows[q.row].name])>>
    BY <1>1, <1>3 DEF Filed, Below
  <2>3. Filed(f, a) /\ Filed(g, b)
    BY DEF FileInv
  <2>4. /\ a.key \in Nat \X Seq(Word) /\ b.key \in Nat \X Seq(Word)
        /\ p.level \in 1 .. 4 /\ q.level \in 1 .. 4 /\ a.level \in 1 .. 4 /\ b.level \in 1 .. 4
    BY <1>1, <2>3 DEF Filed, Position
  <2>5. KeyTells(f, a, g, b)
    <3>1. Trusted(f, a, g, b) /\ a.level = n
      BY <2>0, <2>1 DEF Trusted
    <3> QED
      BY <3>1 DEF KeysTell
  <2>6. PICK u \in Seq(Word), v \in Seq(Word) : u = a.key[2] /\ v = b.key[2]
    BY <2>4
  <2>7. PICK s \in Seq(Word), z \in Seq(Word) :
          /\ s = Normal[f.rows[p.row].name] /\ z = Normal[g.rows[q.row].name]
          /\ s = NameAbove(f, p, p.level) /\ z = NameAbove(g, q, q.level)
          /\ \A j \in 1 .. Len(s) : s[j] \notin Range(Mark)
          /\ \A j \in 1 .. Len(z) : z[j] \notin Range(Mark)
    <3>1. /\ p.row \in DOMAIN f.rows /\ p.level = f.rows[p.row].level
          /\ q.row \in DOMAIN g.rows /\ q.level = g.rows[q.row].level
      BY <1>1 DEF Filed
    <3>2. PICK s \in Seq(Word) :
            /\ s = Normal[f.rows[p.row].name] /\ s = NameAbove(f, p, p.level)
            /\ \A j \in 1 .. Len(s) : s[j] \notin Range(Mark)
      <4>1. /\ NameAbove(f, p, p.level) = Normal[f.rows[p.row].name]
            /\ Normal[f.rows[p.row].name] \in Seq(Word)
            /\ Plain(f) => \A j \in 1 .. Len(Normal[f.rows[p.row].name]) :
                             Normal[f.rows[p.row].name][j] \notin Range(Mark)
        BY <3>1, <1>1, OwnName
      <4> QED
        BY <4>1, <2>0
    <3>3. PICK z \in Seq(Word) :
            /\ z = Normal[g.rows[q.row].name] /\ z = NameAbove(g, q, q.level)
            /\ \A j \in 1 .. Len(z) : z[j] \notin Range(Mark)
      <4>1. /\ NameAbove(g, q, q.level) = Normal[g.rows[q.row].name]
            /\ Normal[g.rows[q.row].name] \in Seq(Word)
            /\ Plain(g) => \A j \in 1 .. Len(Normal[g.rows[q.row].name]) :
                             Normal[g.rows[q.row].name][j] \notin Range(Mark)
        BY <3>1, <1>1, OwnName
      <4> QED
        BY <4>1, <2>0
    <3> QED
      BY <3>2, <3>3, Zenon
  <2>8. PICK m \in Range(Mark), k \in Range(Mark) : m = Mark[p.level] /\ k = Mark[q.level]
    <3>1. DOMAIN Mark = 1 .. 4
      BY DEF Mark
    <3>2. p.level \in 1 .. 4 /\ q.level \in 1 .. 4
      BY <2>4
    <3>3. p.level \in DOMAIN Mark /\ q.level \in DOMAIN Mark
      BY <3>1, <3>2
    <3> QED
      BY <3>3 DEF Range
  <2>9. p.key = <<p.partner, Below(u, m, s)>> /\ q.key = <<q.partner, Below(v, k, z)>>
    BY <2>1, <2>2, <2>6, <2>7, <2>8
  <2>10. a.key = <<p.partner, u>> /\ b.key = <<q.partner, v>>
    <3>1. a.key[1] = a.partner /\ b.key[1] = b.partner
      BY <2>3, KeyHead
    <3> QED
      BY <3>1, <2>1, <2>2, <2>4, <2>6
  <2>11. a.level = p.level - 1 /\ b.level = q.level - 1
    BY <2>1, <2>2
  <2>12. ASSUME p.key = q.key  PROVE SameNames(f, p, g, q)
    <3>1. p.partner = q.partner /\ Below(u, m, s) = Below(v, k, z)
      BY <2>9, <2>12
    <3>2. u = v /\ m = k /\ s = z
      <4>1. /\ \A j \in 1 .. Len(s) : s[j] \notin Range(Mark)
            /\ \A j \in 1 .. Len(z) : z[j] \notin Range(Mark)
            /\ Below(u, m, s) = Below(v, k, z)
        BY <2>7, <3>1
      <4> QED
        BY <4>1, KeyApart, SMTT(20)
    <3>3. p.level = q.level
      BY <2>4, <2>8, <3>2, MarksDiffer
    <3>4. SameNames(f, a, g, b)
      BY <2>5, <2>10, <3>1, <3>2 DEF KeyTells
    <3>5. ASSUME NEW l \in 0 .. p.level  PROVE NameAbove(f, p, l) = NameAbove(g, q, l)
      <4>1. CASE l = p.level
        BY <4>1, <2>7, <3>2, <3>3
      <4>2. CASE l # p.level
        <5>1. l \in 0 .. a.level /\ l \in 0 .. b.level
          BY <4>2, <2>4, <2>11, <3>3
        <5>2. NameAbove(f, a, l) = NameAbove(g, b, l)
          BY <5>1, <3>4 DEF SameNames
        <5> QED
          BY <5>1, <5>2, <2>1, <2>2 DEF NameAbove
      <4> QED
        BY <4>1, <4>2
    <3> QED
      BY <3>3, <3>4, <3>5 DEF SameNames
  <2>13. ASSUME SameNames(f, p, g, q)  PROVE p.key = q.key
    <3>1. f.dept = g.dept /\ p.level = q.level
          /\ \A l \in 0 .. p.level : NameAbove(f, p, l) = NameAbove(g, q, l)
      BY <2>13 DEF SameNames
    <3>2. s = z /\ m = k
      <4>1. p.level \in 0 .. p.level
        BY <2>4
      <4> QED
        BY <4>1, <3>1, <2>7, <2>8
    <3>3. ASSUME NEW l \in 0 .. a.level  PROVE NameAbove(f, a, l) = NameAbove(g, b, l)
      <4>1. l \in 0 .. p.level /\ l \in 0 .. b.level
        BY <2>4, <2>11, <3>1
      <4>2. NameAbove(f, p, l) = NameAbove(g, q, l)
        BY <4>1, <3>1
      <4> QED
        BY <4>1, <4>2, <2>1, <2>2 DEF NameAbove
    <3>4. SameNames(f, a, g, b)
      BY <3>1, <3>3, <2>1, <2>2 DEF SameNames
    <3>5. a.key = b.key
      BY <3>4, <2>5 DEF KeyTells
    <3>6. p.partner = q.partner /\ u = v
      <4>1. a.key[1] = a.partner /\ b.key[1] = b.partner
        BY <2>3, KeyHead
      <4> QED
        BY <4>1, <3>5, <2>1, <2>2, <2>6
    <3>7. Below(u, m, s) = Below(v, k, z)
      BY <3>2, <3>6
    <3> QED
      BY <3>6, <3>7, <2>9
  <2> QED
    BY <2>12, <2>13 DEF KeyTells
<1> QED
  BY <1>2, <1>3

\* Two saved positions have one key exactly when the sheets name them alike.
LEMMA KeyIffPath ==
  ASSUME IdentityInv, FileInv, NEW f \in files, NEW g \in files,
         NEW p \in f.positions, NEW q \in g.positions, Trusted(f, p, g, q)
  PROVE  p.key = q.key <=> PathOf(f, p) = PathOf(g, q)
<1>1. KeysTell(1)
  BY KeysTellFirst
<1>2. KeysTell(1 + 1)
  BY <1>1, KeysTellNext
<1>3. KeysTell(2)
  BY <1>2
<1>4. KeysTell(2 + 1)
  BY <1>1, <1>3, KeysTellNext
<1>5. KeysTell(3)
  BY <1>4
<1>6. KeysTell(3 + 1)
  BY <1>1, <1>5, KeysTellNext
<1>7. KeysTell(4)
  BY <1>6
<1>8. Filed(f, p) /\ Filed(g, q)
  BY DEF FileInv
<1>9. p.level \in 1 .. 4 /\ q.level \in 1 .. 4
  BY <1>8 DEF Filed, Position
<1>10. p.level \in {1, 2, 3, 4}
  BY <1>9
<1>11. KeyTells(f, p, g, q)
  BY <1>1, <1>3, <1>5, <1>7, <1>10 DEF KeysTell
<1>12. PathOf(f, p) = PathOf(g, q) <=> SameNames(f, p, g, q)
  BY <1>9, PathEqual DEF SameNames
<1> QED
  BY <1>11, <1>12 DEF KeyTells

-----------------------------------------------------------------------------
(* Pairs                                                                    *)

\* Only finds a position exactly when there is no other.
LEMMA OnlyIs ==
  ASSUME NEW S, NEW p, p # Null
  PROVE  (~Several(S) /\ Only(S) = p) => S = {p}
<1> SUFFICES ASSUME ~Several(S), Only(S) = p  PROVE S = {p}
  OBVIOUS
<1>1. S # {} /\ p = CHOOSE q \in S : TRUE
  BY DEF Only
<1>2. p \in S
  BY <1>1
<1> QED
  BY <1>2 DEF Several

\* And what it finds is that one.
LEMMA OnlyOne ==
  ASSUME NEW p
  PROVE  ~Several({p}) /\ Only({p}) = p
<1>1. ~Several({p})
  BY DEF Several
<1>2. (CHOOSE q \in {p} : TRUE) = p
  OBVIOUS
<1> QED
  BY <1>1, <1>2 DEF Only

\* What stands on the two sides of an entity.
LEMMA EntityIs ==
  ASSUME NEW key, NEW C, NEW P
  PROVE  /\ Entity(key, C, P).current = IF Several(C) \/ Several(P) THEN Null ELSE Only(C)
         /\ Entity(key, C, P).previous = IF Several(C) \/ Several(P) THEN Null ELSE Only(P)
BY DEF Entity

\* An entity pairs two positions if both have its key and are alone with it.
LEMMA PairedByKey ==
  ASSUME NEW C, NEW P, Null \notin C, Null \notin P, NEW x \in C, NEW y \in P
  PROVE  (\E e \in Entities(C, P) : e.current = x /\ e.previous = y)
           <=> /\ x.key = y.key
               /\ \A z \in C : z.key = x.key => z = x
               /\ \A z \in P : z.key = y.key => z = y
<1>1. ASSUME NEW e \in Entities(C, P), e.current = x, e.previous = y
      PROVE  /\ x.key = y.key
             /\ \A z \in C : z.key = x.key => z = x
             /\ \A z \in P : z.key = y.key => z = y
  <2>1. PICK key : e = Entity(key, OfKey(C, key), OfKey(P, key))
    BY DEF Entities
  <2>2. PICK K, L : K = OfKey(C, key) /\ L = OfKey(P, key)
    OBVIOUS
  <2>3. /\ e.current = IF Several(K) \/ Several(L) THEN Null ELSE Only(K)
        /\ e.previous = IF Several(K) \/ Several(L) THEN Null ELSE Only(L)
    BY <2>1, <2>2, EntityIs
  <2>4. ~Several(K) /\ ~Several(L) /\ Only(K) = x /\ Only(L) = y
    BY <1>1, <2>3
  <2>5. K = {x} /\ L = {y}
    BY <2>4, OnlyIs
  <2>6. \A z : z \in K <=> z \in C /\ z.key = key
    BY <2>2 DEF OfKey
  <2>7. \A z : z \in L <=> z \in P /\ z.key = key
    BY <2>2 DEF OfKey
  <2> QED
    BY <2>5, <2>6, <2>7
<1>2. ASSUME x.key = y.key, \A z \in C : z.key = x.key => z = x,
             \A z \in P : z.key = y.key => z = y
      PROVE  \E e \in Entities(C, P) : e.current = x /\ e.previous = y
  <2>1. OfKey(C, x.key) = {x} /\ OfKey(P, x.key) = {y}
    BY <1>2 DEF OfKey
  <2>2. PICK e : e = Entity(x.key, OfKey(C, x.key), OfKey(P, x.key))
    OBVIOUS
  <2>3. e \in Entities(C, P)
    BY <2>2 DEF Entities
  <2>4. e.current = x /\ e.previous = y
    <3>1. e = Entity(x.key, {x}, {y})
      BY <2>1, <2>2
    <3>2. ~Several({x}) /\ Only({x}) = x /\ ~Several({y}) /\ Only({y}) = y
      BY OnlyOne
    <3>3. /\ e.current = IF Several({x}) \/ Several({y}) THEN Null ELSE Only({x})
          /\ e.previous = IF Several({x}) \/ Several({y}) THEN Null ELSE Only({y})
      BY <3>1, EntityIs
    <3> QED
      BY <3>2, <3>3
  <2> QED
    BY <2>3, <2>4
<1> QED
  BY <1>1, <1>2

\* A name that a date's sheets do not repeat has a key they do not repeat.
LEMMA OnceByName ==
  ASSUME IdentityInv, FileInv, NEW d, NEW f \in FilesOf(d), NEW p \in f.positions,
         p.level = 1 \/ \A g \in FilesOf(d) : Plain(g),
         NEW x, x = [path |-> PathOf(f, p), at |-> p]
  PROVE  ~Twice(Line(d), x) <=> \A z \in Positions(d) : z.key = p.key => z = p
<1>1. x.path = PathOf(f, p) /\ x.at = p
  OBVIOUS
<1>2. \A g \in FilesOf(d) : \A q \in g.positions : q.key = p.key <=> PathOf(g, q) = x.path
  <2> SUFFICES ASSUME NEW g \in FilesOf(d), NEW q \in g.positions
               PROVE  q.key = p.key <=> PathOf(g, q) = x.path
    OBVIOUS
  <2>1. f \in files /\ g \in files
    BY DEF FilesOf
  <2>2. Trusted(g, q, f, p)
    BY DEF Trusted
  <2>3. q.key = p.key <=> PathOf(g, q) = PathOf(f, p)
    BY <2>1, <2>2, KeyIffPath
  <2> QED
    BY <2>3, <1>1
<1>3. Twice(Line(d), x) <=>
        \E g \in FilesOf(d) : \E q \in g.positions : q # p /\ PathOf(g, q) = x.path
  <2>1. ASSUME NEW g \in FilesOf(d), NEW q \in g.positions, q # p, PathOf(g, q) = x.path
        PROVE  Twice(Line(d), x)
    <3>1. PICK y : y = [path |-> PathOf(g, q), at |-> q]
      OBVIOUS
    <3>2. y \in Line(d)
      BY <3>1 DEF Line
    <3>3. y.at # x.at /\ y.path = x.path
      BY <3>1, <2>1, <1>1
    <3> QED
      BY <3>2, <3>3 DEF Twice
  <2>2. ASSUME NEW y \in Line(d), y.at # x.at, y.path = x.path
        PROVE  \E g \in FilesOf(d) : \E q \in g.positions : q # p /\ PathOf(g, q) = x.path
    <3>1. PICK g \in FilesOf(d) : \E q \in g.positions : y = [path |-> PathOf(g, q), at |-> q]
      BY DEF Line
    <3>2. PICK q \in g.positions : y = [path |-> PathOf(g, q), at |-> q]
      BY <3>1
    <3>3. y.at = q /\ y.path = PathOf(g, q)
      BY <3>2
    <3> QED
      BY <3>3, <2>2, <1>1
  <2> QED
    BY <2>1, <2>2 DEF Twice
<1>4. (\A z \in Positions(d) : z.key = p.key => z = p) <=>
        \A g \in FilesOf(d) : \A q \in g.positions : q.key = p.key => q = p
  BY DEF Positions
<1> QED
  BY <1>2, <1>3, <1>4

\* The invariant makes the entities pair by name.
LEMMA PairedOK ==
  ASSUME ComparisonInv
  PROVE  PairedIffSameNames
<1>0. IdentityInv /\ FileInv /\ ReportInv
  BY DEF ComparisonInv
<1> SUFFICES ASSUME NEW d \in Date, report[d] # Null, report[d].previous # Null,
                    NEW x \in Line(d), NEW y \in Line(report[d].previous),
                    \/ \A f \in FilesOf(d) \cup FilesOf(report[d].previous) : Plain(f)
                    \/ {x.at.level, y.at.level} = {1}
             PROVE  (\E e \in report[d].entities : e.current = x.at /\ e.previous = y.at)
                      <=> /\ x.path = y.path
                          /\ ~Twice(Line(d), x) /\ ~Twice(Line(report[d].previous), y)
  BY DEF PairedIffSameNames
<1>1. PICK b : b = report[d].previous
  OBVIOUS
<1>2. report[d] = ReportOf(d, b) /\ b # Null
  BY <1>0, <1>1 DEF ReportInv
<1>3. report[d].entities = Entities(Positions(d), Positions(b))
  BY <1>2 DEF ReportOf
<1>4. PICK f \in FilesOf(d) : \E p \in f.positions : x = [path |-> PathOf(f, p), at |-> p]
  BY DEF Line
<1>5. PICK g \in FilesOf(b) : \E q \in g.positions : y = [path |-> PathOf(g, q), at |-> q]
  BY <1>1 DEF Line
<1>6. PICK p \in f.positions : x = [path |-> PathOf(f, p), at |-> p]
  BY <1>4
<1>7. PICK q \in g.positions : y = [path |-> PathOf(g, q), at |-> q]
  BY <1>5
<1>8. x.at = p /\ x.path = PathOf(f, p) /\ y.at = q /\ y.path = PathOf(g, q)
  BY <1>6, <1>7
<1>9. \A e : Null \notin Positions(e)
  <2>1. \A h \in files : \A z \in h.positions : z \in Position
    BY <1>0 DEF FileInv, Filed
  <2>2. \A e : \A z \in Positions(e) : z \in Position
    BY <2>1 DEF Positions, FilesOf
  <2> QED
    BY <2>2, SourceAssumption
<1>10. p \in Positions(d) /\ q \in Positions(b) /\ f \in files /\ g \in files
  BY DEF Positions, FilesOf
<1>11. (\E e \in report[d].entities : e.current = p /\ e.previous = q)
        <=> /\ p.key = q.key
            /\ \A z \in Positions(d) : z.key = p.key => z = p
            /\ \A z \in Positions(b) : z.key = q.key => z = q
  BY <1>3, <1>9, <1>10, PairedByKey
<1>12. \/ p.level = 1 /\ q.level = 1
       \/ (\A h \in FilesOf(d) : Plain(h)) /\ \A h \in FilesOf(b) : Plain(h)
  BY <1>1, <1>8
<1>13. ~Twice(Line(d), x) <=> \A z \in Positions(d) : z.key = p.key => z = p
  BY <1>0, <1>6, <1>12, OnceByName
<1>14. ~Twice(Line(b), y) <=> \A z \in Positions(b) : z.key = q.key => z = q
  BY <1>0, <1>7, <1>12, OnceByName
<1>15. p.key = q.key <=> x.path = y.path
  <2>1. Trusted(f, p, g, q)
    BY <1>12 DEF Trusted
  <2> QED
    BY <2>1, <1>0, <1>8, <1>10, KeyIffPath
<1> QED
  BY <1>1, <1>8, <1>11, <1>13, <1>14, <1>15

\* The entities of a report pair two positions exactly when the sheets put the
\* same names on and above both, and neither sheet repeats them.
THEOREM PairedExactlyByNames == Spec => []PairedIffSameNames
<1>1. ComparisonInv => PairedIffSameNames
  BY PairedOK
<1> QED
  BY <1>1, ComparisonInvariant, PTL

-----------------------------------------------------------------------------
(* Sums of positions                                                        *)

\* What a position counts for in a sum of metric m.
Amount(m) == [p \in Position |-> Zero(p.cell[m])]

\* A metric's sum over positions is blank if all cells are, else the sum of the amounts.
LEMMA SumMetricIs ==
  ASSUME NEW S, S \subseteq Position, IsFiniteSet(S), NEW m \in Metric
  PROVE  /\ SumOf(Amount(m), S) \in Int
         /\ SumMetric(S, m) = Null <=> \A p \in S : p.cell[m] = Null
         /\ SumMetric(S, m) # Null => SumMetric(S, m) = SumOf(Amount(m), S)
         /\ Zero(SumMetric(S, m)) = SumOf(Amount(m), S)
<1>1. ASSUME NEW p \in S
      PROVE  Amount(m)[p] = Zero(p.cell[m]) /\ Amount(m)[p] \in Int
  <2>1. p \in Position /\ p.cell \in Cells
    BY DEF Position
  <2> QED
    BY <2>1, CellCounts DEF Amount
<1>2. SumOf(Amount(m), S) \in Int
  BY <1>1, SumType
<1>3. MapThenSumSet(LAMBDA p : Zero(p.cell[m]), S) = SumOf(Amount(m), S)
  BY <1>1, CellSum
<1>4. Null \notin Int
  BY SourceAssumption
<1>5. CASE \A p \in S : p.cell[m] = Null
  <2>1. SumMetric(S, m) = Null
    BY <1>5 DEF SumMetric
  <2>2. \A p \in S : Amount(m)[p] = 0
    BY <1>1, <1>5 DEF Zero
  <2>3. SumOf(Amount(m), S) = 0
    BY <2>2, SumZero
  <2> QED
    BY <1>2, <1>5, <2>1, <2>3 DEF Zero
<1>6. CASE ~ \A p \in S : p.cell[m] = Null
  <2>1. SumMetric(S, m) = SumOf(Amount(m), S)
    BY <1>3, <1>6 DEF SumMetric
  <2>2. SumMetric(S, m) # Null
    BY <1>2, <1>4, <2>1
  <2> QED
    BY <1>2, <1>6, <2>1, <2>2 DEF Zero
<1> QED
  BY <1>5, <1>6

\* The model's sum over parts is the sum of a function.
LEMMA PartSum ==
  ASSUME NEW parts, NEW m, NEW f, \A S \in parts : f[S] = Zero(SumMetric(S, m))
  PROVE  MapThenSumSet(LAMBDA S : Zero(SumMetric(S, m)), parts) = SumOf(f, parts)
<1> DEFINE I(h) == h = [s \in SUBSET parts |-> IF s = {} THEN 0
                          ELSE Zero(SumMetric(Some(s), m)) + h[s \ {Some(s)}]]
<1>1. MapThenSumSet(LAMBDA S : Zero(SumMetric(S, m)), parts) = (CHOOSE h : I(h))[parts]
  BY DEF MapThenSumSet, MapThenFoldSet, Some
<1>2. ASSUME NEW s \in SUBSET parts, s # {}  PROVE Zero(SumMetric(Some(s), m)) = f[Some(s)]
  BY <1>2 DEF Some
<1>3. \A h : I(h) <=> IsSums(h, f, parts)
  BY <1>2 DEF IsSums
<1>4. (CHOOSE h : I(h)) = (CHOOSE h : IsSums(h, f, parts))
  BY <1>3
<1> QED
  BY <1>1, <1>4, SumIsFold DEF Sums

\* Splitting positions by a column leaves a finite number of finite parts.
LEMMA SplitIs ==
  ASSUME NEW S, IsFiniteSet(S), NEW column
  PROVE  /\ IsFiniteSet(Split(S, column))
         /\ \A T \in Split(S, column) : T \subseteq S /\ IsFiniteSet(T)
<1> DEFINE b == [p \in S |-> {q \in S : q[column] = p[column]}]
<1>1. b \in Surjection(S, Split(S, column))
  <2>1. b \in [S -> Split(S, column)]
    BY DEF Split
  <2>2. \A T \in Split(S, column) : \E p \in S : b[p] = T
    BY DEF Split
  <2> QED
    BY <2>1, <2>2 DEF Surjection
<1>2. IsFiniteSet(Split(S, column))
  <2> HIDE DEF b
  <2> QED
    BY <1>1, FS_Surjection
<1>3. \A T \in Split(S, column) : T \subseteq S
  BY DEF Split
<1> QED
  BY <1>2, <1>3, FS_Subset

\* However positions are split, the parts add up to the whole, blanks included.
LEMMA SplitSums ==
  ASSUME NEW S, S \subseteq Position, IsFiniteSet(S), NEW m \in Metric, NEW column
  PROVE  SumParts(Split(S, column), m) = SumMetric(S, m)
<1> DEFINE parts == Split(S, column)
           b == [p \in S |-> {q \in S : q[column] = p[column]}]
           g == [T \in parts |-> SumOf(Amount(m), T)]
<1>1. IsFiniteSet(parts) /\ \A T \in parts : T \subseteq S /\ IsFiniteSet(T)
  BY SplitIs
<1>2. ASSUME NEW T \in parts
      PROVE  /\ g[T] = Zero(SumMetric(T, m))
             /\ SumMetric(T, m) = Null <=> \A p \in T : p.cell[m] = Null
  BY <1>1, SumMetricIs
<1>3. UNION parts = S
  BY DEF Split
<1>4. (\A T \in parts : SumMetric(T, m) = Null) <=> \A p \in S : p.cell[m] = Null
  <2> HIDE DEF parts
  <2> QED
    BY <1>2, <1>3
<1>5. SumMetric(S, m) = Null <=> \A p \in S : p.cell[m] = Null
  BY SumMetricIs
<1>6. CASE \A p \in S : p.cell[m] = Null
  <2>1. SumParts(parts, m) = Null
    <3> HIDE DEF parts
    <3> QED
      BY <1>4, <1>6 DEF SumParts
  <2> QED
    BY <2>1, <1>5, <1>6
<1>7. CASE ~ \A p \in S : p.cell[m] = Null
  <2>1. SumParts(parts, m) = MapThenSumSet(LAMBDA T : Zero(SumMetric(T, m)), parts)
    <3> HIDE DEF parts
    <3> QED
      BY <1>4, <1>7 DEF SumParts
  <2>2. MapThenSumSet(LAMBDA T : Zero(SumMetric(T, m)), parts) = SumOf(g, parts)
    <3> HIDE DEF parts, g
    <3> QED
      BY <1>2, PartSum
  <2>3. \A p \in S : b[p] \in parts /\ Amount(m)[p] \in Int
    <3>1. \A p \in S : b[p] \in parts
      BY DEF Split
    <3>2. ASSUME NEW p \in S  PROVE Amount(m)[p] \in Int
      <4>1. p \in Position /\ p.cell \in Cells
        BY DEF Position
      <4> QED
        BY <4>1, CellCounts DEF Amount
    <3> QED
      BY <3>1, <3>2
  <2>4. \A T \in parts : Fibre(b, S, T) = T
    BY DEF Split, Fibre
  <2>5. \A T \in parts : g[T] = SumOf(Amount(m), Fibre(b, S, T))
    BY <2>4
  <2>6. SumOf(Amount(m), S) = SumOf(g, parts)
    <3>1. PICK a : a = Amount(m)
      OBVIOUS
    <3>2. \A p \in S : b[p] \in parts /\ a[p] \in Int
      BY <2>3, <3>1
    <3>3. \A T \in parts : g[T] = SumOf(a, Fibre(b, S, T))
      BY <2>5, <3>1
    <3>4. IsFiniteSet(parts)
      BY <1>1
    <3> HIDE DEF parts, b, g
    <3>5. SumOf(a, S) = SumOf(g, parts)
      BY <3>2, <3>3, <3>4, SumFibres
    <3> QED
      BY <3>1, <3>5
  <2>7. SumMetric(S, m) = SumOf(Amount(m), S)
    BY <1>5, <1>7, SumMetricIs
  <2> QED
    BY <2>1, <2>2, <2>6, <2>7
<1> QED
  BY <1>6, <1>7

-----------------------------------------------------------------------------
(* Controls                                                                 *)

\* A sum is near itself.
LEMMA NearItself ==
  ASSUME NEW l \in Int \cup {Null}
  PROVE  Near(l, l)
<1>1. CASE l = Null
  BY <1>1 DEF Near
<1>2. CASE l # Null
  <2>1. l - l \in -1 .. 1
    BY <1>2
  <2> QED
    BY <2>1, <1>2 DEF Near, Tolerance
<1> QED
  BY <1>1, <1>2

\* The controls of the company, its departments and their groups always hold.
LEMMA RollupsHold ==
  ASSUME NEW C, C \subseteq Position, IsFiniteSet(C), NEW c \in Rollups(C)
  PROVE  c.ok
<1>1. ASSUME NEW S, S \subseteq C, NEW m \in Metric, NEW column
      PROVE  Near(SumMetric(S, m), SumParts(Split(S, column), m))
  <2>1. S \subseteq Position /\ IsFiniteSet(S)
    BY <1>1, FS_Subset
  <2>2. SumMetric(S, m) \in Int \cup {Null}
    BY <2>1, SumMetricIs
  <2>3. SumParts(Split(S, column), m) = SumMetric(S, m)
    BY <2>1, SplitSums
  <2> QED
    BY <2>2, <2>3, NearItself
<1>2. \A column : \A S \in Split(C, column) : S \subseteq C
  BY DEF Split
<1>3. PICK m \in Metric :
        \/ c = Control("company", Null, m, SumMetric(C, m), SumParts(Split(C, "dept"), m))
        \/ \E S \in Split(C, "dept") :
             c = Control("department", S, m, SumMetric(S, m), SumParts(Split(S, "group"), m))
        \/ \E S \in Split(C, "group") :
             c = Control("group", S, m, SumMetric(S, m), SumParts(Split(S, "partner"), m))
  BY DEF Rollups
<1>4. CASE c = Control("company", Null, m, SumMetric(C, m), SumParts(Split(C, "dept"), m))
  BY <1>1, <1>4 DEF Control
<1>5. ASSUME NEW S \in Split(C, "dept"),
             c = Control("department", S, m, SumMetric(S, m), SumParts(Split(S, "group"), m))
      PROVE  c.ok
  <2>1. S \subseteq C
    BY <1>2
  <2>2. Near(SumMetric(S, m), SumParts(Split(S, "group"), m))
    BY <2>1, <1>1
  <2> QED
    BY <2>2, <1>5 DEF Control
<1>6. ASSUME NEW S \in Split(C, "group"),
             c = Control("group", S, m, SumMetric(S, m), SumParts(Split(S, "partner"), m))
      PROVE  c.ok
  <2>1. S \subseteq C
    BY <1>2
  <2>2. Near(SumMetric(S, m), SumParts(Split(S, "partner"), m))
    BY <2>1, <1>1
  <2> QED
    BY <2>2, <1>6 DEF Control
<1> QED
  BY <1>3, <1>4, <1>5, <1>6

\* The positions of a file, and those of a date, are finitely many.
LEMMA PositionsAre ==
  ASSUME FileInv, TotalInv
  PROVE  /\ \A f \in files : f.positions \subseteq Position /\ IsFiniteSet(f.positions)
         /\ \A d : Positions(d) \subseteq Position /\ IsFiniteSet(Positions(d))
<1>1. ASSUME NEW f \in files
      PROVE  f.positions \subseteq Position /\ IsFiniteSet(f.positions)
  <2>1. \A p \in f.positions : p \in Position /\ p.row \in DOMAIN f.rows
    BY DEF FileInv, Filed
  <2>2. \A p, q \in f.positions : p.row = q.row => p = q
    BY DEF FileInv
  <2>3. DOMAIN f.rows = 1 .. Len(f.rows) /\ Len(f.rows) \in Nat
    <3>1. f.rows \in Seq(Row)
      BY DEF FileInv
    <3> QED
      BY <3>1, LenProperties
  <2>4. IsFiniteSet(f.positions)
    BY <2>1, <2>2, <2>3, FiniteByRow
  <2> QED
    BY <2>1, <2>4
<1>2. ASSUME NEW d
      PROVE  Positions(d) \subseteq Position /\ IsFiniteSet(Positions(d))
  <2>1. FilesOf(d) \subseteq files
    BY DEF FilesOf
  <2>2. IsFiniteSet(FilesOf(d))
    BY <2>1, FS_Subset DEF TotalInv
  <2> DEFINE parts == {f.positions : f \in FilesOf(d)}
             b == [f \in FilesOf(d) |-> f.positions]
  <2>3. b \in Surjection(FilesOf(d), parts)
    BY DEF Surjection
  <2>4. IsFiniteSet(parts)
    <3> HIDE DEF b, parts
    <3> QED
      BY <2>2, <2>3, FS_Surjection
  <2>5. \A S \in parts : S \subseteq Position /\ IsFiniteSet(S)
    BY <1>1, <2>1
  <2>6. IsFiniteSet(UNION parts) /\ UNION parts \subseteq Position
    <3> HIDE DEF parts
    <3> QED
      BY <2>4, <2>5, FS_UNION
  <2> QED
    BY <2>6 DEF Positions
<1> QED
  BY <1>1, <1>2

\* A file's own total is missed only where the file or the total is blank and the
\* other is not: elsewhere the two were reconciled before the file was accepted.
LEMMA FileControlHolds ==
  ASSUME FileInv, TotalInv, NEW f \in files, NEW m \in Metric
  PROVE  FileControl(f, m).ok <=> (AllBlank(f, m) <=> f.total[m] = Null)
<1> DEFINE A == Level1(f.positions)
           sum == SumMetric(A, m)
           total == f.total[m]
<1>1. A \subseteq Position /\ IsFiniteSet(A)
  <2>1. f.positions \subseteq Position /\ IsFiniteSet(f.positions)
    BY PositionsAre
  <2>2. A \subseteq f.positions
    BY DEF Level1
  <2> HIDE DEF A
  <2> QED
    BY <2>1, <2>2, FS_Subset
<1>2. /\ SumOf(Amount(m), A) \in Int
      /\ sum = Null <=> AllBlank(f, m)
      /\ sum # Null => sum = SumOf(Amount(m), A)
  <2>1. AllBlank(f, m) <=> \A p \in A : p.cell[m] = Null
    BY DEF AllBlank
  <2> HIDE DEF A
  <2> QED
    BY <2>1, <1>1, SumMetricIs
<1>3. total \in Int \cup {Null} /\ Zero(total) \in Int /\ (total # Null => Zero(total) = total)
  <2>1. f.total \in Cells
    BY DEF TotalInv
  <2> QED
    BY <2>1, CellCounts
<1>4. SumLevel1(f.positions, m) = SumOf(Amount(m), A)
  <2>1. ASSUME NEW p \in A  PROVE Amount(m)[p] = Zero(p.cell[m])
    <3>1. p \in Position
      BY <1>1
    <3> QED
      BY <3>1 DEF Amount
  <2>2. SumLevel1(f.positions, m) = MapThenSumSet(LAMBDA x : Zero(x.cell[m]), A)
    BY DEF SumLevel1, Level1
  <2> HIDE DEF A
  <2> QED
    BY <2>1, <2>2, CellSum
<1>5. SumLevel1(f.positions, m) - Zero(total) \in -Tolerance .. Tolerance
  BY DEF TotalInv, Reconciled
<1>6. FileControl(f, m).ok <=> Near(sum, total)
  BY DEF FileControl, Control
<1>7. Null \notin Int
  BY SourceAssumption
<1>8. CASE sum = Null
  BY <1>2, <1>6, <1>8 DEF Near
<1>9. CASE sum # Null
  <2>1. CASE total = Null
    BY <2>1, <1>2, <1>6, <1>9 DEF Near
  <2>2. CASE total # Null
    <3>1. sum - total \in -Tolerance .. Tolerance
      BY <2>2, <1>2, <1>3, <1>4, <1>5, <1>9
    <3> QED
      BY <3>1, <2>2, <1>2, <1>6, <1>9 DEF Near
  <2> QED
    BY <2>1, <2>2
<1> QED
  BY <1>8, <1>9

Heading(c) == [scope |-> c.scope, of |-> c.of, metric |-> c.metric]

\* The failures of a report are those of its files' totals.
LEMMA FailuresAre ==
  ASSUME FileInv, TotalInv, NEW d
  PROVE  {Heading(c) : c \in Failures(d)} =
         UNION {{[scope |-> "file", of |-> f.dept, metric |-> m]
                   : m \in {n \in Metric : AllBlank(f, n) # (f.total[n] = Null)}}
                 : f \in FilesOf(d)}
<1> DEFINE H(f, m) == [scope |-> "file", of |-> f.dept, metric |-> m]
           Off(f) == {n \in Metric : AllBlank(f, n) # (f.total[n] = Null)}
           right == UNION {{H(f, m) : m \in Off(f)} : f \in FilesOf(d)}
<1>1. ASSUME NEW f \in FilesOf(d), NEW m \in Metric
      PROVE  Heading(FileControl(f, m)) = H(f, m)
             /\ (FileControl(f, m).ok <=> m \notin Off(f))
  <2>1. f \in files
    BY DEF FilesOf
  <2>2. FileControl(f, m).ok <=> (AllBlank(f, m) <=> f.total[m] = Null)
    BY <2>1, FileControlHolds
  <2>3. AllBlank(f, m) \in BOOLEAN
    BY DEF AllBlank
  <2>4. m \in Off(f) <=> AllBlank(f, m) # (f.total[m] = Null)
    OBVIOUS
  <2>5. FileControl(f, m).ok <=> m \notin Off(f)
    BY <2>2, <2>3, <2>4
  <2>6. Heading(FileControl(f, m)) = H(f, m)
    BY DEF Heading, FileControl, Control
  <2> QED
    BY <2>5, <2>6
<1>2. ASSUME NEW c \in Failures(d)
      PROVE  \E f \in FilesOf(d), m \in Metric : c = FileControl(f, m) /\ ~c.ok
  <2>1. ~c.ok /\ (c \in Rollups(Level1(Positions(d)))
                   \/ c \in {FileControl(f, m) : f \in FilesOf(d), m \in Metric})
    BY DEF Failures
  <2>2. Level1(Positions(d)) \subseteq Position /\ IsFiniteSet(Level1(Positions(d)))
    <3>1. Positions(d) \subseteq Position /\ IsFiniteSet(Positions(d))
      BY PositionsAre
    <3>2. Level1(Positions(d)) \subseteq Positions(d)
      BY DEF Level1
    <3> QED
      BY <3>1, <3>2, FS_Subset
  <2>3. c \notin Rollups(Level1(Positions(d)))
    BY <2>1, <2>2, RollupsHold
  <2> QED
    BY <2>1, <2>3
<1>3. ASSUME NEW f \in FilesOf(d), NEW m \in Metric, ~FileControl(f, m).ok
      PROVE  FileControl(f, m) \in Failures(d)
  BY <1>3 DEF Failures
<1>4. \A x : x \in right <=> \E f \in FilesOf(d) : \E m \in Metric : m \in Off(f) /\ x = H(f, m)
  OBVIOUS
<1> HIDE DEF right, H, Off
<1>5. \A x : x \in {Heading(c) : c \in Failures(d)} <=> x \in right
  <2>1. ASSUME NEW c \in Failures(d)  PROVE Heading(c) \in right
    <3>1. PICK f \in FilesOf(d), m \in Metric : c = FileControl(f, m) /\ ~c.ok
      BY <1>2
    <3> QED
      BY <3>1, <1>1, <1>4
  <2>2. ASSUME NEW x \in right  PROVE \E c \in Failures(d) : x = Heading(c)
    <3>1. PICK f \in FilesOf(d), m \in Metric : m \in Off(f) /\ x = H(f, m)
      BY <1>4
    <3> QED
      BY <3>1, <1>1, <1>3
  <2> QED
    BY <2>1, <2>2
<1> QED
  BY <1>5 DEF right, H, Off

-----------------------------------------------------------------------------
(* Changes                                                                  *)

\* Positions that share a key are counterparties of one group, or details both.
LEMMA SameKey ==
  ASSUME IdentityInv, FileInv, NEW f \in files, NEW g \in files,
         NEW p \in f.positions, NEW q \in g.positions, p.key = q.key
  PROVE  /\ p.level = 1 <=> q.level = 1
         /\ p.level = 1 => p.group = q.group
<1>1. Filed(f, p) /\ Filed(g, q)
  BY DEF FileInv
<1>2. p.level = 1 <=> q.level = 1
  <2>1. p.level = 1 => p.key[2] = <<>>
    <3>1. p.level = 1 => p.key = <<p.partner, <<>>>>
      BY <1>1, Zenon DEF Filed
    <3> QED
      BY <3>1
  <2>2. q.level = 1 => q.key[2] = <<>>
    <3>1. q.level = 1 => q.key = <<q.partner, <<>>>>
      BY <1>1, Zenon DEF Filed
    <3> QED
      BY <3>1
  <2>3. p.level # 1 => p.key[2] # <<>>
    BY KeyTail
  <2>4. q.level # 1 => q.key[2] # <<>>
    BY KeyTail
  <2> QED
    BY <2>1, <2>2, <2>3, <2>4
<1>3. ASSUME p.level = 1  PROVE p.group = q.group
  <2>1. PICK x \in identity : x.owner = p.group /\ x.id = p.partner
    BY <1>1, <1>3 DEF Filed, Is
  <2>2. PICK y \in identity : y.owner = q.group /\ y.id = q.partner
    BY <1>1, <1>2, <1>3 DEF Filed, Is
  <2>3. p.partner = q.partner
    BY <1>1, KeyHead
  <2>4. x = y
    BY <2>1, <2>2, <2>3 DEF IdentityInv
  <2> QED
    BY <2>1, <2>2, <2>4
<1> QED
  BY <1>2, <1>3

\* The first position of a side is one of them.
LEMMA FirstIs ==
  ASSUME NEW S, S \subseteq Position, S # {}
  PROVE  First(S) \in S
<1>1. \A p \in S : p.row \in Nat
  BY DEF Position
<1> DEFINE R == {p.row : p \in S}
<1>2. R \in SUBSET Nat /\ R # {}
  BY <1>1
<1>3. PICK r \in R : \A n \in R : r <= n
  <2> HIDE DEF R
  <2> QED
    BY <1>2, LeastNatural
<1>4. PICK p \in S : p.row = r
  OBVIOUS
<1>5. \A q \in S : p.row <= q.row
  BY <1>3, <1>4
<1> QED
  BY <1>5 DEF First

\* What an entity says of the positions with its key.
LEMMA EntityOf ==
  ASSUME NEW key, NEW K, NEW L, K \subseteq Position, L \subseteq Position, K \cup L # {},
         NEW e, e = Entity(key, K, L)
  PROVE  /\ e.key = key
         /\ e.ambiguous <=> Several(K) \/ Several(L)
         /\ \E p \in K \cup L : e.level = p.level
         /\ ~e.ambiguous =>
              /\ (K = {} /\ e.current = Null) \/ (K = {e.current} /\ e.current # Null)
              /\ (L = {} /\ e.previous = Null) \/ (L = {e.previous} /\ e.previous # Null)
              /\ e.deltas = [m \in Metric |-> MetricDelta(e.current, e.previous, m)]
              /\ e.profile <=> ProfileChanged(e.current, e.previous)
<1>1. ASSUME NEW S \in SUBSET Position
      PROVE  /\ Only(S) # Null => Only(S) \in S
             /\ ~Several(S) => (S = {} /\ Only(S) = Null) \/ (S = {Only(S)} /\ Only(S) # Null)
  <2>1. Null \notin S
    BY SourceAssumption
  <2>2. CASE S # {} /\ ~Several(S)
    <3>1. PICK p \in S : S = {p}
      BY <2>2 DEF Several
    <3>2. Only(S) = p
      BY <3>1, OnlyOne
    <3> QED
      BY <2>1, <3>1, <3>2
  <2>3. CASE ~ (S # {} /\ ~Several(S))
    BY <2>3 DEF Only
  <2> QED
    BY <2>2, <2>3
<1>2. PICK c, p : c = Only(K) /\ p = Only(L)
  OBVIOUS
<1>3. /\ e.key = key
      /\ e.ambiguous <=> Several(K) \/ Several(L)
      /\ ~e.ambiguous => /\ e.current = c /\ e.previous = p
                         /\ e.deltas = [m \in Metric |-> MetricDelta(c, p, m)]
                         /\ e.profile <=> ProfileChanged(c, p)
  BY <1>2 DEF Entity, ProfileChanged
<1>4. \E q \in K \cup L : e.level = q.level
  <2>0. e.level = IF c # Null THEN c.level
                  ELSE IF p # Null THEN p.level
                  ELSE IF K # {} THEN First(K).level ELSE First(L).level
    BY <1>2 DEF Entity
  <2>1. CASE c # Null
    <3>1. e.level = c.level
      BY <2>0, <2>1
    <3> QED
      BY <1>1, <1>2, <2>1, <3>1
  <2>2. CASE c = Null /\ p # Null
    <3>1. e.level = p.level
      BY <2>0, <2>2
    <3> QED
      BY <1>1, <1>2, <2>2, <3>1
  <2>3. CASE c = Null /\ p = Null /\ K # {}
    <3>1. e.level = First(K).level
      BY <2>0, <2>3
    <3> QED
      BY <2>3, <3>1, FirstIs
  <2>4. CASE c = Null /\ p = Null /\ K = {}
    <3>1. e.level = First(L).level
      BY <2>0, <2>4
    <3> QED
      BY <2>4, <3>1, FirstIs
  <2> QED
    BY <2>1, <2>2, <2>3, <2>4
<1>5. ~e.ambiguous =>
        /\ (K = {} /\ c = Null) \/ (K = {c} /\ c # Null)
        /\ (L = {} /\ p = Null) \/ (L = {p} /\ p # Null)
  BY <1>1, <1>2, <1>3
<1> QED
  BY <1>3, <1>4, <1>5

\* The entities of E pair the positions of A with those of B, each once.
Pairs(E, A, B) ==
  /\ \A e \in E :
       /\ e.current \in A \cup {Null} /\ e.previous \in B \cup {Null} /\ ~e.ambiguous
       /\ e.deltas = [m \in Metric |-> MetricDelta(e.current, e.previous, m)]
       /\ e.profile <=> ProfileChanged(e.current, e.previous)
       /\ e.current # Null /\ e.previous # Null => e.current.group = e.previous.group
       /\ e.current # Null \/ e.previous # Null
  /\ \A p \in A : \E e \in E : e.current = p
  /\ \A p \in B : \E e \in E : e.previous = p
  /\ \A e, f \in E : e.current = f.current /\ e.current # Null => e = f
  /\ \A e, f \in E : e.previous = f.previous /\ e.previous # Null => e = f

\* The counterparties of a report without repeated ones are paired.
LEMMA CounterpartiesPaired ==
  ASSUME IdentityInv, FileInv, NEW C, NEW P, NEW c, NEW b,
         C = Positions(c), P = Positions(b) \/ P = {},
         NEW E, E = {e \in Entities(C, P) : e.level = 1}, \A e \in E : ~e.ambiguous
  PROVE  Pairs(E, Level1(C), Level1(P))
<1>1. C \cup P \subseteq Position
  <2>1. \A f \in files : \A p \in f.positions : p \in Position
    BY DEF FileInv, Filed
  <2> QED
    BY <2>1 DEF Positions, FilesOf
<1>2. ASSUME NEW p \in C \cup P, NEW q \in C \cup P, p.key = q.key
      PROVE  /\ p.level = 1 <=> q.level = 1
             /\ p.level = 1 => p.group = q.group
  <2>1. \A r \in C \cup P : \E f \in files : r \in f.positions
    BY DEF Positions, FilesOf
  <2>2. PICK f \in files, g \in files : p \in f.positions /\ q \in g.positions
    BY <2>1
  <2> QED
    BY <2>2, <1>2, SameKey
<1>3. ASSUME NEW key, NEW K, NEW L, K = OfKey(C, key), L = OfKey(P, key),
             \E p \in C \cup P : key = p.key, NEW e, e = Entity(key, K, L)
      PROVE  /\ e.key = key
             /\ e.ambiguous <=> Several(K) \/ Several(L)
             /\ \E p \in K \cup L : e.level = p.level
             /\ ~e.ambiguous =>
                  /\ (K = {} /\ e.current = Null) \/ (K = {e.current} /\ e.current # Null)
                  /\ (L = {} /\ e.previous = Null) \/ (L = {e.previous} /\ e.previous # Null)
                  /\ e.deltas = [m \in Metric |-> MetricDelta(e.current, e.previous, m)]
                  /\ e.profile <=> ProfileChanged(e.current, e.previous)
             /\ \A p \in K \cup L : p \in C \cup P /\ p.key = key
             /\ K \cup L # {}
  <2>1. K \cup L # {} /\ \A p \in K \cup L : p \in C \cup P /\ p.key = key
    BY <1>3 DEF OfKey
  <2>2. K \subseteq Position /\ L \subseteq Position
    BY <2>1, <1>1
  <2> QED
    BY <2>1, <2>2, <1>3, EntityOf
<1>4. ASSUME NEW e \in E
      PROVE  \E K, L : /\ K = OfKey(C, e.key) /\ L = OfKey(P, e.key) /\ K \cup L # {}
                       /\ e = Entity(e.key, K, L)
                       /\ (K = {} /\ e.current = Null) \/ (K = {e.current} /\ e.current # Null)
                       /\ (L = {} /\ e.previous = Null) \/ (L = {e.previous} /\ e.previous # Null)
                       /\ e.deltas = [m \in Metric |-> MetricDelta(e.current, e.previous, m)]
                       /\ e.profile <=> ProfileChanged(e.current, e.previous)
                       /\ \A p \in K \cup L : p \in C \cup P /\ p.key = e.key /\ p.level = 1
  <2>1. PICK key : /\ \E p \in C \cup P : key = p.key
                   /\ e = Entity(key, OfKey(C, key), OfKey(P, key))
    BY DEF Entities
  <2>2. PICK K, L : K = OfKey(C, key) /\ L = OfKey(P, key)
    OBVIOUS
  <2>3. e = Entity(key, K, L)
    BY <2>1, <2>2
  <2>4. /\ e.key = key
        /\ \E p \in K \cup L : e.level = p.level
        /\ (K = {} /\ e.current = Null) \/ (K = {e.current} /\ e.current # Null)
        /\ (L = {} /\ e.previous = Null) \/ (L = {e.previous} /\ e.previous # Null)
        /\ e.deltas = [m \in Metric |-> MetricDelta(e.current, e.previous, m)]
        /\ e.profile <=> ProfileChanged(e.current, e.previous)
        /\ \A p \in K \cup L : p \in C \cup P /\ p.key = key
        /\ K \cup L # {}
    BY <2>1, <2>2, <2>3, <1>3
  <2>5. \A p \in K \cup L : p.level = 1
    BY <2>4, <1>2
  <2> QED
    BY <2>2, <2>3, <2>4, <2>5
<1>5. ASSUME NEW p \in Level1(C) \cup Level1(P)
      PROVE  \E e \in E : /\ e.key = p.key
                          /\ p \in C => e.current = p
                          /\ p \in P => e.previous = p
  <2>1. p \in C \cup P /\ p.level = 1
    BY DEF Level1
  <2>2. PICK key, K, L : key = p.key /\ K = OfKey(C, key) /\ L = OfKey(P, key)
    OBVIOUS
  <2>3. PICK e : e = Entity(key, K, L)
    OBVIOUS
  <2>4. \E q \in C \cup P : key = q.key
    BY <2>1, <2>2
  <2>5. \A q \in K \cup L : q \in C \cup P /\ q.key = key
    BY <2>2 DEF OfKey
  <2>6. (p \in C => p \in K) /\ (p \in P => p \in L)
    BY <2>2 DEF OfKey
  <2>7. K \subseteq Position /\ L \subseteq Position /\ K \cup L # {}
    BY <2>1, <2>5, <2>6, <1>1
  <2>8. /\ e.key = key
        /\ e.ambiguous <=> Several(K) \/ Several(L)
        /\ \E q \in K \cup L : e.level = q.level
        /\ ~e.ambiguous =>
             /\ (K = {} /\ e.current = Null) \/ (K = {e.current} /\ e.current # Null)
             /\ (L = {} /\ e.previous = Null) \/ (L = {e.previous} /\ e.previous # Null)
             /\ e.deltas = [m \in Metric |-> MetricDelta(e.current, e.previous, m)]
             /\ e.profile <=> ProfileChanged(e.current, e.previous)
    BY <2>3, <2>7, EntityOf
  <2>9. e.level = 1
    BY <2>1, <2>2, <2>5, <2>8, <1>2
  <2>10. e \in E
    BY <2>2, <2>3, <2>4, <2>9 DEF Entities
  <2> QED
    BY <2>2, <2>6, <2>8, <2>10
<1>6. ASSUME NEW e \in E
      PROVE  /\ e.current \in Level1(C) \cup {Null} /\ e.previous \in Level1(P) \cup {Null}
             /\ e.deltas = [m \in Metric |-> MetricDelta(e.current, e.previous, m)]
             /\ e.profile <=> ProfileChanged(e.current, e.previous)
             /\ e.current # Null /\ e.previous # Null => e.current.group = e.previous.group
             /\ e.current # Null \/ e.previous # Null
             /\ e.current # Null => e.current.key = e.key
             /\ e.previous # Null => e.previous.key = e.key
  <2>1. PICK K, L : /\ K = OfKey(C, e.key) /\ L = OfKey(P, e.key) /\ K \cup L # {}
                    /\ (K = {} /\ e.current = Null) \/ (K = {e.current} /\ e.current # Null)
                    /\ (L = {} /\ e.previous = Null) \/ (L = {e.previous} /\ e.previous # Null)
                    /\ e.deltas = [m \in Metric |-> MetricDelta(e.current, e.previous, m)]
                    /\ e.profile <=> ProfileChanged(e.current, e.previous)
                    /\ \A p \in K \cup L : p \in C \cup P /\ p.key = e.key /\ p.level = 1
    BY <1>4
  <2>2. K \subseteq Level1(C) /\ L \subseteq Level1(P)
    BY <2>1 DEF OfKey, Level1
  <2>3. e.current # Null => e.current \in K
    BY <2>1
  <2>4. e.previous # Null => e.previous \in L
    BY <2>1
  <2>5. e.current # Null /\ e.previous # Null => e.current.group = e.previous.group
    BY <2>1, <2>3, <2>4, <1>2
  <2> QED
    BY <2>1, <2>2, <2>3, <2>4, <2>5
<1>7. \A e, f \in E : e.key = f.key => e = f
  <2>1. \A e \in E : e = Entity(e.key, OfKey(C, e.key), OfKey(P, e.key))
    BY <1>4
  <2> QED
    BY <2>1
<1>8. \A e, f \in E : e.current = f.current /\ e.current # Null => e = f
  <2>1. \A e \in E : e.current # Null => e.current.key = e.key
    BY <1>6
  <2> QED
    BY <2>1, <1>7
<1>9. \A e, f \in E : e.previous = f.previous /\ e.previous # Null => e = f
  <2>1. \A e \in E : e.previous # Null => e.previous.key = e.key
    BY <1>6
  <2> QED
    BY <2>1, <1>7
<1>10. (\A p \in Level1(C) : p \in C) /\ \A p \in Level1(P) : p \in P
  BY DEF Level1
<1>11. \A p \in Level1(C) : \E e \in E : e.current = p
  BY <1>5, <1>10
<1>12. \A p \in Level1(P) : \E e \in E : e.previous = p
  BY <1>5, <1>10
<1> QED
  BY <1>6, <1>8, <1>9, <1>11, <1>12 DEF Pairs

\* What the entities count for on one side is what the positions of that side do.
LEMMA SideSum ==
  ASSUME NEW E, IsFiniteSet(E), NEW A, A \subseteq Position, IsFiniteSet(A), NEW m \in Metric,
         NEW s, NEW f,
         \A e \in E : s[e] \in A \cup {Null} /\ f[e] = Zero(Cell(s[e], m)),
         \A p \in A : \E e \in E : s[e] = p,
         \A d, e \in E : s[d] = s[e] /\ s[d] # Null => d = e
  PROVE  /\ SumOf(f, E) = SumOf(Amount(m), A)
         /\ \A e \in E : f[e] \in Int
<1> DEFINE b == [p \in A |-> CHOOSE e \in E : s[e] = p]
<1>1. ASSUME NEW p \in A  PROVE b[p] \in E /\ s[b[p]] = p /\ p # Null
  <2>1. (CHOOSE e \in E : s[e] = p) \in E /\ s[CHOOSE e \in E : s[e] = p] = p
    OBVIOUS
  <2>2. p # Null
    BY SourceAssumption
  <2> QED
    BY <2>1, <2>2
<1>2. ASSUME NEW p \in A
      PROVE  Amount(m)[p] = Zero(Cell(p, m)) /\ Amount(m)[p] \in Int
  <2>1. p \in Position /\ p.cell \in Cells /\ p # Null
    BY <1>1 DEF Position
  <2> QED
    BY <2>1, CellCounts DEF Amount, Cell
<1>3. PICK a : a = Amount(m)
  OBVIOUS
<1>4. ASSUME NEW e \in E  PROVE f[e] = SumOf(a, Fibre(b, A, e)) /\ f[e] \in Int
  <2>1. CASE s[e] = Null
    <3>1. Fibre(b, A, e) = {}
      BY <1>1, <2>1 DEF Fibre
    <3>2. SumOf(a, {}) = 0
      BY FS_EmptySet, SumZero
    <3>3. f[e] = 0
      BY <2>1 DEF Cell, Zero
    <3> QED
      BY <3>1, <3>2, <3>3
  <2>2. CASE s[e] # Null
    <3>1. PICK p \in A : p = s[e]
      BY <2>2
    <3>2. b[p] = e
      BY <1>1, <3>1
    <3>3. \A q \in A : b[q] = e => q = p
      BY <1>1, <3>1
    <3>4. Fibre(b, A, e) = {p}
      <4> HIDE DEF b
      <4> QED
        BY <3>2, <3>3 DEF Fibre
    <3>5. f[e] = a[p] /\ a[p] \in Int
      BY <3>1, <1>2, <1>3
    <3> QED
      BY <3>4, <3>5, SumOne
  <2> QED
    BY <2>1, <2>2
<1>5. \A p \in A : b[p] \in E /\ a[p] \in Int
  BY <1>1, <1>2, <1>3
<1>6. \A e \in E : f[e] = SumOf(a, Fibre(b, A, e))
  BY <1>4
<1> HIDE DEF b
<1>7. SumOf(a, A) = SumOf(f, E)
  BY <1>5, <1>6, SumFibres
<1> QED
  BY <1>3, <1>4, <1>7

\* The model's sum of changes is the sum of a function.
LEMMA ChangeSum ==
  ASSUME NEW E, NEW m, NEW f, \A e \in E : f[e] = Zero(e.deltas[m].abs)
  PROVE  Explained(E, m) = SumOf(f, E)
<1> DEFINE I(h) == h = [s \in SUBSET E |-> IF s = {} THEN 0
                          ELSE Zero(Some(s).deltas[m].abs) + h[s \ {Some(s)}]]
<1>1. Explained(E, m) = (CHOOSE h : I(h))[E]
  BY DEF Explained, MapThenSumSet, MapThenFoldSet, Some
<1>2. ASSUME NEW s \in SUBSET E, s # {}  PROVE Zero(Some(s).deltas[m].abs) = f[Some(s)]
  BY <1>2 DEF Some
<1>3. \A h : I(h) <=> IsSums(h, f, E)
  BY <1>2 DEF IsSums
<1>4. (CHOOSE h : I(h)) = (CHOOSE h : IsSums(h, f, E))
  BY <1>3
<1> QED
  BY <1>1, <1>4, SumIsFold DEF Sums

\* The change of a pair that is not blank on one side is the difference of what
\* its sides count for.
LEMMA ChangeIs ==
  ASSUME NEW E, NEW A, NEW B, A \subseteq Position, B \subseteq Position, Pairs(E, A, B),
         NEW m \in Metric, NEW e \in E, ~OneSideBlank(e, m)
  PROVE  /\ Zero(Cell(e.current, m)) \in Int /\ Zero(Cell(e.previous, m)) \in Int
         /\ Zero(e.deltas[m].abs) = Zero(Cell(e.current, m)) - Zero(Cell(e.previous, m))
<1>1. PICK c, p : c = e.current /\ p = e.previous
  OBVIOUS
<1>2. /\ c \in A \cup {Null} /\ p \in B \cup {Null}
      /\ e.deltas = [n \in Metric |-> MetricDelta(c, p, n)]
  BY <1>1 DEF Pairs
<1>3. e.deltas[m].abs = AbsDelta(c # Null, p # Null, Cell(c, m), Cell(p, m))
  BY <1>2 DEF MetricDelta
<1>4. Null \notin Int /\ Null \notin Position
  BY SourceAssumption
<1>5. PICK x, y : x = Cell(c, m) /\ y = Cell(p, m)
  OBVIOUS
<1>6. /\ x \in Int \cup {Null} /\ (c = Null => x = Null) /\ (c # Null => x = c.cell[m])
      /\ y \in Int \cup {Null} /\ (p = Null => y = Null) /\ (p # Null => y = p.cell[m])
  <2>1. ASSUME NEW q \in Position \cup {Null}
        PROVE  /\ Cell(q, m) \in Int \cup {Null}
               /\ q = Null => Cell(q, m) = Null
               /\ q # Null => Cell(q, m) = q.cell[m]
    <3>1. q # Null => q.cell \in Cells
      BY DEF Position
    <3> QED
      BY <3>1, CellCounts DEF Cell
  <2> QED
    BY <2>1, <1>2, <1>5
<1>7. c # Null /\ p # Null => (x = Null <=> y = Null)
  BY <1>1, <1>6 DEF OneSideBlank
<1>8. AbsDelta(c # Null, p # Null, x, y) =
        IF c = Null THEN IF p = Null THEN Null ELSE IF y = Null THEN Null ELSE 0 - y
        ELSE IF p = Null THEN x
        ELSE IF x = Null \/ y = Null THEN Null ELSE x - y
  BY DEF AbsDelta
<1>9. Zero(AbsDelta(c # Null, p # Null, x, y)) = Zero(x) - Zero(y)
  <2>1. CASE c = Null /\ p = Null
    BY <2>1, <1>6, <1>8 DEF Zero
  <2>2. CASE c = Null /\ p # Null
    BY <2>2, <1>4, <1>6, <1>8 DEF Zero
  <2>3. CASE c # Null /\ p = Null
    BY <2>3, <1>4, <1>6, <1>8 DEF Zero
  <2>4. CASE c # Null /\ p # Null
    BY <2>4, <1>4, <1>6, <1>7, <1>8 DEF Zero
  <2> QED
    BY <2>1, <2>2, <2>3, <2>4
<1>10. Zero(x) \in Int /\ Zero(y) \in Int
  BY <1>6 DEF Zero
<1> QED
  BY <1>1, <1>3, <1>5, <1>9, <1>10

\* Pairs none of which is blank on one side explain the change from B to A.
LEMMA PairsAddUp ==
  ASSUME NEW E, IsFiniteSet(E), NEW A, A \subseteq Position, IsFiniteSet(A),
         NEW B, B \subseteq Position, IsFiniteSet(B), Pairs(E, A, B), NEW m \in Metric,
         \A e \in E : ~OneSideBlank(e, m)
  PROVE  Explained(E, m) = SumOf(Amount(m), A) - SumOf(Amount(m), B)
<1>1. PICK s, t : s = [e \in E |-> e.current] /\ t = [e \in E |-> e.previous]
  OBVIOUS
<1>2. PICK f, g, h : /\ f = [e \in E |-> Zero(Cell(s[e], m))]
                     /\ g = [e \in E |-> Zero(Cell(t[e], m))]
                     /\ h = [e \in E |-> Zero(e.deltas[m].abs)]
  OBVIOUS
<1>3. ASSUME NEW e \in E
      PROVE  /\ s[e] = e.current /\ t[e] = e.previous
             /\ f[e] = Zero(Cell(s[e], m)) /\ g[e] = Zero(Cell(t[e], m))
             /\ h[e] = Zero(e.deltas[m].abs)
  BY <1>1, <1>2
<1>4. SumOf(f, E) = SumOf(Amount(m), A)
  <2>1. \A e \in E : s[e] \in A \cup {Null} /\ f[e] = Zero(Cell(s[e], m))
    BY <1>3 DEF Pairs
  <2>2. \A p \in A : \E e \in E : s[e] = p
    BY <1>3 DEF Pairs
  <2>3. \A d, e \in E : s[d] = s[e] /\ s[d] # Null => d = e
    BY <1>3 DEF Pairs
  <2> QED
    BY <2>1, <2>2, <2>3, SideSum
<1>5. SumOf(g, E) = SumOf(Amount(m), B)
  <2>1. \A e \in E : t[e] \in B \cup {Null} /\ g[e] = Zero(Cell(t[e], m))
    BY <1>3 DEF Pairs
  <2>2. \A p \in B : \E e \in E : t[e] = p
    BY <1>3 DEF Pairs
  <2>3. \A d, e \in E : t[d] = t[e] /\ t[d] # Null => d = e
    BY <1>3 DEF Pairs
  <2> QED
    BY <2>1, <2>2, <2>3, SideSum
<1>6. \A e \in E : f[e] \in Int /\ g[e] \in Int /\ h[e] = f[e] - g[e]
  BY <1>3, ChangeIs
<1>7. SumOf(h, E) = SumOf(f, E) - SumOf(g, E)
  BY <1>6, SumMinus
<1>8. Explained(E, m) = SumOf(h, E)
  BY <1>3, ChangeSum
<1> QED
  BY <1>4, <1>5, <1>7, <1>8

\* What the sheet "Changes" leaves out has not changed.
LEMMA UnlistedIsZero ==
  ASSUME NEW E, NEW A, NEW B, A \subseteq Position, B \subseteq Position, Pairs(E, A, B),
         NEW m \in {Debt} \cup Overdue, NEW e \in E, ~Listed(e)
  PROVE  Zero(e.deltas[m].abs) = 0
<1>0. m \in Metric /\ (m = Debt \/ m \in Overdue)
  BY ComparisonAssumption
<1>1. Class(e) = "unchanged" /\ ~e.profile
  BY DEF Listed
<1>2. /\ e.current # Null /\ e.previous # Null
      /\ e.deltas[Debt].abs \in {Null, 0}
  BY <1>1 DEF Class
<1>3. PICK c \in A, p \in B : c = e.current /\ p = e.previous
  BY <1>2 DEF Pairs
<1>4. /\ e.deltas = [n \in Metric |-> MetricDelta(c, p, n)]
      /\ ~ProfileChanged(c, p) /\ c # Null /\ p # Null
  BY <1>1, <1>2, <1>3 DEF Pairs
<1>5. CASE m = Debt
  BY <1>2, <1>5 DEF Zero
<1>6. CASE m \in Overdue
  <2>1. PICK x : x = c.cell[m]
    OBVIOUS
  <2>2. c.cell[m] = p.cell[m]
    BY <1>4, <1>6 DEF ProfileChanged
  <2>3. Cell(c, m) = x /\ Cell(p, m) = x
    BY <1>4, <2>1, <2>2 DEF Cell
  <2>4. e.deltas[m].abs = AbsDelta(TRUE, TRUE, x, x)
    <3>1. e.deltas[m].abs = AbsDelta(c # Null, p # Null, Cell(c, m), Cell(p, m))
      BY <1>0, <1>4 DEF MetricDelta
    <3>2. (c # Null) = TRUE /\ (p # Null) = TRUE
      BY <1>4
    <3> QED
      BY <3>1, <3>2, <2>3
  <2>5. x \in Int \cup {Null}
    <3>1. c.cell \in Cells
      BY DEF Position
    <3> QED
      BY <1>0, <3>1, <2>1, CellCounts
  <2>6. AbsDelta(TRUE, TRUE, x, x) = IF x = Null THEN Null ELSE x - x
    BY DEF AbsDelta
  <2>7. CASE x = Null
    BY <2>4, <2>6, <2>7 DEF Zero
  <2>8. CASE x # Null
    <3>1. x \in Int
      BY <2>5, <2>8
    <3>2. x - x = 0
      BY <3>1
    <3>3. PICK z : z = e.deltas[m].abs
      OBVIOUS
    <3>4. z = x - x
      BY <2>4, <2>6, <2>8, <3>3
    <3>5. z = 0
      BY <3>2, <3>4
    <3> QED
      BY <3>3, <3>5 DEF Zero
  <2> QED
    BY <2>7, <2>8
<1> QED
  BY <1>0, <1>5, <1>6

\* So the rows of that sheet explain as much of these metrics as all pairs do.
LEMMA ListedAddUp ==
  ASSUME NEW E, IsFiniteSet(E), NEW A, NEW B, A \subseteq Position, B \subseteq Position,
         Pairs(E, A, B), NEW m \in {Debt} \cup Overdue, \A e \in E : ~OneSideBlank(e, m)
  PROVE  Explained({e \in E : Listed(e)}, m) = Explained(E, m)
<1>0. m \in Metric
  BY ComparisonAssumption
<1>1. PICK U, f, b : /\ U = {e \in E : Listed(e)}
                     /\ f = [e \in E |-> Zero(e.deltas[m].abs)]
                     /\ b = [e \in E |-> e]
  OBVIOUS
<1>2. U \subseteq E /\ IsFiniteSet(U)
  <2>1. U \subseteq E
    BY <1>1
  <2> QED
    BY <2>1, FS_Subset
<1>3. ASSUME NEW e \in E  PROVE f[e] = Zero(e.deltas[m].abs) /\ f[e] \in Int /\ b[e] = e
  <2>1. f[e] = Zero(e.deltas[m].abs) /\ b[e] = e
    BY <1>1
  <2>2. PICK x, y : x = Zero(Cell(e.current, m)) /\ y = Zero(Cell(e.previous, m))
    OBVIOUS
  <2>3. x \in Int /\ y \in Int /\ Zero(e.deltas[m].abs) = x - y
    BY <1>0, <2>2, ChangeIs
  <2> QED
    BY <2>1, <2>3
<1>4. ASSUME NEW e \in E  PROVE f[e] = SumOf(f, Fibre(b, U, e))
  <2>1. CASE e \in U
    <3>1. \A x \in U : b[x] = x
      BY <1>2, <1>3
    <3>2. Fibre(b, U, e) = {e}
      BY <2>1, <3>1 DEF Fibre
    <3>3. f[e] \in Int
      BY <1>3
    <3>4. SumOf(f, {e}) = f[e]
      BY <3>3, SumOne
    <3> QED
      BY <3>2, <3>4
  <2>2. CASE e \notin U
    <3>1. Fibre(b, U, e) = {}
      BY <2>2, <1>2, <1>3 DEF Fibre
    <3>2. SumOf(f, {}) = 0
      BY FS_EmptySet, SumZero
    <3>3. f[e] = 0
      <4>1. ~Listed(e)
        BY <2>2, <1>1
      <4> QED
        BY <4>1, <1>3, UnlistedIsZero
    <3> QED
      BY <3>1, <3>2, <3>3
  <2> QED
    BY <2>1, <2>2
<1>5. \A e \in U : b[e] \in E /\ f[e] \in Int
  BY <1>2, <1>3
<1>6. SumOf(f, U) = SumOf(f, E)
  BY <1>2, <1>4, <1>5, SumFibres
<1>7. Explained(E, m) = SumOf(f, E)
  BY <1>3, ChangeSum
<1>8. Explained(U, m) = SumOf(f, U)
  <2>1. \A e \in U : f[e] = Zero(e.deltas[m].abs)
    BY <1>2, <1>3
  <2> QED
    BY <2>1, ChangeSum
<1> QED
  BY <1>1, <1>6, <1>7, <1>8

\* A change that is stated is the difference of the sums of its sides.
LEMMA SumDeltaIs ==
  ASSUME NEW C, NEW P, NEW A, NEW B, A = Level1(C), B = Level1(P), A \subseteq Position,
         B \subseteq Position, IsFiniteSet(A), IsFiniteSet(B), NEW m \in Metric,
         SumDelta(C, P, m).abs # Null
  PROVE  SumDelta(C, P, m).abs = SumOf(Amount(m), A) - SumOf(Amount(m), B)
<1>1. PICK x, y : x = SumMetric(A, m) /\ y = SumMetric(B, m)
  OBVIOUS
<1>2. PICK i \in Int, j \in Int : i = SumOf(Amount(m), A) /\ j = SumOf(Amount(m), B)
  BY SumMetricIs
<1>3. (x # Null => x = i) /\ (y # Null => y = j)
  BY <1>1, <1>2, SumMetricIs
<1>4. SumDelta(C, P, m).abs = AbsDelta(A # {}, B # {}, x, y)
  BY <1>1 DEF SumDelta
<1>5. AbsDelta(A # {}, B # {}, x, y) =
        IF A = {} THEN IF B = {} THEN Null ELSE IF y = Null THEN Null ELSE 0 - y
        ELSE IF B = {} THEN x
        ELSE IF x = Null \/ y = Null THEN Null ELSE x - y
  BY DEF AbsDelta
<1>6. SumOf(Amount(m), {}) = 0
  BY FS_EmptySet, SumZero
<1>7. (A = {} => i = 0) /\ (B = {} => j = 0)
  BY <1>2, <1>6
<1>8. SumDelta(C, P, m).abs = i - j
  <2> DEFINE z == SumDelta(C, P, m).abs
  <2>1. z # Null /\ z = AbsDelta(A # {}, B # {}, x, y)
    BY <1>4
  <2> HIDE DEF z
  <2>2. z = i - j
    <3>1. CASE A = {}
      BY <1>2, <1>3, <1>5, <1>7, <2>1, <3>1
    <3>2. CASE A # {} /\ B = {}
      BY <1>2, <1>3, <1>5, <1>7, <2>1, <3>2
    <3>3. CASE A # {} /\ B # {}
      BY <1>2, <1>3, <1>5, <2>1, <3>3
    <3> QED
      BY <3>1, <3>2, <3>3
  <2> QED
    BY <2>2 DEF z
<1> QED
  BY <1>2, <1>8

\* Pairs of the counterparties of two sides explain the change between them.
LEMMA PairsExplain ==
  ASSUME NEW E, IsFiniteSet(E), NEW C, NEW P, NEW A, NEW B, A = Level1(C), B = Level1(P),
         A \subseteq Position, B \subseteq Position, IsFiniteSet(A), IsFiniteSet(B),
         Pairs(E, A, B), NEW m \in Metric
  PROVE  Adds(E, SumDelta(C, P, m), m)
<1> SUFFICES ASSUME SumDelta(C, P, m).abs # Null, \A e \in E : ~OneSideBlank(e, m)
             PROVE  /\ Explained(E, m) = SumDelta(C, P, m).abs
                    /\ m \in {Debt} \cup Overdue =>
                         Explained({e \in E : Listed(e)}, m) = SumDelta(C, P, m).abs
  BY DEF Adds
<1>1. m \in {Debt} \cup Overdue => Explained({e \in E : Listed(e)}, m) = Explained(E, m)
  BY ListedAddUp
<1>2. Explained(E, m) = SumOf(Amount(m), A) - SumOf(Amount(m), B)
  BY PairsAddUp
<1>3. SumDelta(C, P, m).abs = SumOf(Amount(m), A) - SumOf(Amount(m), B)
  BY SumDeltaIs
<1> QED
  BY <1>1, <1>2, <1>3

SideOf(e) == IF e.current = Null THEN e.previous ELSE e.current

\* F, Ag and Bg are what E, A and B hold of a manager group.
HeldBy(g, F, E, Ag, A, Bg, B) ==
  /\ \A e : e \in F <=> e \in E /\ SideOf(e).group = g
  /\ \A p : p \in Ag <=> p \in A /\ p.group = g
  /\ \A p : p \in Bg <=> p \in B /\ p.group = g

\* The pairs of a manager group pair the positions of that group.
LEMMA GroupPairs ==
  ASSUME NEW E, NEW A, NEW B, Pairs(E, A, B), Null \notin A, Null \notin B,
         NEW g, NEW F, NEW Ag, NEW Bg, HeldBy(g, F, E, Ag, A, Bg, B)
  PROVE  Pairs(F, Ag, Bg)
<1>0. /\ \A e : e \in F <=> e \in E /\ SideOf(e).group = g
      /\ \A p : p \in Ag <=> p \in A /\ p.group = g
      /\ \A p : p \in Bg <=> p \in B /\ p.group = g
  BY DEF HeldBy
<1> USE <1>0
<1>1. ASSUME NEW e \in F
      PROVE  e \in E /\ e.current \in Ag \cup {Null} /\ e.previous \in Bg \cup {Null}
  <2>1. e \in E /\ SideOf(e).group = g
    OBVIOUS
  <2>2. /\ e.current \in A \cup {Null} /\ e.previous \in B \cup {Null}
        /\ e.current # Null /\ e.previous # Null => e.current.group = e.previous.group
    BY <2>1 DEF Pairs
  <2> QED
    BY <2>1, <2>2 DEF SideOf
<1>2. ASSUME NEW p \in Ag  PROVE \E e \in F : e.current = p
  <2>1. PICK e \in E : e.current = p
    BY DEF Pairs
  <2>2. e.current # Null
    BY <2>1
  <2> QED
    BY <2>1, <2>2 DEF SideOf
<1>3. ASSUME NEW p \in Bg  PROVE \E e \in F : e.previous = p
  <2>1. PICK e \in E : e.previous = p
    BY DEF Pairs
  <2>2. e.previous # Null
    BY <2>1
  <2>3. e.current # Null => e.current.group = e.previous.group
    BY <2>2 DEF Pairs
  <2> QED
    BY <2>1, <2>2, <2>3 DEF SideOf
<1>4. ASSUME NEW e \in F
      PROVE  /\ ~e.ambiguous
             /\ e.deltas = [m \in Metric |-> MetricDelta(e.current, e.previous, m)]
             /\ e.profile <=> ProfileChanged(e.current, e.previous)
             /\ e.current # Null /\ e.previous # Null => e.current.group = e.previous.group
             /\ e.current # Null \/ e.previous # Null
  BY DEF Pairs
<1>5. \A e, f \in F : e.current = f.current /\ e.current # Null => e = f
  BY DEF Pairs
<1>6. \A e, f \in F : e.previous = f.previous /\ e.previous # Null => e = f
  BY DEF Pairs
<1> QED
  BY <1>1, <1>2, <1>3, <1>4, <1>5, <1>6 DEF Pairs

\* A comparison has finitely many entities.
LEMMA EntitiesFinite ==
  ASSUME NEW C, NEW P, IsFiniteSet(C), IsFiniteSet(P)
  PROVE  IsFiniteSet(Entities(C, P))
<1> DEFINE b == [p \in C \cup P |-> Entity(p.key, OfKey(C, p.key), OfKey(P, p.key))]
<1>1. IsFiniteSet(C \cup P)
  BY FS_Union
<1>2. b \in Surjection(C \cup P, Entities(C, P))
  <2>1. \A p \in C \cup P : b[p] \in Entities(C, P)
    BY DEF Entities
  <2>2. \A e \in Entities(C, P) : \E p \in C \cup P : b[p] = e
    BY DEF Entities
  <2>3. b \in [C \cup P -> Entities(C, P)]
    BY <2>1
  <2> HIDE DEF b
  <2> QED
    BY <2>2, <2>3 DEF Surjection
<1> HIDE DEF b
<1> QED
  BY <1>1, <1>2, FS_Surjection

\* The entities of E explain the changes of the company and of its groups.
Explains(E, C, P, m) ==
  /\ Adds(E, SumDelta(C, P, m), m)
  /\ \A g : Adds({e \in E : SideOf(e).group = g},
                 SumDelta({p \in C : p.group = g}, {p \in P : p.group = g}, m), m)

\* The pairs of a report without repeated counterparties explain its changes.
LEMMA ChangesAddUp ==
  ASSUME IdentityInv, FileInv, TotalInv, NEW C, NEW P, NEW c, NEW b,
         C = Positions(c), P = Positions(b) \/ P = {},
         NEW E, E = {e \in Entities(C, P) : e.level = 1}, \A e \in E : ~e.ambiguous,
         NEW m \in Metric
  PROVE  Explains(E, C, P, m)
<1>1. /\ C \subseteq Position /\ IsFiniteSet(C)
      /\ P \subseteq Position /\ IsFiniteSet(P)
  BY PositionsAre, FS_EmptySet
<1>2. PICK A, B : A = Level1(C) /\ B = Level1(P)
  OBVIOUS
<1>3. A \subseteq C /\ B \subseteq P
  BY <1>2 DEF Level1
<1>4. /\ A \subseteq Position /\ IsFiniteSet(A) /\ Null \notin A
      /\ B \subseteq Position /\ IsFiniteSet(B) /\ Null \notin B
  BY <1>1, <1>3, FS_Subset, SourceAssumption
<1>5. IsFiniteSet(E)
  <2>1. IsFiniteSet(Entities(C, P))
    BY <1>1, EntitiesFinite
  <2>2. E \subseteq Entities(C, P)
    OBVIOUS
  <2> QED
    BY <2>1, <2>2, FS_Subset
<1>6. Pairs(E, A, B)
  BY <1>2, CounterpartiesPaired
<1>7. Adds(E, SumDelta(C, P, m), m)
  BY <1>2, <1>4, <1>5, <1>6, PairsExplain
<1>8. ASSUME NEW g
      PROVE  Adds({e \in E : SideOf(e).group = g},
                  SumDelta({p \in C : p.group = g}, {p \in P : p.group = g}, m), m)
  <2>1. PICK F : F = {e \in E : SideOf(e).group = g}
    OBVIOUS
  <2>2. PICK Cg, Pg : Cg = {p \in C : p.group = g} /\ Pg = {p \in P : p.group = g}
    OBVIOUS
  <2>3. PICK Ag, Bg : Ag = {p \in A : p.group = g} /\ Bg = {p \in B : p.group = g}
    OBVIOUS
  <2>4. Ag = Level1(Cg) /\ Bg = Level1(Pg)
    BY <1>2, <2>2, <2>3 DEF Level1
  <2>5. F \subseteq E /\ Ag \subseteq A /\ Bg \subseteq B
    BY <2>1, <2>3
  <2>6. IsFiniteSet(F) /\ IsFiniteSet(Ag) /\ IsFiniteSet(Bg)
    BY <1>4, <1>5, <2>5, FS_Subset
  <2>7. Pairs(F, Ag, Bg)
    <3>1. Null \notin A /\ Null \notin B
      BY <1>4
    <3>2. HeldBy(g, F, E, Ag, A, Bg, B)
      BY <2>1, <2>3 DEF HeldBy
    <3> QED
      BY <1>6, <3>1, <3>2, GroupPairs
  <2>8. Ag \subseteq Position /\ Bg \subseteq Position
    BY <1>4, <2>5
  <2>9. Adds(F, SumDelta(Cg, Pg, m), m)
    BY <2>4, <2>6, <2>7, <2>8, PairsExplain
  <2> QED
    BY <2>1, <2>2, <2>9
<1> QED
  BY <1>7, <1>8 DEF Explains

\* In a state of the invariant every report adds up.
LEMMA AddsUpOK ==
  ASSUME ComparisonInv
  PROVE  ReportAddsUp
<1>0. IdentityInv /\ FileInv /\ TotalInv /\ ReportInv
  BY DEF ComparisonInv
<1> SUFFICES ASSUME NEW d \in Date, report[d] # Null,
                    NEW E, E = {e \in report[d].entities : e.level = 1}
             PROVE  /\ {[scope |-> c.scope, of |-> c.of, metric |-> c.metric]
                          : c \in report[d].failures} =
                       UNION {{[scope |-> "file", of |-> f.dept, metric |-> m]
                                 : m \in {n \in Metric : AllBlank(f, n) # (f.total[n] = Null)}}
                               : f \in FilesOf(d)}
                    /\ \A m \in Metric :
                         /\ Adds(E, report[d].company[m], m)
                         /\ \A g \in DOMAIN report[d].groups :
                              \/ \E e \in E : e.ambiguous
                              \/ Adds({e \in E : SideOf(e).group = g},
                                      report[d].groups[g][m], m)
  BY DEF ReportAddsUp, SideOf
<1>1. PICK b : report[d] = ReportOf(d, b)
  BY <1>0 DEF ReportInv
<1>2. PICK C, P : /\ C = Positions(d)
                  /\ P = IF b = Null THEN {} ELSE Positions(b)
  OBVIOUS
<1>3. /\ report[d].entities = Entities(C, P) /\ report[d].failures = Failures(d)
      /\ report[d].company = Company(C, P) /\ report[d].groups = Groups(C, P)
  BY <1>1, <1>2 DEF ReportOf
<1>4. {Heading(c) : c \in report[d].failures} =
      UNION {{[scope |-> "file", of |-> f.dept, metric |-> m]
                : m \in {n \in Metric : AllBlank(f, n) # (f.total[n] = Null)}}
              : f \in FilesOf(d)}
  BY <1>0, <1>3, FailuresAre
<1>5. ASSUME NEW m \in Metric
      PROVE  /\ Adds(E, report[d].company[m], m)
             /\ \A g \in DOMAIN report[d].groups :
                  \/ \E e \in E : e.ambiguous
                  \/ Adds({e \in E : SideOf(e).group = g}, report[d].groups[g][m], m)
  <2>1. CASE \E e \in E : e.ambiguous
    BY <2>1 DEF Adds
  <2>2. CASE \A e \in E : ~e.ambiguous
    <3>1. C = Positions(d) /\ (P = Positions(b) \/ P = {})
      BY <1>2
    <3>2. E = {e \in Entities(C, P) : e.level = 1}
      BY <1>3
    <3>3. Explains(E, C, P, m)
      BY <1>0, <2>2, <3>1, <3>2, ChangesAddUp
    <3>4. report[d].company[m] = SumDelta(C, P, m)
      BY <1>3 DEF Company
    <3>5. \A g \in DOMAIN report[d].groups :
            report[d].groups[g][m] =
              SumDelta({p \in C : p.group = g}, {p \in P : p.group = g}, m)
      <4>1. PICK G, W : /\ G = {p.group : p \in Level1(C \cup P)}
                        /\ W = [g \in G |-> Company({p \in C : p.group = g},
                                                    {p \in P : p.group = g})]
        OBVIOUS
      <4>2. report[d].groups = W
        BY <1>3, <4>1 DEF Groups
      <4>3. \A g \in DOMAIN W : W[g] = Company({p \in C : p.group = g},
                                               {p \in P : p.group = g})
        BY <4>1
      <4> QED
        BY <4>2, <4>3 DEF Company
    <3> QED
      BY <3>3, <3>4, <3>5 DEF Explains
  <2> QED
    BY <2>1, <2>2
<1> QED
  BY <1>4, <1>5 DEF Heading

\* What a report says adds up, for every number of sessions, departments, dates
\* and metrics: a control fails for a file with a one-sided blank total only, and
\* a change of the company or of a group is the sum of the changes of its
\* counterparties, and of the debt and the overdue buckets the sum of those listed.
THEOREM ReportsAddUp == Spec => []ReportAddsUp
<1>1. ComparisonInv => ReportAddsUp
  BY AddsUpOK
<1> QED
  BY <1>1, ComparisonInvariant, PTL
=============================================================================
